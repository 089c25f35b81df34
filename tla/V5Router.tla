------------------------------- MODULE V5Router -------------------------------
(***************************************************************************)
(* One AIOpsLab episode of GraphRCAAgentV5: the orchestrator calls         *)
(* get_action with the response to the last action, the variable router    *)
(* scans its table, and the call ends with an action, a submission, or an  *)
(* exception.  Each read of the board and each resolver is a step.         *)
(***************************************************************************)
EXTENDS V5Resolvers

CONSTANTS
    TaskTypes,           \* the task types of the episodes
    MaxInternalIters     \* max_internal_iters

ASSUME RouterAssumption ==
    /\ TaskTypes \subseteq Tasks
    /\ MaxInternalIters \in Nat \ {0}

VARIABLES
    task,         \* ctx.task_type
    board,        \* the session on the ScratchPad server
    ctx,          \* the AgentContext
    pc,           \* where get_action stands
    iter,         \* its internal iteration
    unresolved,   \* plan_next_step's copy of the unresolved set
    cursor,       \* its place in the table
    submission,   \* the submission made, if any
    answered,     \* history: the fetches whose response was committed
    basis,        \* history: the text each resolver last computed from
    verdict       \* history: the last judgement of the guard or of the detection

scan == <<iter, unresolved, cursor>>
history == <<answered, basis, verdict>>
vars == <<faults, task, board, ctx, pc, scan, submission, history>>

Verdicts == {None, "PASS", "FAIL", "skipped", "no_anomaly"}
NoSubmission == [best_effort |-> FALSE, answer |-> None]
Submissions == [best_effort : BOOLEAN, answer : {None, "Yes", "No", "given"}]

\* The constructor opens the session and seeds the rows of the task.
Init == /\ faults \in FaultSets
        /\ task \in TaskTypes
        /\ board = [missing |-> Required(task), facts |-> {}, negative |-> {}]
        /\ ctx = InitContext
        /\ pc = "env"
        /\ iter = 1
        /\ unresolved = {}
        /\ cursor = 1
        /\ submission = NoSubmission
        /\ answered = {}
        /\ basis = [v \in Vars |-> None]
        /\ verdict = None

\* get_unresolved_variables: a failed read gives the empty dict, which reads as
\* nothing left to resolve.
Reads(b) == {Required(task) \cap b.missing} \cup (IF "read" \in faults THEN {{}} ELSE {})

\* Mutated: the text of read_traces is kept, but not that it was read.
RoutedForgetsTraces(c, marked) ==
    LET seen == [c EXCEPT !.last = [from |-> c.pending, marked |-> marked], !.pending = None]
    IN CASE c.pending = "get_metrics" -> [seen EXCEPT !.metrics_dir = TRUE]
         [] c.pending = "read_metrics" -> [seen EXCEPT !.metrics_consumed = TRUE]
         [] c.pending = "get_traces" -> [seen EXCEPT !.traces_dir = TRUE]
         [] OTHER -> seen

\* Mutated: a metrics read is filed as health text though none was read before it.
RoutedFirstIsHealth(c, marked) ==
    LET seen == [c EXCEPT !.last = [from |-> c.pending, marked |-> marked], !.pending = None]
    IN CASE c.pending = "get_metrics" -> [seen EXCEPT !.metrics_dir = TRUE]
         [] c.pending = "read_metrics" ->
                IF c.health_csv THEN [seen EXCEPT !.metrics_consumed = TRUE]
                ELSE [seen EXCEPT !.health_csv = TRUE]
         [] c.pending = "get_traces" -> [seen EXCEPT !.traces_dir = TRUE]
         [] c.pending = "read_traces" -> [seen EXCEPT !.traces_consumed = TRUE]
         [] OTHER -> seen

\* commit_environment_response: where the response to the pending action goes.
Routed(c, marked) ==
    LET seen == [c EXCEPT !.last = [from |-> c.pending, marked |-> marked], !.pending = None]
    IN CASE c.pending = "get_metrics" -> [seen EXCEPT !.metrics_dir = TRUE]
         [] c.pending = "read_metrics" ->
                IF ~c.health_csv /\ c.metrics_consumed
                THEN [seen EXCEPT !.health_csv = TRUE]
                ELSE [seen EXCEPT !.metrics_consumed = TRUE]
         [] c.pending = "get_traces" -> [seen EXCEPT !.traces_dir = TRUE]
         [] c.pending = "read_traces" -> [seen EXCEPT !.traces_consumed = TRUE]
         [] OTHER -> seen

Start == /\ pc' = "read"
         /\ iter' = 1
         /\ UNCHANGED <<faults, task, board, unresolved, cursor, submission, basis, verdict>>

\* get_action is called with the text of a response to the pending action ...
Observe(marked) ==
    /\ pc = "env"
    /\ ctx.pending # None
    /\ ctx' = Routed(ctx, marked)
    /\ answered' = answered \cup {ctx.pending}
    /\ Start

\* ... or with a blank one, or with the problem statement: nothing to commit.
ObserveNothing ==
    /\ pc = "env"
    /\ Start
    /\ UNCHANGED <<ctx, answered>>

\* plan_next_step starts from a fresh read.
Plan ==
    /\ pc = "read"
    /\ unresolved' \in Reads(board)
    /\ cursor' = 1
    /\ pc' = "scan"
    /\ UNCHANGED <<faults, task, board, ctx, iter, submission, history>>

\* The rows the scan still has to look at.
Ahead == {i \in cursor..Len(Table) : Table[i] \in unresolved}

\* The next resolver of the scan, whatever it comes to.
Apply(o) ==
    /\ board' = o.board
    /\ verdict' = IF o.verdict = None THEN verdict ELSE o.verdict

ResolverActs(i) ==
    /\ \E o \in Resolve(Table[i], ctx, board) :
          /\ o.act # None
          /\ Apply(o)
          /\ ctx' = [o.ctx EXCEPT !.pending = o.act]
    /\ pc' = "env"
    /\ UNCHANGED <<faults, task, scan, submission, answered, basis>>

ResolverReturnsNone(i) ==
    /\ \E o \in Resolve(Table[i], ctx, board) :
          /\ o.act = None /\ ~o.raised
          /\ Apply(o)
          /\ ctx' = o.ctx
          /\ basis' = IF o.used = None THEN basis ELSE [basis EXCEPT ![Table[i]] = o.used]
          /\ unresolved' \in Reads(o.board)
    /\ cursor' = i + 1
    /\ UNCHANGED <<faults, task, pc, iter, submission, answered>>

ResolverRaises(i) ==
    /\ \E o \in Resolve(Table[i], ctx, board) :
          /\ o.raised
          /\ Apply(o)
          /\ ctx' = o.ctx
    /\ pc' = "raised"
    /\ UNCHANGED <<faults, task, scan, submission, answered, basis>>

\* Mutated: the unresolved set is iterated over in its own order.
ScanStepUnordered ==
    /\ pc = "scan"
    /\ \E i \in Ahead : ResolverActs(i) \/ ResolverReturnsNone(i) \/ ResolverRaises(i)

ScanStep ==
    /\ pc = "scan"
    /\ \E i \in Ahead :
          /\ \A j \in Ahead : i <= j
          /\ ResolverActs(i) \/ ResolverReturnsNone(i) \/ ResolverRaises(i)

\* The scan is through: plan_next_step returns None.
ScanEnds ==
    /\ pc = "scan"
    /\ Ahead = {}
    /\ pc' = "decide"
    /\ UNCHANGED <<faults, task, board, ctx, scan, submission, history>>

\* build_submit_call: a detection says Yes unless a fact says no.
Answer == IF task # "detection" THEN "given"
          ELSE IF "ANOMALY_CONFIRMED" \in board.negative THEN "No" ELSE "Yes"

Submit(best_effort) ==
    /\ CallSucceeds
    /\ submission' = [best_effort |-> best_effort, answer |-> Answer]
    /\ pc' = "submitted"
    /\ UNCHANGED <<faults, task, board, ctx, scan, history>>

SubmitRaises ==
    /\ CallMayRaise
    /\ pc' = "raised"
    /\ UNCHANGED <<faults, task, board, ctx, scan, submission, history>>

\* all_required_vars_resolved reads again; after the last iteration the agent
\* submits what it has.
SubmitResolved ==
    /\ pc = "decide"
    /\ {} \in Reads(board)
    /\ Submit(FALSE) \/ SubmitRaises

\* Mutated: one iteration more than the budget, or no budget at all.
TryAgainOnceMore ==
    /\ pc = "decide"
    /\ Required(task) \cap board.missing # {}
    /\ iter <= MaxInternalIters
    /\ iter' = iter + 1
    /\ pc' = "read"
    /\ UNCHANGED <<faults, task, board, ctx, unresolved, cursor, submission, history>>

TryAgainUnbounded ==
    /\ pc = "decide"
    /\ Required(task) \cap board.missing # {}
    /\ pc' = "read"
    /\ UNCHANGED <<faults, task, board, ctx, scan, submission, history>>

TryAgain ==
    /\ pc = "decide"
    /\ Required(task) \cap board.missing # {}
    /\ iter < MaxInternalIters
    /\ iter' = iter + 1
    /\ pc' = "read"
    /\ UNCHANGED <<faults, task, board, ctx, unresolved, cursor, submission, history>>

SubmitBestEffort ==
    /\ pc = "decide"
    /\ Required(task) \cap board.missing # {}
    /\ iter = MaxInternalIters
    /\ Submit(TRUE) \/ SubmitRaises

\* The episode is over.
Over == /\ pc \in {"submitted", "raised"}
        /\ UNCHANGED vars

Agent == Plan \/ ScanStep \/ ScanEnds \/ SubmitResolved \/ TryAgain \/ SubmitBestEffort

Responds == \E marked \in BOOLEAN : Observe(marked)

Next == Agent \/ Responds \/ ObserveNothing \/ Over

Spec == Init /\ [][Next]_vars

\* get_action runs to its end, and the orchestrator calls it again: first with
\* the problem, and not with blank responses for ever.
FairSpec == Spec /\ WF_vars(Agent) /\ WF_vars(ObserveNothing) /\ SF_vars(Responds)
-------------------------------------------------------------------------------
TypeOK ==
    /\ faults \in FaultSets
    /\ task \in TaskTypes
    /\ board \in Boards
    /\ ctx \in Context
    /\ pc \in {"env", "read", "scan", "decide", "submitted", "raised"}
    /\ iter \in 1..MaxInternalIters
    /\ unresolved \subseteq Required(task)
    /\ cursor \in 1..(Len(Table) + 1)
    /\ submission \in Submissions
    /\ answered \subseteq Actions
    /\ basis \in [Vars -> Actions \cup {None}]
    /\ verdict \in Verdicts

\* A submission, best effort or not, comes only after the telemetry its answer is
\* about was read: metrics for every task, traces for all but detection.
EvidenceBeforeSubmit ==
    pc = "submitted" /\ "read" \notin faults =>
        /\ "read_metrics" \in answered
        /\ task # "detection" => "read_traces" \in answered

\* No mitigation is ever asked to be undone, over any number of turns and whatever
\* fails: asking for the metrics of the health check clears the flag by which their answer
\* would be filed as health text, so that _resolve_tnr has nothing to compare.
RollbackNeverAsked == ctx.pending # "undo" /\ ctx.rollback_count = 0

\* Environment calls cost irreversible steps: a telemetry fetch that was answered
\* is never made again (logs, and the mitigation task, apart).
NoWastedFetch ==
    [][task # "mitigation" /\ ctx'.pending # ctx.pending =>
           ctx'.pending \notin (answered \ {"get_logs"})]_vars

\* Telemetry is asked for in dependency order, whatever the small model answers:
\* traces once the metrics were read, logs once the traces were.
FetchOrder ==
    "read" \notin faults =>
        /\ ctx.pending \in {"get_traces", "read_traces"} => "read_metrics" \in answered
        /\ ctx.pending = "get_logs" => "read_traces" \in answered

\* The anomaly detection runs on the metrics, if the small model answers well:
\* otherwise it runs again, on whatever text came last.
AnomalyFromMetrics ==
    faults \cap {"slm", "reject"} = {} => basis["ANOMALY_CONFIRMED"] \in {None, "read_metrics"}

\* The localization runs on the traces, in the tasks that only diagnose, even
\* when an earlier attempt was rejected: as long as no service is named no logs
\* are asked for, so that the traces stay the last text.
LocalizationFromTraces ==
    task # "mitigation" => basis["ROOT_CAUSE_SERVICE"] \in {None, "read_traces"}

\* A command the guard has just judged FAIL is not sent for execution, as long as
\* the commit of that judgement does not fail.
GuardFailBlocks ==
    [][pc = "scan" /\ pc' = "env" /\ ctx'.pending = "exec_shell" =>
           verdict' # "FAIL" \/ "raise" \in faults]_vars

\* An episode that detects or localizes comes to an end, by a submission or an
\* exception, whatever goes wrong.
EpisodeEnds == task \in {"detection", "localization"} ~> pc \in {"submitted", "raised"}
-------------------------------------------------------------------------------
(* What the documentation says, and the code does not do.                  *)

\* get_action "returns exactly one fenced code block": it does not raise.
GetActionReturnsBlock == pc # "raised"

\* A failed read makes the caller "treat all required vars as unresolved": a
\* submission that is not best effort leaves nothing unresolved on the server.
SubmitIsEarned ==
    pc = "submitted" /\ ~submission.best_effort => Required(task) \cap board.missing = {}

\* The health text is "populated by _need_health_check after the second
\* get_metrics + read_metrics cycle": once that cycle has begun, it arrives.
HealthTextArrives ==
    ~ctx.metrics_consumed /\ "read_metrics" \in answered
        ~> ctx.health_csv \/ pc \in {"submitted", "raised"}
===============================================================================
