------------------------------ MODULE V5Resolvers ------------------------------
(***************************************************************************)
(* The resolvers of the v5 variable router (planner/router.py), as sets of *)
(* outcomes.  A resolver reads the agent's context c and the shared        *)
(* ScratchPad board b, and either asks for an environment action, or       *)
(* commits to the board and returns None, or raises out of get_action.     *)
(*                                                                         *)
(* What a text says is abstracted to where it came from and whether it is  *)
(* marked: whether it contains one of the words (error, warn, exception)   *)
(* by which the router recognises log data.                                *)
(***************************************************************************)
EXTENDS Naturals, Sequences, FiniteSets

CONSTANTS
    Reentrant,   \* may asyncio.run be called while get_action runs in a loop?
    FaultSets,   \* the environments: what may go wrong outside the agent
    Stray        \* the variables a small model may touch beyond its phase

FaultKinds == {"read",     \* GET /variables/raw fails
               "raise",    \* a ScratchPad call fails with an HTTP error other than 422
               "reject",   \* every citation of the small model is wrong: HTTP 422
               "slm"}      \* the small model fails, or extracts something else

ASSUME ResolverAssumption ==
    /\ Reentrant \in BOOLEAN
    /\ FaultSets \subseteq SUBSET FaultKinds

VARIABLE faults          \* the faults this episode may meet, any number of times

\* VARIABLE_ROUTING_TABLE, in dependency order.
Table == <<"ANOMALY_CONFIRMED", "ROOT_CAUSE_SERVICE", "FAULT_TYPE", "FAULT_LAYER",
           "MITIGATION_ACTION", "MITIGATION_EXECUTED", "TNR_VERIFIED">>

Vars == {Table[i] : i \in DOMAIN Table}

ASSUME StrayAssumption == Stray \subseteq Vars

\* How much of the table each task type requires (TASK_REQUIRED_VARS).
TableLength == [detection |-> 1, localization |-> 2, analysis |-> 4, mitigation |-> 7]

Required(task) == {Table[i] : i \in 1..TableLength[task]}

Tasks == DOMAIN TableLength

Fetches == {"get_metrics", "read_metrics", "get_traces", "read_traces", "get_logs"}
Actions == Fetches \cup {"exec_shell", "undo"}
None == "none"

Text == [from : Actions \cup {None}, marked : BOOLEAN]
NoText == [from |-> None, marked |-> FALSE]

\* AgentContext: a path or a CSV text is known or not.
Context == [metrics_dir : BOOLEAN, metrics_consumed : BOOLEAN,
            traces_dir : BOOLEAN, traces_consumed : BOOLEAN,
            last : Text, pending : Actions \cup {None},
            health_csv : BOOLEAN, rollback_count : 0..4]

InitContext == [metrics_dir |-> FALSE, metrics_consumed |-> FALSE,
                traces_dir |-> FALSE, traces_consumed |-> FALSE,
                last |-> NoText, pending |-> None,
                health_csv |-> FALSE, rollback_count |-> 0]

\* External: the session on the ScratchPad server.  A row of the matrix is a
\* variable still MISSING; facts are the variables whose name occurs in a row
\* of the knowledge graph, negative those whose fact says no.
Boards == [missing : SUBSET Vars, facts : SUBSET Vars, negative : SUBSET Vars]

\* MISSING inserts the row unless it is there, RESOLVED deletes it.
Seed(b, rows) == [b EXCEPT !.missing = @ \cup rows]

Write(b, resolved, facts, negative) ==
    [missing |-> b.missing \ resolved,
     facts |-> b.facts \cup facts,
     negative |-> b.negative \cup (negative \ b.facts)]
-------------------------------------------------------------------------------
(* What a resolver may come to.  used is the text it computed from, and    *)
(* verdict what the guard, or the detection without usable data, decided.  *)

Outcome(act, c, b, used) ==
    [act |-> act, ctx |-> c, board |-> b, used |-> used, raised |-> FALSE, verdict |-> None]

Raise(c, b) ==
    [act |-> None, ctx |-> c, board |-> b, used |-> None, raised |-> TRUE, verdict |-> None]

Ask(act, c, b) == {Outcome(act, c, b, None)}
Nothing(c, b) == {Outcome(None, c, b, None)}

\* ctx.sync and ctx.commit go through asyncio.run, which raises in a running loop.
CallSucceeds == Reentrant
CallMayRaise == ~Reentrant \/ "raise" \in faults

\* The outcomes of a call to the server that leads to the outcomes then.
Call(c, b, then) ==
    (IF CallSucceeds THEN then ELSE {}) \cup (IF CallMayRaise THEN {Raise(c, b)} ELSE {})

\* A commit written by the router: its citations are prefixes of its own text,
\* so that the server never rejects it.
Commit(c, b, resolved, used) ==
    Call(c, b, {Outcome(None, c, Write(b, resolved, {}, {}), used)})

\* _slm_extract_and_commit.  A working small model resolves its variable and
\* states it as a fact; a failing one may do less, or touch other variables, and
\* it may call any of them missing again.
SlmCommit(c, b, var, extra) ==
    LET reach == {var} \cup Stray
        denied == SUBSET ({var} \cap {"ANOMALY_CONFIRMED"})
        payloads == IF "slm" \in faults
                    THEN [seeded : SUBSET reach, resolved : SUBSET reach, facts : SUBSET reach,
                          negative : denied]
                    ELSE [seeded : {{}}, resolved : {{var}}, facts : {{var}}, negative : denied]
        written == {Write(Seed(b, p.seeded), p.resolved \cup extra,
                          p.facts, p.negative \cap p.facts) : p \in payloads}
                   \cup (IF "reject" \in faults THEN {b} ELSE {})
    IN Call(c, b, {Outcome(None, c, w, c.last.from) : w \in written})
-------------------------------------------------------------------------------
(* The _need functions: an action, or nothing when the data is there.      *)

\* Mutated: a path is taken for the data.
NeedMetricsPathSuffices(c) == IF c.metrics_dir THEN None ELSE "get_metrics"
NeedTracesPathSuffices(c) == IF c.traces_dir THEN None ELSE "get_traces"

NeedMetrics(c) ==
    CASE c.metrics_consumed -> None
      [] ~c.metrics_consumed /\ ~c.metrics_dir -> "get_metrics"
      [] ~c.metrics_consumed /\ c.metrics_dir -> "read_metrics"

NeedTraces(c) ==
    CASE c.traces_consumed -> None
      [] ~c.traces_consumed /\ ~c.traces_dir -> "get_traces"
      [] ~c.traces_consumed /\ c.traces_dir -> "read_traces"

\* Mutated: logs are asked for without a target service.
NeedLogsOfUnknown(c, b) == IF c.last.marked THEN None ELSE "get_logs"

\* No target service, or a marked last response: no logs are asked for.
NeedLogs(c, b) ==
    IF "ROOT_CAUSE_SERVICE" \in b.facts /\ ~c.last.marked THEN "get_logs" ELSE None

\* _need_health_check: the context it leaves for _need_metrics.
HealthContext(c) ==
    IF ~c.health_csv /\ c.metrics_consumed /\ c.metrics_dir
    THEN [c EXCEPT !.metrics_dir = FALSE, !.metrics_consumed = FALSE]
    ELSE c

NeedHealthCheck(c) == IF c.health_csv THEN None ELSE NeedMetrics(HealthContext(c))

Judged(act, c, b, judgement) == [Outcome(act, c, b, None) EXCEPT !.verdict = judgement]

\* Mutated: the judgement of the small model is only noted.
GuardLayer2Advises(c, b) ==
    {Judged("exec_shell", c, b, judgement) : judgement \in {"skipped", "PASS", "FAIL"}}

\* Layer 2 of the guard asks a small model, in a try: whatever fails there, the
\* commit of its rejection included, the command goes out.
GuardLayer2(c, b) ==
    {Judged("exec_shell", c, b, "skipped")}
    \cup (IF ~CallSucceeds THEN {}
          ELSE {Judged("exec_shell", c, b, "PASS"), Judged(None, c, b, "FAIL")})
    \cup (IF CallSucceeds /\ CallMayRaise THEN {Judged("exec_shell", c, b, "FAIL")} ELSE {})

\* The action tag is the status of the row if the structured read finds it, else
\* the fact in the rendered view; without a tag nothing is executed.  Layer 1 of
\* the guard blocks by pattern.
NeedExecution(c, b) ==
    LET guarded == Commit(c, b, {}, None) \cup GuardLayer2(c, b)
        rendered == Call(c, b, IF "MITIGATION_ACTION" \in b.facts
                               THEN guarded ELSE Nothing(c, b))
        row == "MITIGATION_ACTION" \in b.missing
    IN (IF row THEN guarded ELSE {})
       \cup (IF ~row \/ "read" \in faults THEN rendered ELSE {})
-------------------------------------------------------------------------------
(* The internal resolvers.                                                 *)

\* Detection data that cannot be used is committed as no anomaly.
ResolveAnomaly(c, b) ==
    IF c.last = NoText
    THEN Nothing(c, b)
    ELSE {[o EXCEPT !.verdict = IF o.raised THEN None ELSE "no_anomaly"] :
              o \in Commit(c, b, {"ANOMALY_CONFIRMED"}, c.last.from)}
         \cup SlmCommit(c, b, "ANOMALY_CONFIRMED", {})

\* No call graph or no suspect: nothing is committed.
ResolveLocalization(c, b) ==
    Nothing(c, b)
    \cup (IF c.last = NoText THEN {}
          ELSE SlmCommit(c, b, "ROOT_CAUSE_SERVICE", {"ROOT_CAUSE_SERVICE"}))

ResolveFaultType(c, b) ==
    IF c.last = NoText
    THEN Nothing(c, b)
    ELSE Commit(c, b, {"FAULT_TYPE", "FAULT_LAYER"}, c.last.from)

\* A safety net: only once FAULT_TYPE is resolved, and if the regex matches.
ResolveFaultLayer(c, b) ==
    Call(c, b, Nothing(c, b)
               \cup (IF "FAULT_TYPE" \notin b.missing /\ c.last # NoText
                     THEN Commit(c, b, {"FAULT_LAYER"}, c.last.from)
                     ELSE {}))

ResolveMitigationPlan(c, b) == Commit(c, b, {"MITIGATION_ACTION"}, None)

\* No post-mitigation text, or no regression, or too many rollbacks: verified.
\* Otherwise the mitigation rows come back and the deployment is undone.
ResolveTnr(c, b) ==
    LET counted == [c EXCEPT !.rollback_count = @ + 1]
        verified(d) == Commit(d, b, {"TNR_VERIFIED"}, None)
        reset == [counted EXCEPT !.health_csv = FALSE, !.metrics_dir = FALSE,
                                 !.metrics_consumed = FALSE]
        undo == Call(counted, b,
                     Ask("undo", reset, Seed(b, {"MITIGATION_ACTION", "MITIGATION_EXECUTED"})))
    IN verified(c)
       \cup (IF ~c.health_csv THEN {}
             ELSE IF c.rollback_count >= 3 THEN verified(counted)
             ELSE undo)

\* need(ctx) or resolve(ctx)
OrElse(need, c, b, resolve) == IF need # None THEN Ask(need, c, b) ELSE resolve

\* The routing table: what resolving var may come to.
Resolve(var, c, b) ==
    CASE var = "ANOMALY_CONFIRMED" -> OrElse(NeedMetrics(c), c, b, ResolveAnomaly(c, b))
      [] var = "ROOT_CAUSE_SERVICE" -> OrElse(NeedTraces(c), c, b, ResolveLocalization(c, b))
      [] var = "FAULT_TYPE" -> Call(c, b, OrElse(NeedLogs(c, b), c, b, ResolveFaultType(c, b)))
      [] var = "FAULT_LAYER" -> ResolveFaultLayer(c, b)
      [] var = "MITIGATION_ACTION" -> ResolveMitigationPlan(c, b)
      [] var = "MITIGATION_EXECUTED" -> NeedExecution(c, b)
      [] var = "TNR_VERIFIED" ->
            LET d == HealthContext(c) IN OrElse(NeedHealthCheck(c), d, b, ResolveTnr(d, b))
===============================================================================
