------------------------------ MODULE RouterProofs ------------------------------
(***************************************************************************)
(* The v5 router, for every set of faults, every bound on its iterations   *)
(* and every reach of the small model: its types, the order in which it    *)
(* gathers evidence where reads do not fail, and, in the second half, what *)
(* it computes from and asks for again.                                    *)
(***************************************************************************)
EXTENDS V5Router, TLAPS

\* What the outcomes of a resolver are made of: one that raises asks for nothing.
Outcomes ==
    {o \in [act : Actions \cup {None}, ctx : Context, board : Boards,
            used : Actions \cup {None}, raised : BOOLEAN, verdict : Verdicts] :
         o.raised => o.act = None}

\* Every variable of the table is one of seven.
LEMMA TableVars ==
    /\ Len(Table) = 7
    /\ DOMAIN Table = 1..7
    /\ \A i \in 1..7 : Table[i] \in Vars
    /\ Table[1] = "ANOMALY_CONFIRMED" /\ Table[2] = "ROOT_CAUSE_SERVICE"
    /\ Table[3] = "FAULT_TYPE" /\ Table[4] = "FAULT_LAYER" /\ Table[5] = "MITIGATION_ACTION"
    /\ Table[6] = "MITIGATION_EXECUTED" /\ Table[7] = "TNR_VERIFIED"
  BY DEF Table, Vars

\* A call to the server leads where it should, or raises.
LEMMA CallOutcome ==
    ASSUME NEW c, NEW b, NEW then, NEW o \in Call(c, b, then)
    PROVE  o \in then \/ o = Raise(c, b)
  BY DEF Call

\* An outcome that resolves some of the variables, or none.
Commits(o, c, b, resolved) ==
    /\ o \in Outcomes /\ o.act = None /\ o.ctx = c
    /\ o.board.missing \subseteq b.missing
    /\ b.missing \ resolved \subseteq o.board.missing

\* A commit of the router.
LEMMA CommitOutcome ==
    ASSUME NEW c \in Context, NEW b \in Boards, NEW resolved \in SUBSET Vars,
           NEW used \in Actions \cup {None}, NEW o \in Commit(c, b, resolved, used)
    PROVE  Commits(o, c, b, resolved)
  <1>1. o = Outcome(None, c, Write(b, resolved, {}, {}), used) \/ o = Raise(c, b)
    BY CallOutcome DEF Commit
  <1>2. Write(b, resolved, {}, {}) \in Boards
    BY DEF Write, Boards
  <1>3. CASE o = Outcome(None, c, Write(b, resolved, {}, {}), used)
    BY <1>2, <1>3 DEF Outcome, Outcomes, Verdicts, Write, Commits
  <1>4. CASE o = Raise(c, b)
    BY <1>4 DEF Raise, Outcomes, Verdicts, Boards, Commits
  <1>5. QED
    BY <1>1, <1>3, <1>4

\* A commit of the small model closes its variable and the stray ones at most, and opens
\* one of them at most where the model fails.
Reaches(o, c, b, reach, resolved) ==
    /\ o \in Outcomes /\ o.act = None /\ o.ctx = c
    /\ o.board.missing \subseteq b.missing \cup reach
    /\ "slm" \notin faults => o.board.missing \subseteq b.missing
    /\ b.missing \ resolved \subseteq o.board.missing

\* What the small model commits reaches no further.
LEMMA SlmOutcome ==
    ASSUME NEW c \in Context, NEW b \in Boards, NEW var \in Vars, NEW extra \in SUBSET Vars,
           NEW o \in SlmCommit(c, b, var, extra)
    PROVE  Reaches(o, c, b, {var} \cup Stray, {var} \cup Stray \cup extra)
  <1> DEFINE reach == {var} \cup Stray
             denied == SUBSET ({var} \cap {"ANOMALY_CONFIRMED"})
             payloads == IF "slm" \in faults
                    THEN [seeded : SUBSET reach, resolved : SUBSET reach, facts : SUBSET reach,
                          negative : denied]
                    ELSE [seeded : {{}}, resolved : {{var}}, facts : {{var}}, negative : denied]
             written == {Write(Seed(b, p.seeded), p.resolved \cup extra,
                               p.facts, p.negative \cap p.facts) : p \in payloads}
                        \cup (IF "reject" \in faults THEN {b} ELSE {})
  <1>1. o \in {Outcome(None, c, w, c.last.from) : w \in written} \/ o = Raise(c, b)
    BY CallOutcome DEF SlmCommit
  <1>2. ASSUME NEW w \in written
        PROVE  /\ w \in Boards /\ w.missing \subseteq b.missing \cup reach
               /\ "slm" \notin faults => w.missing \subseteq b.missing
               /\ b.missing \ (reach \cup extra) \subseteq w.missing
    <2>1. CASE w = b
      BY <2>1 DEF Boards
    <2>2. CASE w # b
      <3>1. PICK p \in payloads : w = Write(Seed(b, p.seeded), p.resolved \cup extra,
                                           p.facts, p.negative \cap p.facts)
        BY <2>2
      <3>2. /\ p.seeded \subseteq reach /\ p.resolved \subseteq reach /\ p.facts \subseteq reach
            /\ p.negative \subseteq Vars /\ ("slm" \notin faults => p.seeded = {})
        BY <3>1
      <3>3. /\ w.missing = (b.missing \cup p.seeded) \ (p.resolved \cup extra)
            /\ w \in Boards
        BY <3>1, <3>2, StrayAssumption DEF Write, Seed, Boards
      <3>4. QED
        BY <3>2, <3>3
    <2>3. QED
      BY <2>1, <2>2
  <1>3. c.last.from \in Actions \cup {None}
    BY DEF Context, Text
  <1>4. CASE o = Raise(c, b)
    BY <1>4 DEF Raise, Outcomes, Verdicts, Boards, Reaches
  <1>5. CASE o \in {Outcome(None, c, w, c.last.from) : w \in written}
    <2>1. PICK w \in written : o = Outcome(None, c, w, c.last.from)
      BY <1>5
    <2>2. QED
      BY <2>1, <1>2, <1>3 DEF Outcome, Outcomes, Verdicts, Reaches
  <1>6. QED
    BY <1>1, <1>4, <1>5
-------------------------------------------------------------------------------
\* A resolver that only gathers leaves everything as it is.
Gathers(o, c, b, actions) ==
    o \in Outcomes /\ o.act \in actions /\ o.ctx = c /\ o.board = b /\ ~o.raised

\* The detection gathers metrics; once it has them it reaches only its own row and stray ones.
LEMMA AnomalyOutcome ==
    ASSUME NEW c \in Context, NEW b \in Boards, NEW o \in Resolve("ANOMALY_CONFIRMED", c, b)
    PROVE  \/ ~c.metrics_consumed /\ Gathers(o, c, b, {"get_metrics", "read_metrics"})
           \/ /\ c.metrics_consumed
              /\ Reaches(o, c, b, {"ANOMALY_CONFIRMED"} \cup Stray, {"ANOMALY_CONFIRMED"} \cup Stray)
  <1>1. o \in OrElse(NeedMetrics(c), c, b, ResolveAnomaly(c, b))
    BY DEF Resolve
  <1>2. CASE ~c.metrics_consumed
    <2>1. NeedMetrics(c) \in {"get_metrics", "read_metrics"}
      BY <1>2 DEF NeedMetrics, Context
    <2>2. o = Outcome(NeedMetrics(c), c, b, None)
      BY <1>1, <2>1 DEF OrElse, Ask, None
    <2>3. QED
      BY <1>2, <2>1, <2>2 DEF Gathers, Outcome, Outcomes, Actions, Fetches, Verdicts, None
  <1>3. CASE c.metrics_consumed
    <2>1. o \in ResolveAnomaly(c, b)
      BY <1>1, <1>3 DEF OrElse, NeedMetrics
    <2>2. CASE o = Outcome(None, c, b, None)
      BY <1>3, <2>2 DEF Outcome, Outcomes, Verdicts, Boards, Reaches
    <2>3. CASE \E q \in Commit(c, b, {"ANOMALY_CONFIRMED"}, c.last.from) :
                  o = [q EXCEPT !.verdict = IF q.raised THEN None ELSE "no_anomaly"]
      <3>1. PICK q \in Commit(c, b, {"ANOMALY_CONFIRMED"}, c.last.from) :
                  o = [q EXCEPT !.verdict = IF q.raised THEN None ELSE "no_anomaly"]
        BY <2>3
      <3>2. Commits(q, c, b, {"ANOMALY_CONFIRMED"})
        <4>1. {"ANOMALY_CONFIRMED"} \in SUBSET Vars /\ c.last.from \in Actions \cup {None}
          BY TableVars DEF Context, Text
        <4>2. q \in Commit(c, b, {"ANOMALY_CONFIRMED"}, c.last.from)
          BY <3>1
        <4>3. QED
          BY <4>1, <4>2, CommitOutcome
      <3>3. o \in Outcomes /\ o.act = None /\ o.ctx = c /\ o.board = q.board
        BY <3>1, <3>2 DEF Outcomes, Verdicts, Commits
      <3>4. QED
        BY <1>3, <3>2, <3>3 DEF Commits, Reaches
    <2>4. CASE o \in SlmCommit(c, b, "ANOMALY_CONFIRMED", {})
      <3>1. "ANOMALY_CONFIRMED" \in Vars
        BY TableVars
      <3>2. Reaches(o, c, b, {"ANOMALY_CONFIRMED"} \cup Stray,
                    {"ANOMALY_CONFIRMED"} \cup Stray \cup {})
        BY <2>4, <3>1, SlmOutcome
      <3>3. QED
        BY <1>3, <3>2 DEF Reaches
    <2>5. QED
      BY <2>1, <2>2, <2>3, <2>4 DEF ResolveAnomaly, Nothing
  <1>4. QED
    BY <1>2, <1>3 DEF Context

\* The localization gathers traces, and commits only once it has them.
LEMMA LocalizationOutcome ==
    ASSUME NEW c \in Context, NEW b \in Boards, NEW o \in Resolve("ROOT_CAUSE_SERVICE", c, b)
    PROVE  \/ ~c.traces_consumed /\ Gathers(o, c, b, {"get_traces", "read_traces"})
           \/ /\ c.traces_consumed
              /\ Reaches(o, c, b, {"ROOT_CAUSE_SERVICE"} \cup Stray, {"ROOT_CAUSE_SERVICE"} \cup Stray)
  <1>1. o \in OrElse(NeedTraces(c), c, b, ResolveLocalization(c, b))
    BY DEF Resolve
  <1>2. CASE ~c.traces_consumed
    <2>1. NeedTraces(c) \in {"get_traces", "read_traces"}
      BY <1>2 DEF NeedTraces, Context
    <2>2. o = Outcome(NeedTraces(c), c, b, None)
      BY <1>1, <2>1 DEF OrElse, Ask, None
    <2>3. QED
      BY <1>2, <2>1, <2>2 DEF Gathers, Outcome, Outcomes, Actions, Fetches, Verdicts, None
  <1>3. CASE c.traces_consumed
    <2>1. o \in ResolveLocalization(c, b)
      BY <1>1, <1>3 DEF OrElse, NeedTraces
    <2>2. CASE o = Outcome(None, c, b, None)
      BY <1>3, <2>2 DEF Outcome, Outcomes, Verdicts, Boards, Reaches
    <2>3. CASE o \in SlmCommit(c, b, "ROOT_CAUSE_SERVICE", {"ROOT_CAUSE_SERVICE"})
      <3>1. "ROOT_CAUSE_SERVICE" \in Vars /\ {"ROOT_CAUSE_SERVICE"} \in SUBSET Vars
        BY TableVars
      <3>2. Reaches(o, c, b, {"ROOT_CAUSE_SERVICE"} \cup Stray,
                    {"ROOT_CAUSE_SERVICE"} \cup Stray \cup {"ROOT_CAUSE_SERVICE"})
        BY <2>3, <3>1, SlmOutcome
      <3>3. QED
        BY <1>3, <3>2 DEF Reaches
    <2>4. QED
      BY <2>1, <2>2, <2>3 DEF ResolveLocalization, Nothing
  <1>4. QED
    BY <1>2, <1>3 DEF Context

-------------------------------------------------------------------------------
\* A context in which nothing is known that was not known before, and no rollback counted.
Forgets(c, d) ==
    /\ d \in Context
    /\ d.pending = c.pending
    /\ d.rollback_count = c.rollback_count
    /\ d.traces_consumed => c.traces_consumed
    /\ d.metrics_consumed => c.metrics_consumed
    /\ d.health_csv => c.health_csv

\* Nothing is undone, and metrics are read only where those read before are forgotten.
NoUndo(o) ==
    /\ o.act # "undo"
    /\ o.act = "read_metrics" => ~o.ctx.metrics_consumed

\* A resolver behind the localization: it asks for no traces, counts no rollback, and
\* brings no row back.
Later(o, c, b) ==
    /\ o \in Outcomes
    /\ o.act \notin {"get_traces", "read_traces"}
    /\ NoUndo(o)
    /\ Forgets(c, o.ctx)
    /\ o.board.missing \subseteq b.missing

\* An outcome that leaves the context, and adds no row.
LEMMA QuietOutcome ==
    ASSUME NEW c \in Context, NEW b \in Boards, NEW o \in Outcomes,
           o.act \in {None, "get_logs", "exec_shell"}, o.ctx = c,
           o.board.missing \subseteq b.missing
    PROVE  Later(o, c, b)
  BY DEF Later, Forgets, NoUndo, None

\* Asking for an action changes neither the context nor the board.
LEMMA AskOutcome ==
    ASSUME NEW c \in Context, NEW b \in Boards, NEW act \in Actions \cup {None}, NEW o \in Ask(act, c, b)
    PROVE  o \in Outcomes /\ o.act = act /\ o.ctx = c /\ o.board = b
  <1>1. o = Outcome(act, c, b, None)
    BY DEF Ask
  <1>2. QED
    BY <1>1 DEF Outcome, Outcomes, Verdicts

\* A resolver that does nothing leaves everything as it is.
LEMMA NothingOutcome ==
    ASSUME NEW c \in Context, NEW b \in Boards, NEW o \in Nothing(c, b)
    PROVE  o \in Outcomes /\ o.act = None /\ o.ctx = c /\ o.board = b
  <1>1. o = Outcome(None, c, b, None)
    BY DEF Nothing
  <1>2. QED
    BY <1>1 DEF Outcome, Outcomes, Verdicts

\* A call that raises leaves everything as it is.
LEMMA RaiseOutcome ==
    ASSUME NEW c \in Context, NEW b \in Boards
    PROVE  /\ Raise(c, b) \in Outcomes
           /\ Raise(c, b).act = None /\ Raise(c, b).ctx = c /\ Raise(c, b).board = b
           /\ Raise(c, b).raised = TRUE
  BY DEF Raise, Outcomes, Verdicts

\* A commit of the router is quiet.
LEMMA QuietCommit ==
    ASSUME NEW c \in Context, NEW b \in Boards, NEW resolved \in SUBSET Vars,
           NEW used \in Actions \cup {None}, NEW o \in Commit(c, b, resolved, used)
    PROVE  Later(o, c, b)
  <1>1. Commits(o, c, b, resolved)
    BY CommitOutcome
  <1>2. QED
    BY <1>1, QuietOutcome DEF None, Commits

\* A resolver behind the localization may raise ...
LEMMA QuietRaise ==
    ASSUME NEW c \in Context, NEW b \in Boards
    PROVE  Later(Raise(c, b), c, b)
  BY RaiseOutcome, QuietOutcome DEF None

\* ... or do nothing.
LEMMA QuietNothing ==
    ASSUME NEW c \in Context, NEW b \in Boards, NEW o \in Nothing(c, b)
    PROVE  Later(o, c, b)
  <1>1. o \in Outcomes /\ o.act = None /\ o.ctx = c /\ o.board = b
    BY NothingOutcome
  <1>2. QED
    BY <1>1, QuietOutcome DEF None

\* The last text came from an action, or from nowhere.
LEMMA LastText ==
    ASSUME NEW c \in Context
    PROVE  c.last.from \in Actions \cup {None}
  BY DEF Context, Text

\* What the resolvers behind the localization resolve.
LEMMA SetsOfVars ==
    /\ {"FAULT_TYPE", "FAULT_LAYER"} \in SUBSET Vars /\ {"FAULT_LAYER"} \in SUBSET Vars
    /\ {"MITIGATION_ACTION"} \in SUBSET Vars /\ {"TNR_VERIFIED"} \in SUBSET Vars
    /\ {} \in SUBSET Vars
  BY TableVars

\* The fault type: it asks for logs at most.
LEMMA FaultTypeOutcome ==
    ASSUME NEW c \in Context, NEW b \in Boards, NEW o \in Resolve("FAULT_TYPE", c, b)
    PROVE  Later(o, c, b)
  <1>1. o \in OrElse(NeedLogs(c, b), c, b, ResolveFaultType(c, b)) \/ o = Raise(c, b)
    BY CallOutcome DEF Resolve
  <1>2. CASE o = Raise(c, b)
    BY <1>2, QuietRaise
  <1>3. CASE o \in Ask("get_logs", c, b)
    <2>1. o \in Outcomes /\ o.act = "get_logs" /\ o.ctx = c /\ o.board = b
      BY <1>3, AskOutcome DEF Actions, Fetches
    <2>2. QED
      BY <2>1, QuietOutcome
  <1>4. CASE o \in ResolveFaultType(c, b)
    <2>1. o \in Nothing(c, b) \/ o \in Commit(c, b, {"FAULT_TYPE", "FAULT_LAYER"}, c.last.from)
      BY <1>4 DEF ResolveFaultType
    <2>2. QED
      BY <2>1, QuietNothing, QuietCommit, LastText, SetsOfVars
  <1>5. QED
    BY <1>1, <1>2, <1>3, <1>4 DEF OrElse, NeedLogs

\* The fault layer: it asks for nothing.
LEMMA FaultLayerOutcome ==
    ASSUME NEW c \in Context, NEW b \in Boards, NEW o \in Resolve("FAULT_LAYER", c, b)
    PROVE  Later(o, c, b)
  <1>1. \/ o = Raise(c, b) \/ o \in Nothing(c, b)
        \/ o \in Commit(c, b, {"FAULT_LAYER"}, c.last.from)
    BY CallOutcome DEF Resolve, ResolveFaultLayer
  <1>2. QED
    BY <1>1, QuietRaise, QuietNothing, QuietCommit, LastText, SetsOfVars

\* The mitigation plan: it asks for nothing.
LEMMA PlanOutcome ==
    ASSUME NEW c \in Context, NEW b \in Boards, NEW o \in Resolve("MITIGATION_ACTION", c, b)
    PROVE  Later(o, c, b)
  <1>1. o \in Commit(c, b, {"MITIGATION_ACTION"}, None)
    BY DEF Resolve, ResolveMitigationPlan
  <1>2. QED
    BY <1>1, QuietCommit, SetsOfVars

\* The execution of the plan: it asks for a command at most.
LEMMA ExecutionOutcome ==
    ASSUME NEW c \in Context, NEW b \in Boards, NEW o \in Resolve("MITIGATION_EXECUTED", c, b)
    PROVE  Later(o, c, b)
  <1>1. \/ o = Raise(c, b) \/ o \in Nothing(c, b) \/ o \in Commit(c, b, {}, None)
        \/ o \in GuardLayer2(c, b)
    BY CallOutcome DEF Resolve, NeedExecution
  <1>2. CASE o \in GuardLayer2(c, b)
    <2>1. \E act \in {"exec_shell", None}, judgement \in Verdicts : o = Judged(act, c, b, judgement)
      BY <1>2 DEF GuardLayer2, Verdicts
    <2>2. o \in Outcomes /\ o.act \in {"exec_shell", None} /\ o.ctx = c /\ o.board = b
      BY <2>1 DEF Judged, Outcome, Outcomes, Actions, Fetches, Verdicts
    <2>3. QED
      BY <2>2, QuietOutcome DEF None
  <1>3. QED
    BY <1>1, <1>2, QuietRaise, QuietNothing, QuietCommit, SetsOfVars

\* The second metrics cycle begins by forgetting the first.
LEMMA HealthForgets ==
    ASSUME NEW c \in Context
    PROVE  Forgets(c, HealthContext(c))
  BY DEF HealthContext, Forgets, Context

\* The last resolver, without a health text: it reads metrics again, or verifies.
LEMMA TnrOutcome ==
    ASSUME NEW c \in Context, NEW b \in Boards, NEW o \in Resolve("TNR_VERIFIED", c, b),
           ~c.health_csv
    PROVE  Later(o, c, b)
  <1> DEFINE d == HealthContext(c)
  <1>1. d \in Context /\ Forgets(c, d) /\ ~d.health_csv
    BY HealthForgets DEF Forgets
  <1>2. o \in OrElse(NeedHealthCheck(c), d, b, ResolveTnr(d, b)) /\ NeedHealthCheck(c) = NeedMetrics(d)
    BY DEF Resolve, NeedHealthCheck
  <1>3. CASE o \in Ask(NeedMetrics(d), d, b) /\ NeedMetrics(d) # None
    <2>1. NeedMetrics(d) \in {"get_metrics", "read_metrics"} /\ ~d.metrics_consumed
      BY <1>1, <1>3 DEF NeedMetrics, Context
    <2>2. o \in Outcomes /\ o.act = NeedMetrics(d) /\ o.ctx = d /\ o.board = b
      BY <1>1, <1>3, <2>1, AskOutcome DEF Actions, Fetches
    <2>3. QED
      BY <1>1, <2>1, <2>2 DEF Later, NoUndo
  <1>4. CASE o \in Commit(d, b, {"TNR_VERIFIED"}, None)
    <2>1. Commits(o, d, b, {"TNR_VERIFIED"})
      BY <1>1, <1>4, CommitOutcome, SetsOfVars
    <2>2. QED
      BY <1>1, <2>1 DEF Commits, Later, NoUndo, None
  <1>5. QED
    BY <1>1, <1>2, <1>3, <1>4 DEF OrElse, ResolveTnr

-------------------------------------------------------------------------------
\* The types, with what keeps a rollback from being asked for: metrics are read only where
\* the flag is down by which their answer would become the health text, and without that
\* text nothing is undone.  The scan looks at rows that are still there.
TypeInv ==
    /\ TypeOK
    /\ RollbackNeverAsked
    /\ ~ctx.health_csv
    /\ ctx.pending = "read_metrics" => ~ctx.metrics_consumed
    /\ pc = "scan" => unresolved \subseteq board.missing

\* The row the scan looks at.
AtRow(i) == pc = "scan" /\ i \in Ahead /\ \A j \in Ahead : i <= j

\* The row the scan is at is open, on the board too.
LEMMA RowOfScan ==
    ASSUME TypeInv, NEW i, AtRow(i)
    PROVE  /\ i \in 1..7 /\ i >= cursor
           /\ Table[i] \in unresolved /\ Table[i] \in board.missing /\ Table[i] \in Vars
  BY TableVars DEF AtRow, Ahead, TypeInv, TypeOK

\* What a step of the scan leaves, whichever row it is at.
LEMMA ScanOutcome ==
    ASSUME TypeInv, NEW i, AtRow(i), NEW o \in Resolve(Table[i], ctx, board)
    PROVE  /\ o \in Outcomes /\ Forgets(ctx, o.ctx) /\ NoUndo(o)
           /\ i > 2 => Later(o, ctx, board)
  <1>1. i \in 1..7 /\ ctx \in Context /\ board \in Boards /\ ~ctx.health_csv
    BY RowOfScan DEF TypeInv, TypeOK
  <1>2. Forgets(ctx, ctx)
    BY <1>1 DEF Forgets
  <1>3. CASE i = 1
    <2>1. o \in Resolve("ANOMALY_CONFIRMED", ctx, board)
      BY <1>3, TableVars
    <2>2. o \in Outcomes /\ o.ctx = ctx /\ NoUndo(o)
      BY <1>1, <2>1, AnomalyOutcome DEF Gathers, Reaches, NoUndo, None
    <2>3. QED
      BY <1>2, <1>3, <2>2
  <1>4. CASE i = 2
    <2>1. o \in Resolve("ROOT_CAUSE_SERVICE", ctx, board)
      BY <1>4, TableVars
    <2>2. o \in Outcomes /\ o.ctx = ctx /\ NoUndo(o)
      BY <1>1, <2>1, LocalizationOutcome DEF Gathers, Reaches, NoUndo, None
    <2>3. QED
      BY <1>2, <1>4, <2>2
  <1>5. CASE i > 2
    <2>1. Later(o, ctx, board)
      BY <1>1, <1>5, TableVars, FaultTypeOutcome, FaultLayerOutcome, PlanOutcome,
         ExecutionOutcome, TnrOutcome
    <2>2. QED
      BY <2>1 DEF Later
  <1>6. QED
    BY <1>1, <1>3, <1>4, <1>5

\* Every task requires the detection, and all but detection the localization.
LEMMA RequiredVars ==
    ASSUME NEW t \in Tasks
    PROVE  /\ Required(t) \subseteq Vars
           /\ "ANOMALY_CONFIRMED" \in Required(t)
           /\ t # "detection" => "ROOT_CAUSE_SERVICE" \in Required(t)
           /\ \A i \in 2..7 : Table[i] \in Required("detection") => FALSE
  <1>1. Tasks = {"detection", "localization", "analysis", "mitigation"}
    BY DEF Tasks, TableLength
  <1>2. /\ TableLength["detection"] = 1 /\ TableLength["localization"] = 2
        /\ TableLength["analysis"] = 4 /\ TableLength["mitigation"] = 7
    BY DEF TableLength
  <1>3. TableLength[t] \in 1..7 /\ (t # "detection" => TableLength[t] \in 2..7)
    BY <1>1, <1>2
  <1>4. Required("detection") = {"ANOMALY_CONFIRMED"}
    BY <1>2, TableVars DEF Required
  <1>5. \A i \in 2..7 : Table[i] # "ANOMALY_CONFIRMED"
    BY TableVars
  <1>6. Required(t) \subseteq Vars
    BY <1>3, TableVars DEF Required
  <1>7. "ANOMALY_CONFIRMED" \in Required(t)
    BY <1>3, TableVars DEF Required
  <1>8. t # "detection" => "ROOT_CAUSE_SERVICE" \in Required(t)
    BY <1>3, TableVars DEF Required
  <1>9. QED
    BY <1>4, <1>5, <1>6, <1>7, <1>8

\* An episode starts well typed.
LEMMA InitType == Init => TypeInv
  <1> SUFFICES ASSUME Init PROVE TypeInv
    OBVIOUS
  <1> USE DEF Init
  <1>1. task \in TaskTypes /\ task \in Tasks /\ faults \in FaultSets
    BY RouterAssumption
  <1>2. board \in Boards
    BY <1>1, RequiredVars DEF Boards
  <1>3. /\ ctx \in Context /\ RollbackNeverAsked /\ ~ctx.health_csv
        /\ ctx.pending # "read_metrics"
    BY DEF InitContext, Context, Text, NoText, RollbackNeverAsked, None
  <1>4. iter \in 1..MaxInternalIters
    BY RouterAssumption
  <1>5. cursor \in 1..(Len(Table) + 1)
    BY TableVars
  <1>6. basis \in [Vars -> Actions \cup {None}] /\ verdict \in Verdicts
    BY DEF Verdicts
  <1>7. submission \in Submissions
    BY DEF NoSubmission, Submissions
  <1>8. QED
    BY <1>1, <1>2, <1>3, <1>4, <1>5, <1>6, <1>7 DEF TypeInv, TypeOK

\* What a read of the board may give.
LEMMA ReadsAreMissing ==
    ASSUME NEW b, NEW u \in Reads(b)
    PROVE  /\ u \subseteq Required(task) /\ u \subseteq b.missing
           /\ "read" \notin faults => u = Required(task) \cap b.missing
  BY DEF Reads

\* What the response to an action may add to the context.
LEMMA RoutedType ==
    ASSUME ctx \in Context, NEW marked \in BOOLEAN
    PROVE  /\ Routed(ctx, marked) \in Context
           /\ Routed(ctx, marked).rollback_count = ctx.rollback_count
           /\ Routed(ctx, marked).pending = None
           /\ ctx.pending # "read_metrics" /\ Routed(ctx, marked).metrics_consumed
                  => ctx.metrics_consumed
           /\ ctx.pending # "read_metrics" /\ Routed(ctx, marked).health_csv => ctx.health_csv
           /\ ~ctx.metrics_consumed /\ Routed(ctx, marked).health_csv => ctx.health_csv
           /\ ctx.pending # "read_traces" /\ Routed(ctx, marked).traces_consumed
                  => ctx.traces_consumed
  <1> DEFINE seen == [ctx EXCEPT !.last = [from |-> ctx.pending, marked |-> marked],
                                 !.pending = None]
  <1>1. [from |-> ctx.pending, marked |-> marked] \in Text
    BY DEF Text, Context
  <1>2. /\ seen \in Context /\ seen.rollback_count = ctx.rollback_count /\ seen.pending = None
        /\ seen.metrics_consumed = ctx.metrics_consumed /\ seen.health_csv = ctx.health_csv
        /\ seen.traces_consumed = ctx.traces_consumed
    BY <1>1 DEF Context
  <1>3. CASE ctx.pending = "get_metrics"
    BY <1>2, <1>3 DEF Routed, Context
  <1>4. CASE ctx.pending = "read_metrics"
    BY <1>2, <1>4 DEF Routed, Context
  <1>5. CASE ctx.pending = "get_traces"
    BY <1>2, <1>5 DEF Routed, Context
  <1>6. CASE ctx.pending = "read_traces"
    BY <1>2, <1>6 DEF Routed, Context
  <1>7. CASE ctx.pending \notin {"get_metrics", "read_metrics", "get_traces", "read_traces"}
    <2>1. Routed(ctx, marked) = seen
      BY <1>7 DEF Routed
    <2>2. QED
      BY <1>2, <2>1
  <1>8. QED
    BY <1>3, <1>4, <1>5, <1>6, <1>7

\* The types of what an outcome of a row is put into.
LEMMA ScanKeepsType ==
    ASSUME TypeInv, NEW i, AtRow(i),
           ResolverActs(i) \/ ResolverReturnsNone(i) \/ ResolverRaises(i)
    PROVE  TypeInv'
  <1> USE DEF TypeInv, TypeOK
  <1>1. i \in 1..7 /\ Table[i] \in Vars /\ i >= cursor
    BY RowOfScan
  <1>2. UNCHANGED <<faults, task, iter, submission, answered>>
    BY DEF ResolverActs, ResolverReturnsNone, ResolverRaises, scan
  <1>3. CASE ResolverActs(i)
    <2>1. PICK o \in Resolve(Table[i], ctx, board) :
              o.act # None /\ Apply(o) /\ ctx' = [o.ctx EXCEPT !.pending = o.act]
      BY <1>3 DEF ResolverActs
    <2>2. o \in Outcomes /\ Forgets(ctx, o.ctx) /\ NoUndo(o)
      BY ScanOutcome
    <2>3. board' = o.board /\ verdict' \in Verdicts
      BY <2>1, <2>2 DEF Apply, Outcomes
    <2>4. /\ ctx' \in Context /\ ctx'.pending = o.act
          /\ ctx'.rollback_count = ctx.rollback_count
          /\ ctx'.health_csv = o.ctx.health_csv /\ ctx'.metrics_consumed = o.ctx.metrics_consumed
      BY <2>1, <2>2 DEF Outcomes, Context, Forgets
    <2>5. /\ RollbackNeverAsked' /\ ~ctx'.health_csv
          /\ ctx'.pending = "read_metrics" => ~ctx'.metrics_consumed
      BY <2>2, <2>4 DEF RollbackNeverAsked, Forgets, NoUndo
    <2>6. pc' = "env" /\ UNCHANGED <<unresolved, cursor, basis>>
      BY <1>3 DEF ResolverActs, scan
    <2>7. QED
      BY <1>2, <2>2, <2>3, <2>4, <2>5, <2>6 DEF Outcomes
  <1>4. CASE ResolverReturnsNone(i)
    <2>1. PICK o \in Resolve(Table[i], ctx, board) :
              /\ ~o.raised /\ Apply(o) /\ ctx' = o.ctx
              /\ basis' = IF o.used = None THEN basis ELSE [basis EXCEPT ![Table[i]] = o.used]
              /\ unresolved' \in Reads(o.board)
      BY <1>4 DEF ResolverReturnsNone
    <2>2. o \in Outcomes /\ Forgets(ctx, o.ctx)
      BY ScanOutcome
    <2>3. board' = o.board /\ verdict' \in Verdicts
      BY <2>1, <2>2 DEF Apply, Outcomes
    <2>4. basis' \in [Vars -> Actions \cup {None}]
      BY <1>1, <2>1, <2>2 DEF Outcomes
    <2>5. unresolved' \subseteq Required(task) /\ unresolved' \subseteq o.board.missing
      BY <2>1, ReadsAreMissing
    <2>6. cursor' \in 1..(Len(Table) + 1) /\ pc' = pc
      BY <1>1, <1>4, TableVars DEF ResolverReturnsNone
    <2>7. RollbackNeverAsked' /\ ~ctx'.health_csv
          /\ (ctx'.pending = "read_metrics" => ~ctx'.metrics_consumed)
      BY <2>1, <2>2 DEF RollbackNeverAsked, Forgets
    <2>8. QED
      BY <1>2, <2>1, <2>2, <2>3, <2>4, <2>5, <2>6, <2>7 DEF Outcomes
  <1>5. CASE ResolverRaises(i)
    <2>1. PICK o \in Resolve(Table[i], ctx, board) : o.raised /\ Apply(o) /\ ctx' = o.ctx
      BY <1>5 DEF ResolverRaises
    <2>2. o \in Outcomes /\ Forgets(ctx, o.ctx)
      BY ScanOutcome
    <2>3. board' = o.board /\ verdict' \in Verdicts
      BY <2>1, <2>2 DEF Apply, Outcomes
    <2>4. pc' = "raised" /\ UNCHANGED <<unresolved, cursor, basis>>
      BY <1>5 DEF ResolverRaises, scan
    <2>5. RollbackNeverAsked' /\ ~ctx'.health_csv
          /\ (ctx'.pending = "read_metrics" => ~ctx'.metrics_consumed)
      BY <2>1, <2>2 DEF RollbackNeverAsked, Forgets
    <2>6. QED
      BY <1>2, <2>1, <2>2, <2>3, <2>4, <2>5 DEF Outcomes
  <1>6. QED
    BY <1>3, <1>4, <1>5

\* Every step keeps the types.
LEMMA TypeKept == TypeInv /\ [Next]_vars => TypeInv'
  <1> SUFFICES ASSUME TypeInv, [Next]_vars PROVE TypeInv'
    OBVIOUS
  <1>1. ASSUME NEW marked \in BOOLEAN, Observe(marked) PROVE TypeInv'
    <2>1. ctx' \in Context /\ ctx'.pending = None /\ RollbackNeverAsked' /\ ~ctx'.health_csv
      BY <1>1, RoutedType DEF Observe, TypeInv, TypeOK, RollbackNeverAsked, None
    <2>2. answered' \subseteq Actions
      BY <1>1 DEF Observe, TypeInv, TypeOK, Context
    <2>3. QED
      BY <1>1, <2>1, <2>2, RouterAssumption DEF Observe, Start, TypeInv, TypeOK, None
  <1>2. CASE ObserveNothing
    BY <1>2, RouterAssumption DEF ObserveNothing, Start, TypeInv, TypeOK, RollbackNeverAsked
  <1>3. CASE Plan
    <2>1. unresolved' \subseteq Required(task) /\ unresolved' \subseteq board.missing
      BY <1>3, ReadsAreMissing DEF Plan
    <2>2. QED
      BY <1>3, <2>1, TableVars DEF Plan, history, TypeInv, TypeOK, RollbackNeverAsked
  <1>4. CASE ScanStep
    BY <1>4, ScanKeepsType DEF ScanStep, AtRow
  <1>5. CASE ScanEnds \/ TryAgain
    BY <1>5, RouterAssumption DEF ScanEnds, TryAgain, scan, history, TypeInv, TypeOK, RollbackNeverAsked
  <1>6. CASE pc = "decide" /\ (SubmitRaises \/ Submit(TRUE) \/ Submit(FALSE))
    <2>1. Answer \in {"Yes", "No", "given"}
      BY DEF Answer
    <2>2. submission' = submission \/ \E e \in BOOLEAN :
              submission' = [best_effort |-> e, answer |-> Answer]
      BY <1>6 DEF SubmitRaises, Submit
    <2>3. submission' \in Submissions
      BY <2>1, <2>2 DEF Submissions, TypeInv, TypeOK
    <2>4. QED
      BY <1>6, <2>3 DEF SubmitRaises, Submit, scan, history, TypeInv, TypeOK, RollbackNeverAsked
  <1>7. CASE Over \/ UNCHANGED vars
    BY <1>7 DEF Over, vars, scan, history, TypeInv, TypeOK, RollbackNeverAsked
  <1>8. QED
    BY <1>1, <1>2, <1>3, <1>4, <1>5, <1>6, <1>7
       DEF Next, Agent, Responds, SubmitResolved, SubmitBestEffort

\* The state of an episode has its type, whatever fails: no count and no place in the table
\* leaves its range.
THEOREM RouterType == Spec => []TypeOK
  <1>1. TypeInv => TypeOK
    BY DEF TypeInv
  <1>2. QED
    BY <1>1, InitType, TypeKept, PTL DEF Spec

\* Whatever fails and whatever the small model touches: no episode asks for a rollback, nor
\* counts one.
THEOREM RollbackNeverHappens == Spec => []RollbackNeverAsked
  <1>1. TypeInv => RollbackNeverAsked
    BY DEF TypeInv
  <1>2. QED
    BY <1>1, InitType, TypeKept, PTL DEF Spec
-------------------------------------------------------------------------------
\* The order of the evidence.  What the context holds was answered; and, as long as reads
\* do not fail, a row that is gone, a place in the table that is behind the scan and the
\* end of the scan each mean that the telemetry of that row was read.
Metrics == "read_metrics" \in answered
Traces == task # "detection" => "read_traces" \in answered

Grounded(c, missing) ==
    /\ c.metrics_consumed \/ c.health_csv => Metrics
    /\ c.traces_consumed => "read_traces" \in answered
    /\ "read" \notin faults /\ "ANOMALY_CONFIRMED" \notin missing => Metrics
    /\ "read" \notin faults /\ "ROOT_CAUSE_SERVICE" \notin missing => Traces

OrderInv ==
    /\ Grounded(ctx, board.missing)
    /\ FetchOrder
    /\ "read" \notin faults =>
           /\ pc = "scan" => unresolved = Required(task) \cap board.missing
           /\ pc = "scan" /\ cursor > 1 => Metrics
           /\ pc = "scan" /\ cursor > 2 => Traces
           /\ pc \in {"decide", "submitted"} => Metrics /\ Traces

\* A scan at a row has the telemetry of the rows before it.
LEMMA RowsBefore ==
    ASSUME TypeInv, OrderInv, "read" \notin faults, pc = "scan", NEW i \in 1..8,
           \A j \in Ahead : i <= j
    PROVE  /\ i > 1 => Metrics
           /\ i > 2 => Traces
  <1>1. task \in Tasks /\ cursor \in 1..8
    BY RouterAssumption, TableVars DEF TypeInv, TypeOK
  <1>2. unresolved = Required(task) \cap board.missing
    BY DEF OrderInv
  <1>3. "ANOMALY_CONFIRMED" \in Required(task)
        /\ (task # "detection" => "ROOT_CAUSE_SERVICE" \in Required(task))
    BY <1>1, RequiredVars
  <1>4. ASSUME i > 1 PROVE Metrics
    <2>1. CASE cursor > 1
      BY <2>1 DEF OrderInv
    <2>2. CASE cursor = 1
      <3>1. 1 \notin Ahead
        BY <1>4
      <3>2. "ANOMALY_CONFIRMED" \notin board.missing
        BY <1>2, <1>3, <2>2, <3>1, TableVars DEF Ahead
      <3>3. QED
        BY <3>2 DEF OrderInv, Grounded
    <2>3. QED
      BY <1>1, <2>1, <2>2
  <1>5. ASSUME i > 2, task # "detection" PROVE Traces
    <2>1. CASE cursor > 2
      BY <2>1 DEF OrderInv
    <2>2. CASE cursor \in 1..2
      <3>1. 2 \notin Ahead
        BY <1>5
      <3>2. "ROOT_CAUSE_SERVICE" \notin board.missing
        BY <1>2, <1>3, <1>5, <2>2, <3>1, TableVars DEF Ahead
      <3>3. QED
        BY <3>2 DEF OrderInv, Grounded
    <2>3. QED
      BY <1>1, <2>1, <2>2
  <1>6. QED
    BY <1>4, <1>5 DEF Traces

\* What the outcome of a row leaves, and asks for.
Follows(i, o) ==
    /\ Grounded(o.ctx, o.board.missing)
    /\ o.ctx.pending = ctx.pending
    /\ "read" \notin faults =>
           /\ o.act \in {"get_traces", "read_traces"} => Metrics
           /\ o.act = "get_logs" => "read_traces" \in answered
           /\ o.act = None => Metrics /\ (i > 1 => Traces)

\* Evidence survives a step that adds no knowledge and closes no row without it.
LEMMA ForgetsGrounded ==
    ASSUME NEW c, NEW d, NEW missing, NEW fewer, Grounded(c, missing), Forgets(c, d),
           "read" \notin faults => (/\ "ANOMALY_CONFIRMED" \in missing \ fewer => Metrics
                                    /\ "ROOT_CAUSE_SERVICE" \in missing \ fewer => Traces)
    PROVE  Grounded(d, fewer)
  BY DEF Grounded, Forgets

\* The first row keeps the order of the evidence ...
LEMMA AnomalyFollows ==
    ASSUME "ROOT_CAUSE_SERVICE" \notin Stray, TypeInv, OrderInv, AtRow(1),
           NEW o \in Resolve("ANOMALY_CONFIRMED", ctx, board)
    PROVE  Follows(1, o)
  <1>1. ctx \in Context /\ board \in Boards /\ Grounded(ctx, board.missing)
    BY DEF TypeInv, TypeOK, OrderInv
  <1>2. Forgets(ctx, ctx)
    BY <1>1 DEF Forgets
  <1>3. CASE Gathers(o, ctx, board, {"get_metrics", "read_metrics"})
    BY <1>1, <1>3 DEF Gathers, Follows, None
  <1>4. CASE /\ ctx.metrics_consumed
             /\ Reaches(o, ctx, board, {"ANOMALY_CONFIRMED"} \cup Stray,
                        {"ANOMALY_CONFIRMED"} \cup Stray)
    <2>1. Metrics
      BY <1>1, <1>4 DEF Grounded
    <2>2. "ROOT_CAUSE_SERVICE" \notin board.missing \ o.board.missing
      BY <1>4 DEF Reaches
    <2>3. Grounded(o.ctx, o.board.missing)
      BY <1>1, <1>2, <1>4, <2>1, <2>2, ForgetsGrounded DEF Reaches
    <2>4. QED
      BY <1>4, <2>1, <2>3 DEF Follows, Reaches, None
  <1>5. QED
    BY <1>1, <1>3, <1>4, AnomalyOutcome

\* ... the second one too ...
LEMMA LocalizationFollows ==
    ASSUME TypeInv, OrderInv, AtRow(2),
           NEW o \in Resolve("ROOT_CAUSE_SERVICE", ctx, board)
    PROVE  Follows(2, o)
  <1>1. ctx \in Context /\ board \in Boards /\ Grounded(ctx, board.missing)
    BY DEF TypeInv, TypeOK, OrderInv
  <1>2. Forgets(ctx, ctx)
    BY <1>1 DEF Forgets
  <1>3. "read" \notin faults => Metrics
    BY RowsBefore DEF AtRow
  <1>4. CASE Gathers(o, ctx, board, {"get_traces", "read_traces"})
    BY <1>1, <1>3, <1>4 DEF Gathers, Follows, None
  <1>5. CASE /\ ctx.traces_consumed
             /\ Reaches(o, ctx, board, {"ROOT_CAUSE_SERVICE"} \cup Stray,
                        {"ROOT_CAUSE_SERVICE"} \cup Stray)
    <2>1. Traces
      BY <1>1, <1>5 DEF Grounded, Traces
    <2>2. Grounded(o.ctx, o.board.missing)
      BY <1>1, <1>2, <1>3, <1>5, <2>1, ForgetsGrounded DEF Reaches
    <2>3. QED
      BY <1>3, <1>5, <2>1, <2>2 DEF Follows, Reaches, None
  <1>6. QED
    BY <1>1, <1>4, <1>5, LocalizationOutcome

\* ... and a row behind it, which neither asks for traces nor is looked at before they
\* were read.
LEMMA LaterFollows ==
    ASSUME TypeInv, OrderInv, NEW i, AtRow(i), i > 2,
           NEW o \in Resolve(Table[i], ctx, board)
    PROVE  Follows(i, o)
  <1>1. Later(o, ctx, board)
    BY ScanOutcome
  <1>2. i \in 3..7 /\ Table[i] \in Required(task)
    BY RowOfScan DEF AtRow, Ahead, TypeInv, TypeOK
  <1>3. task # "detection"
    BY <1>2, RequiredVars, RouterAssumption DEF Tasks, TableLength, TypeInv, TypeOK
  <1>4. "read" \notin faults => Metrics /\ Traces
    BY <1>2, RowsBefore DEF AtRow
  <1>5. Grounded(ctx, board.missing) /\ Forgets(ctx, o.ctx)
    BY <1>1 DEF Later, OrderInv
  <1>6. Grounded(o.ctx, o.board.missing)
    BY <1>4, <1>5, ForgetsGrounded
  <1>7. QED
    BY <1>1, <1>3, <1>4, <1>6 DEF Follows, Later, Forgets, Traces

\* Every row keeps the order of the evidence.
LEMMA ScanFollows ==
    ASSUME "ROOT_CAUSE_SERVICE" \notin Stray, TypeInv, OrderInv, NEW i, AtRow(i),
           NEW o \in Resolve(Table[i], ctx, board)
    PROVE  Follows(i, o)
  <1>1. i \in 1..7
    BY RowOfScan
  <1>2. CASE i = 1
    BY <1>2, AnomalyFollows, TableVars
  <1>3. CASE i = 2
    BY <1>3, LocalizationFollows, TableVars
  <1>4. CASE i > 2
    BY <1>4, LaterFollows
  <1>5. QED
    BY <1>1, <1>2, <1>3, <1>4

\* An episode starts with nothing known and every row open.
LEMMA InitOrder == Init => OrderInv
  <1> SUFFICES ASSUME Init PROVE OrderInv
    OBVIOUS
  <1>1. task \in Tasks /\ board.missing = Required(task)
    BY RouterAssumption DEF Init
  <1>2. ctx.pending = "none" /\ ~ctx.metrics_consumed /\ ~ctx.health_csv /\ ~ctx.traces_consumed
    BY DEF Init, InitContext, None
  <1>3. "ANOMALY_CONFIRMED" \in board.missing
        /\ ("ROOT_CAUSE_SERVICE" \notin board.missing => Traces)
    BY <1>1, RequiredVars DEF Traces
  <1>4. Grounded(ctx, board.missing)
    BY <1>2, <1>3 DEF Grounded
  <1>5. QED
    BY <1>2, <1>4 DEF Init, OrderInv, FetchOrder

\* A step of the scan keeps the order of the evidence.
LEMMA ScanKeepsOrder ==
    ASSUME "ROOT_CAUSE_SERVICE" \notin Stray, TypeInv, OrderInv, NEW i, AtRow(i),
           ResolverActs(i) \/ ResolverReturnsNone(i) \/ ResolverRaises(i)
    PROVE  OrderInv'
  <1>1. i \in 1..7
    BY RowOfScan
  <1>2. /\ answered' = answered /\ faults' = faults /\ task' = task
        /\ Metrics' = Metrics /\ Traces' = Traces
    BY DEF ResolverActs, ResolverReturnsNone, ResolverRaises, scan, Metrics, Traces
  <1>3. CASE ResolverActs(i)
    <2>1. PICK o \in Resolve(Table[i], ctx, board) :
              o.act # None /\ Apply(o) /\ ctx' = [o.ctx EXCEPT !.pending = o.act]
      BY <1>3 DEF ResolverActs
    <2>2. Follows(i, o) /\ o \in Outcomes
      BY ScanFollows, ScanOutcome
    <2>3. /\ ctx'.pending = o.act
          /\ ctx'.metrics_consumed = o.ctx.metrics_consumed
          /\ ctx'.health_csv = o.ctx.health_csv
          /\ ctx'.traces_consumed = o.ctx.traces_consumed
      BY <2>1, <2>2 DEF Outcomes, Context
    <2>4. Grounded(ctx, board.missing)'
      BY <1>2, <2>1, <2>2, <2>3 DEF Follows, Grounded, Apply
    <2>5. FetchOrder'
      BY <1>2, <2>2, <2>3 DEF FetchOrder, Follows, Metrics
    <2>6. pc' = "env"
      BY <1>3 DEF ResolverActs
    <2>7. QED
      BY <2>4, <2>5, <2>6 DEF OrderInv
  <1>4. CASE ResolverReturnsNone(i)
    <2>1. PICK o \in Resolve(Table[i], ctx, board) :
              /\ o.act = None /\ Apply(o) /\ ctx' = o.ctx /\ unresolved' \in Reads(o.board)
      BY <1>4 DEF ResolverReturnsNone
    <2>2. Follows(i, o)
      BY ScanFollows
    <2>3. Grounded(ctx, board.missing)'
      BY <1>2, <2>1, <2>2 DEF Follows, Grounded, Apply
    <2>4. FetchOrder'
      BY <1>2, <2>1, <2>2 DEF FetchOrder, Follows, OrderInv
    <2>5. "read" \notin faults => unresolved' = Required(task') \cap board'.missing
      BY <1>2, <2>1, ReadsAreMissing DEF Apply
    <2>6. pc' = "scan" /\ cursor' = i + 1
      BY <1>4 DEF ResolverReturnsNone, AtRow
    <2>7. "read" \notin faults => Metrics' /\ (cursor' > 2 => Traces')
      BY <1>1, <1>2, <2>1, <2>2, <2>6 DEF Follows
    <2>8. QED
      BY <1>2, <2>3, <2>4, <2>5, <2>6, <2>7 DEF OrderInv
  <1>5. CASE ResolverRaises(i)
    <2>1. PICK o \in Resolve(Table[i], ctx, board) : Apply(o) /\ ctx' = o.ctx
      BY <1>5 DEF ResolverRaises
    <2>2. Follows(i, o)
      BY ScanFollows
    <2>3. Grounded(ctx, board.missing)'
      BY <1>2, <2>1, <2>2 DEF Follows, Grounded, Apply
    <2>4. FetchOrder'
      BY <1>2, <2>1, <2>2 DEF FetchOrder, Follows, OrderInv
    <2>5. pc' = "raised"
      BY <1>5 DEF ResolverRaises
    <2>6. QED
      BY <2>3, <2>4, <2>5 DEF OrderInv
  <1>6. QED
    BY <1>3, <1>4, <1>5

\* A response keeps it: what the context learns from it was answered.
LEMMA ObserveKeepsOrder ==
    ASSUME TypeInv, OrderInv, NEW marked \in BOOLEAN, Observe(marked)
    PROVE  OrderInv'
  <1>1. /\ ctx' = Routed(ctx, marked) /\ answered' = answered \cup {ctx.pending}
        /\ faults' = faults /\ task' = task /\ board' = board /\ pc' = "read"
    BY DEF Observe, Start
  <1>2. /\ ctx'.pending = None
        /\ ctx.pending # "read_metrics" /\ ctx'.metrics_consumed => ctx.metrics_consumed
        /\ ctx.pending # "read_metrics" /\ ctx'.health_csv => ctx.health_csv
        /\ ctx.pending # "read_traces" /\ ctx'.traces_consumed => ctx.traces_consumed
    BY <1>1, RoutedType DEF TypeInv, TypeOK
  <1>3. (Metrics => Metrics') /\ (Traces => Traces')
    BY <1>1 DEF Metrics, Traces
  <1>4. (ctx.pending = "read_metrics" => Metrics')
        /\ (ctx.pending = "read_traces" => "read_traces" \in answered')
        /\ ("read_traces" \in answered => "read_traces" \in answered')
    BY <1>1 DEF Metrics
  <1>5. Grounded(ctx, board.missing)'
    BY <1>1, <1>2, <1>3, <1>4 DEF Grounded, OrderInv
  <1>6. FetchOrder'
    BY <1>2 DEF FetchOrder, None
  <1>7. QED
    BY <1>1, <1>5, <1>6 DEF OrderInv

\* The scan has gone through the table: the telemetry of the task was read.
LEMMA EndOfScan ==
    ASSUME TypeInv, OrderInv, "read" \notin faults, ScanEnds
    PROVE  Metrics /\ Traces
  <1>1. pc = "scan" /\ Ahead = {} /\ 8 \in 1..8
    BY DEF ScanEnds
  <1>2. QED
    BY <1>1, RowsBefore

\* Every step keeps it.
LEMMA OrderKept ==
    ASSUME "ROOT_CAUSE_SERVICE" \notin Stray
    PROVE  TypeInv /\ OrderInv /\ [Next]_vars => OrderInv'
  <1> SUFFICES ASSUME TypeInv, OrderInv, [Next]_vars PROVE OrderInv'
    OBVIOUS
  <1>1. ASSUME NEW marked \in BOOLEAN, Observe(marked) PROVE OrderInv'
    BY <1>1, ObserveKeepsOrder
  <1>2. CASE ScanStep
    BY <1>2, ScanKeepsOrder DEF ScanStep, AtRow
  <1>3. ASSUME UNCHANGED <<ctx, board, answered, faults, task>>
        PROVE  /\ Grounded(ctx, board.missing)' /\ FetchOrder'
               /\ Metrics' = Metrics /\ Traces' = Traces /\ faults' = faults
    BY <1>3 DEF Grounded, OrderInv, FetchOrder, Metrics, Traces
  <1>4. CASE ObserveNothing \/ TryAgain
    <2>1. UNCHANGED <<ctx, board, answered, faults, task>> /\ pc' = "read"
      BY <1>4 DEF ObserveNothing, TryAgain, Start, history
    <2>2. QED
      BY <1>3, <2>1 DEF OrderInv
  <1>5. CASE Plan
    <2>1. UNCHANGED <<ctx, board, answered, faults, task>> /\ cursor' = 1
      BY <1>5 DEF Plan, history
    <2>2. "read" \notin faults => unresolved' = Required(task') \cap board'.missing
      BY <1>5, <2>1, ReadsAreMissing DEF Plan
    <2>3. pc' = "scan"
      BY <1>5 DEF Plan
    <2>4. QED
      BY <1>3, <2>1, <2>2, <2>3 DEF OrderInv
  <1>6. CASE ScanEnds
    <2>1. UNCHANGED <<ctx, board, answered, faults, task>> /\ pc' = "decide"
      BY <1>6 DEF ScanEnds, history
    <2>2. "read" \notin faults => Metrics /\ Traces
      BY <1>6, EndOfScan
    <2>3. QED
      BY <1>3, <2>1, <2>2 DEF OrderInv
  <1>7. CASE pc = "decide" /\ (SubmitRaises \/ Submit(TRUE) \/ Submit(FALSE))
    <2>1. UNCHANGED <<ctx, board, answered, faults, task>> /\ pc' \in {"raised", "submitted"}
      BY <1>7 DEF SubmitRaises, Submit, history
    <2>2. QED
      BY <1>3, <1>7, <2>1 DEF OrderInv
  <1>8. CASE Over \/ UNCHANGED vars
    BY <1>8 DEF Over, vars, scan, history, OrderInv, Grounded, FetchOrder, Metrics, Traces
  <1>9. QED
    BY <1>1, <1>2, <1>4, <1>5, <1>6, <1>7, <1>8
       DEF Next, Agent, Responds, SubmitResolved, SubmitBestEffort

\* As long as reads do not fail and the small model leaves the root cause to its phase, no
\* submission, earned or not, precedes the telemetry its answer is about.
THEOREM EvidenceComesFirst ==
    ASSUME "ROOT_CAUSE_SERVICE" \notin Stray
    PROVE  Spec => []EvidenceBeforeSubmit
  <1>1. OrderInv => EvidenceBeforeSubmit
    BY DEF OrderInv, EvidenceBeforeSubmit, Metrics, Traces
  <1>2. TypeInv /\ OrderInv /\ [Next]_vars => TypeInv' /\ OrderInv'
    BY TypeKept, OrderKept
  <1>3. QED
    BY <1>1, <1>2, InitType, InitOrder, PTL DEF Spec

\* Under the same hypothesis telemetry is fetched in dependency order, across every turn.
THEOREM FetchesInOrder ==
    ASSUME "ROOT_CAUSE_SERVICE" \notin Stray
    PROVE  Spec => []FetchOrder
  <1>1. OrderInv => FetchOrder
    BY DEF OrderInv
  <1>2. TypeInv /\ OrderInv /\ [Next]_vars => TypeInv' /\ OrderInv'
    BY TypeKept, OrderKept
  <1>3. QED
    BY <1>1, <1>2, InitType, InitOrder, PTL DEF Spec

-------------------------------------------------------------------------------
(***************************************************************************)
(* What the router computes from, and what it asks for again: on which     *)
(* text the detection and the localization run, which telemetry is fetched *)
(* twice, and what becomes of a command the guard rejected.                *)
(***************************************************************************)

\* The small model does what it is asked to.
Trusted == faults \cap {"slm", "reject"} = {}

\* A commit of the small model is computed from the last text; it leaves the board as it
\* was, or takes the rows away that go with its variable.
LEMMA SlmWrites ==
    ASSUME NEW c, NEW b \in Boards, NEW var, NEW extra, NEW o \in SlmCommit(c, b, var, extra)
    PROVE  /\ o.used \in {None, c.last.from}
           /\ \/ o.board = b
              \/ /\ o.board.missing \cap extra = {}
                 /\ o.board.facts \subseteq b.facts \cup {var} \cup Stray
           /\ Trusted /\ ~o.raised => var \notin o.board.missing
  <1> DEFINE reach == {var} \cup Stray
             denied == SUBSET ({var} \cap {"ANOMALY_CONFIRMED"})
             payloads == IF "slm" \in faults
                    THEN [seeded : SUBSET reach, resolved : SUBSET reach, facts : SUBSET reach,
                          negative : denied]
                    ELSE [seeded : {{}}, resolved : {{var}}, facts : {{var}}, negative : denied]
             written == {Write(Seed(b, p.seeded), p.resolved \cup extra,
                               p.facts, p.negative \cap p.facts) : p \in payloads}
                        \cup (IF "reject" \in faults THEN {b} ELSE {})
  <1>1. o \in {Outcome(None, c, w, c.last.from) : w \in written} \/ o = Raise(c, b)
    BY CallOutcome DEF SlmCommit
  <1>2. ASSUME NEW w \in written
        PROVE  /\ \/ w = b
                  \/ /\ w.missing \cap extra = {}
                     /\ w.facts \subseteq b.facts \cup {var} \cup Stray
               /\ Trusted => var \notin w.missing
    <2>1. CASE w = b /\ "reject" \in faults
      BY <2>1 DEF Trusted
    <2>2. CASE \E p \in payloads : w = Write(Seed(b, p.seeded), p.resolved \cup extra,
                                            p.facts, p.negative \cap p.facts)
      <3>1. PICK p \in payloads : w = Write(Seed(b, p.seeded), p.resolved \cup extra,
                                           p.facts, p.negative \cap p.facts)
        BY <2>2
      <3>2. p.facts \subseteq reach /\ ("slm" \notin faults => var \in p.resolved)
        BY <3>1
      <3>3. /\ w.missing = (b.missing \cup p.seeded) \ (p.resolved \cup extra)
            /\ w.facts = b.facts \cup p.facts
        BY <3>1 DEF Write, Seed, Boards
      <3>4. QED
        BY <3>2, <3>3 DEF Trusted
    <2>3. QED
      BY <2>1, <2>2
  <1>3. CASE o = Raise(c, b)
    BY <1>3 DEF Raise
  <1>4. CASE o \in {Outcome(None, c, w, c.last.from) : w \in written}
    <2>1. PICK w \in written : o = Outcome(None, c, w, c.last.from)
      BY <1>4
    <2>2. QED
      BY <2>1, <1>2 DEF Outcome
  <1>5. QED
    BY <1>1, <1>3, <1>4

\* A commit of the router is computed from what it is given, and states no fact.
LEMMA CommitWrites ==
    ASSUME NEW c, NEW b \in Boards, NEW resolved, NEW used, NEW o \in Commit(c, b, resolved, used)
    PROVE  /\ o.used \in {None, used}
           /\ o.board.facts = b.facts
           /\ ~o.raised => o.board.missing = b.missing \ resolved
  <1>1. o = Outcome(None, c, Write(b, resolved, {}, {}), used) \/ o = Raise(c, b)
    BY CallOutcome DEF Commit
  <1>2. QED
    BY <1>1 DEF Outcome, Raise, Write, Boards

\* The first row asks for the metrics that are not there; when they are it computes from
\* the last text, and a small model that can be trusted closes the row.
LEMMA AnomalyRow ==
    ASSUME NEW c \in Context, NEW b \in Boards, NEW o \in Resolve("ANOMALY_CONFIRMED", c, b)
    PROVE  \/ /\ ~c.metrics_consumed
              /\ Gathers(o, c, b, {IF c.metrics_dir THEN "read_metrics" ELSE "get_metrics"})
           \/ /\ c.metrics_consumed
              /\ o.act = None /\ o.ctx = c /\ o.used \in {None, c.last.from}
              /\ o.board.facts \subseteq b.facts \cup {"ANOMALY_CONFIRMED"} \cup Stray
              /\ Trusted /\ ~o.raised /\ c.last.from # None
                     => "ANOMALY_CONFIRMED" \notin o.board.missing
  <1>1. o \in OrElse(NeedMetrics(c), c, b, ResolveAnomaly(c, b))
    BY DEF Resolve
  <1>2. CASE ~c.metrics_consumed
    <2>1. NeedMetrics(c) = IF c.metrics_dir THEN "read_metrics" ELSE "get_metrics"
      BY <1>2 DEF NeedMetrics, Context
    <2>2. o = Outcome(NeedMetrics(c), c, b, None)
      BY <1>1, <2>1 DEF OrElse, Ask, None
    <2>3. QED
      BY <1>2, <2>1, <2>2 DEF Gathers, Outcome, Outcomes, Actions, Fetches, Verdicts, None
  <1>3. CASE c.metrics_consumed
    <2>1. o \in ResolveAnomaly(c, b)
      BY <1>1, <1>3 DEF OrElse, NeedMetrics
    <2>2. o.act = None /\ o.ctx = c
      BY <1>3, AnomalyOutcome DEF Reaches
    <2>3. CASE c.last = NoText /\ o \in Nothing(c, b)
      <3>1. o = Outcome(None, c, b, None) /\ c.last.from = None
        BY <2>3 DEF Nothing, NoText
      <3>2. QED
        BY <1>3, <3>1 DEF Outcome
    <2>4. CASE \E q \in Commit(c, b, {"ANOMALY_CONFIRMED"}, c.last.from) :
                  o = [q EXCEPT !.verdict = IF q.raised THEN None ELSE "no_anomaly"]
      <3>1. PICK q \in Commit(c, b, {"ANOMALY_CONFIRMED"}, c.last.from) :
                  o = [q EXCEPT !.verdict = IF q.raised THEN None ELSE "no_anomaly"]
        BY <2>4
      <3>2. q = Outcome(None, c, Write(b, {"ANOMALY_CONFIRMED"}, {}, {}), c.last.from)
            \/ q = Raise(c, b)
        BY CallOutcome DEF Commit
      <3>3. o.used = q.used /\ o.board = q.board /\ o.raised = q.raised
        BY <3>1, <3>2 DEF Outcome, Raise
      <3>4. /\ q.used \in {None, c.last.from} /\ q.board.facts = b.facts
            /\ ~q.raised => q.board.missing = b.missing \ {"ANOMALY_CONFIRMED"}
        BY CommitWrites
      <3>5. QED
        BY <1>3, <2>2, <3>3, <3>4
    <2>5. CASE o \in SlmCommit(c, b, "ANOMALY_CONFIRMED", {})
      BY <1>3, <2>2, <2>5, SlmWrites
    <2>6. QED
      BY <2>1, <2>3, <2>4, <2>5 DEF ResolveAnomaly
  <1>4. QED
    BY <1>2, <1>3 DEF Context

\* The second row asks for the traces that are not there; when they are it computes from
\* the last text, and closes itself, or leaves the board as it was.
LEMMA LocalizationRow ==
    ASSUME NEW c \in Context, NEW b \in Boards, NEW o \in Resolve("ROOT_CAUSE_SERVICE", c, b)
    PROVE  \/ /\ ~c.traces_consumed
              /\ Gathers(o, c, b, {IF c.traces_dir THEN "read_traces" ELSE "get_traces"})
           \/ /\ c.traces_consumed
              /\ o.act = None /\ o.ctx = c /\ o.used \in {None, c.last.from}
              /\ o.board = b \/ "ROOT_CAUSE_SERVICE" \notin o.board.missing
  <1>1. o \in OrElse(NeedTraces(c), c, b, ResolveLocalization(c, b))
    BY DEF Resolve
  <1>2. CASE ~c.traces_consumed
    <2>1. NeedTraces(c) = IF c.traces_dir THEN "read_traces" ELSE "get_traces"
      BY <1>2 DEF NeedTraces, Context
    <2>2. o = Outcome(NeedTraces(c), c, b, None)
      BY <1>1, <2>1 DEF OrElse, Ask, None
    <2>3. QED
      BY <1>2, <2>1, <2>2 DEF Gathers, Outcome, Outcomes, Actions, Fetches, Verdicts, None
  <1>3. CASE c.traces_consumed
    <2>1. o \in ResolveLocalization(c, b)
      BY <1>1, <1>3 DEF OrElse, NeedTraces
    <2>2. o.act = None /\ o.ctx = c
      BY <1>3, LocalizationOutcome DEF Reaches
    <2>3. CASE o \in Nothing(c, b)
      BY <1>3, <2>3 DEF Nothing, Outcome
    <2>4. CASE o \in SlmCommit(c, b, "ROOT_CAUSE_SERVICE", {"ROOT_CAUSE_SERVICE"})
      BY <1>3, <2>2, <2>4, SlmWrites
    <2>5. QED
      BY <2>1, <2>3, <2>4 DEF ResolveLocalization
  <1>4. QED
    BY <1>2, <1>3 DEF Context

\* A row that only ends the diagnosis states no fact, and asks for the logs of a service
\* that is known.
Concludes(o, c, b) ==
    /\ o.act \in {None, "get_logs"} /\ o.ctx = c /\ o.board.facts = b.facts
    /\ o.act = "get_logs" => "ROOT_CAUSE_SERVICE" \in b.facts

\* The fault type and the fault layer end the diagnosis.
LEMMA DiagnosisRow ==
    ASSUME NEW c \in Context, NEW b \in Boards, NEW var \in {"FAULT_TYPE", "FAULT_LAYER"},
           NEW o \in Resolve(var, c, b)
    PROVE  Concludes(o, c, b)
  <1> DEFINE typed == {"FAULT_TYPE", "FAULT_LAYER"}
  <1>1. \/ o = Raise(c, b) \/ o \in Nothing(c, b)
        \/ o \in Commit(c, b, typed, c.last.from)
        \/ o \in Commit(c, b, {"FAULT_LAYER"}, c.last.from)
        \/ o \in Ask("get_logs", c, b) /\ "ROOT_CAUSE_SERVICE" \in b.facts
    <2>1. CASE var = "FAULT_TYPE"
      <3>1. o \in OrElse(NeedLogs(c, b), c, b, ResolveFaultType(c, b)) \/ o = Raise(c, b)
        BY <2>1, CallOutcome DEF Resolve
      <3>2. QED
        BY <3>1 DEF OrElse, NeedLogs, ResolveFaultType, None
    <2>2. CASE var = "FAULT_LAYER"
      BY <2>2, CallOutcome DEF Resolve, ResolveFaultLayer
    <2>3. QED
      BY <2>1, <2>2
  <1>2. CASE o = Raise(c, b) \/ o \in Nothing(c, b)
    BY <1>2 DEF Concludes, Raise, Nothing, Outcome, None
  <1>3. ASSUME NEW resolved \in SUBSET Vars, o \in Commit(c, b, resolved, c.last.from)
        PROVE  Concludes(o, c, b)
    <2>1. Commits(o, c, b, resolved)
      BY <1>3, LastText, CommitOutcome
    <2>2. QED
      BY <1>3, <2>1, CommitWrites DEF Commits, Concludes, None
  <1>4. CASE o \in Ask("get_logs", c, b) /\ "ROOT_CAUSE_SERVICE" \in b.facts
    BY <1>4, AskOutcome DEF Concludes, Actions, Fetches
  <1>5. QED
    BY <1>1, <1>2, <1>3, <1>4, SetsOfVars

\* A task that only diagnoses has the first four rows of the table.
LEMMA DiagnosisRows ==
    ASSUME NEW t \in Tasks, t # "mitigation", NEW i \in 1..7, Table[i] \in Required(t)
    PROVE  i <= 4
  <1>1. t \in {"detection", "localization", "analysis"} /\ TableLength[t] \in 1..4
    BY DEF Tasks, TableLength
  <1>2. PICK j \in 1..4 : Table[j] = Table[i]
    BY <1>1 DEF Required
  <1>3. QED
    BY <1>2, TableVars
-------------------------------------------------------------------------------
\* The scan works on what a read of the board gave: all that is missing, or nothing.
ScanInv == pc = "scan" => unresolved \in {{}, Required(task) \cap board.missing}

\* What a read may give is all that is missing, or nothing.
LEMMA ReadsAll ==
    ASSUME NEW b, NEW u \in Reads(b)
    PROVE  u \in {{}, Required(task) \cap b.missing}
  BY DEF Reads

\* It starts so.
LEMMA InitScan == Init => ScanInv
  BY DEF Init, ScanInv

\* Every step of the scan keeps it ...
LEMMA RowKeepsScan ==
    ASSUME NEW i, AtRow(i), ResolverActs(i) \/ ResolverReturnsNone(i) \/ ResolverRaises(i)
    PROVE  ScanInv'
  <1>1. CASE ResolverActs(i) \/ ResolverRaises(i)
    BY <1>1 DEF ResolverActs, ResolverRaises, ScanInv
  <1>2. CASE ResolverReturnsNone(i)
    <2>1. PICK o \in Resolve(Table[i], ctx, board) : Apply(o) /\ unresolved' \in Reads(o.board)
      BY <1>2 DEF ResolverReturnsNone
    <2>2. task' = task /\ board' = o.board
      BY <1>2, <2>1 DEF ResolverReturnsNone, Apply
    <2>3. QED
      BY <2>1, <2>2, ReadsAll DEF ScanInv
  <1>3. QED
    BY <1>1, <1>2

\* ... and so does every other step.
LEMMA ScanKept == ScanInv /\ [Next]_vars => ScanInv'
  <1> SUFFICES ASSUME ScanInv, [Next]_vars PROVE ScanInv'
    OBVIOUS
  <1>1. CASE ScanStep
    BY <1>1, RowKeepsScan DEF ScanStep, AtRow
  <1>2. CASE Plan
    BY <1>2, ReadsAll DEF Plan, ScanInv
  <1>3. CASE Responds \/ ObserveNothing \/ ScanEnds \/ SubmitResolved \/ TryAgain \/ SubmitBestEffort
    BY <1>3 DEF Responds, Observe, ObserveNothing, Start, ScanEnds, SubmitResolved, TryAgain,
                SubmitBestEffort, Submit, SubmitRaises, ScanInv
  <1>4. CASE Over \/ UNCHANGED vars
    BY <1>4 DEF Over, vars, scan, ScanInv
  <1>5. QED
    BY <1>1, <1>2, <1>3, <1>4 DEF Next, Agent

\* A row behind the first is looked at once the first is closed, or has been looked at.
LEMMA BehindFirst ==
    ASSUME TypeInv, ScanInv, NEW i, AtRow(i), i > 1
    PROVE  "ANOMALY_CONFIRMED" \notin board.missing \/ cursor > 1
  <1> SUFFICES ASSUME "ANOMALY_CONFIRMED" \in board.missing, ~(cursor > 1) PROVE FALSE
    OBVIOUS
  <1>1. task \in Tasks /\ cursor = 1
    BY RouterAssumption, TableVars DEF TypeInv, TypeOK
  <1>2. unresolved = Required(task) \cap board.missing
    BY RowOfScan DEF AtRow, ScanInv
  <1>3. 1 \in Ahead
    BY <1>1, <1>2, RequiredVars, TableVars DEF Ahead
  <1>4. QED
    BY <1>3, RowOfScan DEF AtRow

\* No row comes back, unless the small model fails.
LEMMA NoRowReturns ==
    ASSUME TypeInv, "slm" \notin faults, NEW i, AtRow(i), NEW o \in Resolve(Table[i], ctx, board)
    PROVE  o.board.missing \subseteq board.missing
  <1>1. i \in 1..7 /\ ctx \in Context /\ board \in Boards
    BY RowOfScan DEF TypeInv, TypeOK
  <1>2. CASE i = 1
    BY <1>1, <1>2, TableVars, AnomalyOutcome DEF Gathers, Reaches
  <1>3. CASE i = 2
    BY <1>1, <1>3, TableVars, LocalizationOutcome DEF Gathers, Reaches
  <1>4. CASE i > 2
    BY <1>4, ScanOutcome DEF Later
  <1>5. QED
    BY <1>1, <1>2, <1>3, <1>4

\* What the response to an action leaves of the context.
LEMMA LastIsPending ==
    ASSUME ctx \in Context, NEW marked \in BOOLEAN
    PROVE  /\ Routed(ctx, marked).last.from = ctx.pending
           /\ Routed(ctx, marked).metrics_consumed
                  = (ctx.metrics_consumed \/ ctx.pending = "read_metrics")
           /\ Routed(ctx, marked).metrics_dir = (ctx.metrics_dir \/ ctx.pending = "get_metrics")
           /\ Routed(ctx, marked).traces_consumed
                  = (ctx.traces_consumed \/ ctx.pending = "read_traces")
           /\ Routed(ctx, marked).traces_dir = (ctx.traces_dir \/ ctx.pending = "get_traces")
  <1> DEFINE seen == [ctx EXCEPT !.last = [from |-> ctx.pending, marked |-> marked],
                                 !.pending = None]
  <1>1. [from |-> ctx.pending, marked |-> marked] \in Text
    BY DEF Text, Context
  <1>2. /\ seen \in Context /\ seen.last.from = ctx.pending
        /\ seen.metrics_consumed = ctx.metrics_consumed /\ seen.metrics_dir = ctx.metrics_dir
        /\ seen.traces_consumed = ctx.traces_consumed /\ seen.traces_dir = ctx.traces_dir
    BY <1>1 DEF Context
  <1>3. CASE ctx.pending = "get_metrics"
    BY <1>2, <1>3 DEF Routed, Context
  <1>4. CASE ctx.pending = "read_metrics"
    BY <1>2, <1>4 DEF Routed, Context
  <1>5. CASE ctx.pending = "get_traces"
    BY <1>2, <1>5 DEF Routed, Context
  <1>6. CASE ctx.pending = "read_traces"
    BY <1>2, <1>6 DEF Routed, Context
  <1>7. CASE ctx.pending \notin {"get_metrics", "read_metrics", "get_traces", "read_traces"}
    <2>1. Routed(ctx, marked) = seen
      BY <1>7 DEF Routed
    <2>2. QED
      BY <1>2, <1>7, <2>1 DEF Context
  <1>8. QED
    BY <1>3, <1>4, <1>5, <1>6, <1>7
-------------------------------------------------------------------------------
\* The detection, with a small model that can be trusted.  While its row is open nothing
\* but metrics is asked for, and once they are read theirs is the last text: the next scan
\* starts at the row, and closes it.
DetectionInv ==
    Trusted =>
        /\ basis["ANOMALY_CONFIRMED"] \in {None, "read_metrics"}
        /\ "ANOMALY_CONFIRMED" \in board.missing =>
               /\ ctx.pending \in {None, "get_metrics", "read_metrics"}
               /\ ctx.metrics_consumed => ctx.pending = None /\ ctx.last.from = "read_metrics"
               /\ pc = "scan" => cursor = 1

\* It starts so.
LEMMA InitDetection == Init => DetectionInv
  <1> SUFFICES ASSUME Init PROVE DetectionInv
    OBVIOUS
  <1>1. basis["ANOMALY_CONFIRMED"] = None
    BY TableVars DEF Init
  <1>2. QED
    BY <1>1 DEF Init, InitContext, DetectionInv

\* The row of the detection keeps it ...
LEMMA DetectionAtFirst ==
    ASSUME TypeInv, DetectionInv, AtRow(1),
           ResolverActs(1) \/ ResolverReturnsNone(1) \/ ResolverRaises(1)
    PROVE  DetectionInv'
  <1>1. ctx \in Context /\ board \in Boards /\ Table[1] = "ANOMALY_CONFIRMED"
        /\ "ANOMALY_CONFIRMED" \in board.missing /\ pc = "scan"
        /\ basis \in [Vars -> Actions \cup {None}] /\ "ANOMALY_CONFIRMED" \in Vars
    BY RowOfScan, TableVars DEF TypeInv, TypeOK, AtRow
  <1>2. faults' = faults
    BY DEF ResolverActs, ResolverReturnsNone, ResolverRaises
  <1> SUFFICES ASSUME Trusted PROVE DetectionInv'
    BY <1>2 DEF DetectionInv, Trusted
  <1>3. /\ basis["ANOMALY_CONFIRMED"] \in {None, "read_metrics"}
        /\ ctx.pending \in {None, "get_metrics", "read_metrics"}
        /\ ctx.metrics_consumed => ctx.pending = None /\ ctx.last.from = "read_metrics"
    BY <1>1 DEF DetectionInv
  <1>4. CASE ResolverActs(1)
    <2>1. PICK o \in Resolve("ANOMALY_CONFIRMED", ctx, board) :
              o.act # None /\ ctx' = [o.ctx EXCEPT !.pending = o.act]
      BY <1>1, <1>4 DEF ResolverActs
    <2>2. ~ctx.metrics_consumed /\ o.ctx = ctx /\ o.act \in {"get_metrics", "read_metrics"}
      BY <1>1, <2>1, AnomalyRow DEF Gathers
    <2>3. ~ctx'.metrics_consumed /\ ctx'.pending = o.act
      BY <1>1, <2>1, <2>2 DEF Context
    <2>4. basis' = basis /\ pc' = "env"
      BY <1>4 DEF ResolverActs
    <2>5. QED
      BY <1>3, <2>2, <2>3, <2>4 DEF DetectionInv
  <1>5. CASE ResolverReturnsNone(1)
    <2>1. PICK o \in Resolve("ANOMALY_CONFIRMED", ctx, board) :
              /\ o.act = None /\ ~o.raised /\ Apply(o) /\ ctx' = o.ctx
              /\ basis' = IF o.used = None THEN basis
                          ELSE [basis EXCEPT !["ANOMALY_CONFIRMED"] = o.used]
      BY <1>1, <1>5 DEF ResolverReturnsNone
    <2>2. /\ ctx.metrics_consumed /\ o.used \in {None, ctx.last.from}
          /\ ctx.last.from # None => "ANOMALY_CONFIRMED" \notin o.board.missing
      BY <1>1, <2>1, AnomalyRow DEF Gathers, None
    <2>3. "ANOMALY_CONFIRMED" \notin board'.missing
      BY <1>3, <2>1, <2>2 DEF Apply, None
    <2>4. basis'["ANOMALY_CONFIRMED"] \in {None, "read_metrics"}
      BY <1>1, <1>3, <2>1, <2>2
    <2>5. QED
      BY <2>3, <2>4 DEF DetectionInv
  <1>6. CASE ResolverRaises(1)
    <2>1. PICK o \in Resolve("ANOMALY_CONFIRMED", ctx, board) : ctx' = o.ctx
      BY <1>1, <1>6 DEF ResolverRaises
    <2>2. ctx' = ctx
      BY <1>1, <2>1, AnomalyRow DEF Gathers
    <2>3. basis' = basis /\ pc' = "raised"
      BY <1>6 DEF ResolverRaises
    <2>4. QED
      BY <1>3, <2>2, <2>3 DEF DetectionInv
  <1>7. QED
    BY <1>4, <1>5, <1>6

\* ... and the rows behind it, which are looked at once it is closed.
LEMMA DetectionBehind ==
    ASSUME TypeInv, ScanInv, DetectionInv, NEW i, AtRow(i), i > 1,
           ResolverActs(i) \/ ResolverReturnsNone(i) \/ ResolverRaises(i)
    PROVE  DetectionInv'
  <1>1. faults' = faults
    BY DEF ResolverActs, ResolverReturnsNone, ResolverRaises
  <1> SUFFICES ASSUME Trusted PROVE DetectionInv'
    BY <1>1 DEF DetectionInv, Trusted
  <1>2. "ANOMALY_CONFIRMED" \notin board.missing
    BY BehindFirst DEF DetectionInv, AtRow
  <1>3. PICK o \in Resolve(Table[i], ctx, board) : board' = o.board
    BY DEF ResolverActs, ResolverReturnsNone, ResolverRaises, Apply
  <1>4. "ANOMALY_CONFIRMED" \notin board'.missing
    BY <1>2, <1>3, NoRowReturns DEF Trusted
  <1>5. Table[i] # "ANOMALY_CONFIRMED" /\ Table[i] \in Vars
        /\ basis \in [Vars -> Actions \cup {None}] /\ "ANOMALY_CONFIRMED" \in Vars
    BY RowOfScan, TableVars DEF TypeInv, TypeOK
  <1>6. \E used : basis' = basis \/ basis' = [basis EXCEPT ![Table[i]] = used]
    BY DEF ResolverActs, ResolverReturnsNone, ResolverRaises
  <1>7. basis'["ANOMALY_CONFIRMED"] = basis["ANOMALY_CONFIRMED"]
    BY <1>5, <1>6
  <1>8. QED
    BY <1>4, <1>7 DEF DetectionInv

\* A response keeps it: the text of the metrics comes last when they are there.
LEMMA ObserveKeepsDetection ==
    ASSUME TypeInv, DetectionInv, NEW marked \in BOOLEAN, Observe(marked)
    PROVE  DetectionInv'
  <1>1. /\ ctx' = Routed(ctx, marked) /\ pc' = "read" /\ ctx.pending # None
        /\ UNCHANGED <<faults, board, basis>>
    BY DEF Observe, Start
  <1> SUFFICES ASSUME Trusted PROVE DetectionInv'
    BY <1>1 DEF DetectionInv, Trusted
  <1>2. /\ ctx'.pending = None
        /\ ctx.pending # "read_metrics" /\ ctx'.metrics_consumed => ctx.metrics_consumed
    BY <1>1, RoutedType DEF TypeInv, TypeOK
  <1>3. ctx.pending = "read_metrics" => ctx'.last.from = "read_metrics"
    BY <1>1, LastIsPending DEF TypeInv, TypeOK
  <1>4. QED
    BY <1>1, <1>2, <1>3 DEF DetectionInv

\* Every step keeps it.
LEMMA DetectionKept == TypeInv /\ ScanInv /\ DetectionInv /\ [Next]_vars => DetectionInv'
  <1> SUFFICES ASSUME TypeInv, ScanInv, DetectionInv, [Next]_vars PROVE DetectionInv'
    OBVIOUS
  <1>1. ASSUME NEW marked \in BOOLEAN, Observe(marked) PROVE DetectionInv'
    BY <1>1, ObserveKeepsDetection
  <1>2. ASSUME NEW i \in Ahead, AtRow(i),
               ResolverActs(i) \/ ResolverReturnsNone(i) \/ ResolverRaises(i)
        PROVE  DetectionInv'
    <2>1. i \in 1..7
      BY <1>2, RowOfScan
    <2>2. QED
      BY <1>2, <2>1, DetectionAtFirst, DetectionBehind
  <1>3. CASE ScanStep
    BY <1>2, <1>3 DEF ScanStep, AtRow
  <1>4. CASE Plan
    BY <1>4 DEF Plan, history, DetectionInv, Trusted
  <1>5. CASE ObserveNothing \/ ScanEnds \/ SubmitResolved \/ TryAgain \/ SubmitBestEffort
    BY <1>5 DEF ObserveNothing, Start, ScanEnds, SubmitResolved, TryAgain, SubmitBestEffort,
                Submit, SubmitRaises, history, DetectionInv, Trusted
  <1>6. CASE Over \/ UNCHANGED vars
    BY <1>6 DEF Over, vars, scan, history, DetectionInv, Trusted
  <1>7. QED
    BY <1>1, <1>3, <1>4, <1>5, <1>6 DEF Next, Agent, Responds

\* Whatever else fails, reads included: a detection whose small model extracts what it is
\* asked for, and cites it, runs on the metrics and on no later text.
THEOREM DetectionRunsOnMetrics == Spec => []AnomalyFromMetrics
  <1>1. DetectionInv => AnomalyFromMetrics
    BY DEF DetectionInv, AnomalyFromMetrics, Trusted
  <1>2. Init => TypeInv /\ ScanInv /\ DetectionInv
    BY InitType, InitScan, InitDetection
  <1>3. TypeInv /\ ScanInv /\ DetectionInv /\ [Next]_vars => (TypeInv /\ ScanInv /\ DetectionInv)'
    BY TypeKept, ScanKept, DetectionKept
  <1>4. QED
    BY <1>1, <1>2, <1>3, PTL DEF Spec
-------------------------------------------------------------------------------
\* The metrics are not asked for any more.
MetricsDone == "ANOMALY_CONFIRMED" \notin board.missing \/ ctx.metrics_consumed

\* The localization, in the tasks that only diagnose.  While its row is open nobody has
\* named the root cause, so that no logs are asked for; traces are asked for when metrics
\* are not any more; and once the traces are read theirs is the last text.
LocalizationInv ==
    task # "mitigation" =>
        /\ basis["ROOT_CAUSE_SERVICE"] \in {None, "read_traces"}
        /\ "ROOT_CAUSE_SERVICE" \in board.missing =>
               /\ "ROOT_CAUSE_SERVICE" \notin board.facts
               /\ ctx.pending \in {None, "get_metrics", "read_metrics", "get_traces", "read_traces"}
               /\ ctx.traces_consumed => ctx.pending = None /\ ctx.last.from = "read_traces"
               /\ ctx.traces_consumed \/ ctx.traces_dir => MetricsDone
               /\ ctx.pending \in {"get_traces", "read_traces"} => MetricsDone
               /\ pc = "scan" /\ cursor > 1 => MetricsDone

\* It starts so.
LEMMA InitLocalization == Init => LocalizationInv
  <1> SUFFICES ASSUME Init PROVE LocalizationInv
    OBVIOUS
  <1>1. basis["ROOT_CAUSE_SERVICE"] = None
    BY TableVars DEF Init
  <1>2. QED
    BY <1>1 DEF Init, InitContext, LocalizationInv, None

\* The row of the detection asks for metrics only, and names no root cause ...
LEMMA LocalizationAtFirst ==
    ASSUME "ROOT_CAUSE_SERVICE" \notin Stray, TypeInv, LocalizationInv, AtRow(1),
           ResolverActs(1) \/ ResolverReturnsNone(1) \/ ResolverRaises(1)
    PROVE  LocalizationInv'
  <1>1. /\ ctx \in Context /\ board \in Boards /\ Table[1] = "ANOMALY_CONFIRMED"
        /\ "ANOMALY_CONFIRMED" \in board.missing /\ pc = "scan"
        /\ basis \in [Vars -> Actions \cup {None}] /\ "ROOT_CAUSE_SERVICE" \in Vars
    BY RowOfScan, TableVars DEF TypeInv, TypeOK, AtRow
  <1>2. task' = task
    BY DEF ResolverActs, ResolverReturnsNone, ResolverRaises
  <1> SUFFICES ASSUME task # "mitigation", task' # "mitigation" PROVE LocalizationInv'
    BY <1>2 DEF LocalizationInv
  <1>3. PICK o \in Resolve("ANOMALY_CONFIRMED", ctx, board) :
            /\ board' = o.board
            /\ o.act # None => ctx' = [o.ctx EXCEPT !.pending = o.act] /\ pc' = "env"
            /\ o.act = None => ctx' = o.ctx
            /\ \E used : basis' = basis \/ basis' = [basis EXCEPT !["ANOMALY_CONFIRMED"] = used]
    <2>1. Table[1] = "ANOMALY_CONFIRMED"
      BY <1>1
    <2>2. ASSUME NEW o \in Resolve("ANOMALY_CONFIRMED", ctx, board), o.raised
          PROVE  o.act = None
      BY <1>1, <2>2, AnomalyOutcome DEF Gathers, Reaches, Outcomes
    <2>3. QED
      BY <2>1, <2>2 DEF ResolverActs, ResolverReturnsNone, ResolverRaises, Apply
  <1>4. basis'["ROOT_CAUSE_SERVICE"] = basis["ROOT_CAUSE_SERVICE"]
    BY <1>1, <1>3
  <1>5. "ROOT_CAUSE_SERVICE" \in o.board.missing => "ROOT_CAUSE_SERVICE" \in board.missing
    BY <1>1, <1>3, AnomalyOutcome DEF Gathers, Reaches
  <1>6. CASE /\ ~ctx.metrics_consumed
             /\ Gathers(o, ctx, board, {IF ctx.metrics_dir THEN "read_metrics" ELSE "get_metrics"})
    <2>1. o.act \in {"get_metrics", "read_metrics"} /\ o.ctx = ctx /\ o.board = board
      BY <1>6 DEF Gathers
    <2>2. ctx' = [ctx EXCEPT !.pending = o.act] /\ pc' = "env" /\ board' = board
      BY <1>3, <2>1 DEF None
    <2>3. /\ ctx'.pending = o.act /\ ctx'.traces_consumed = ctx.traces_consumed
          /\ ctx'.traces_dir = ctx.traces_dir
      BY <1>1, <2>2 DEF Context
    <2>4. ~MetricsDone
      BY <1>1, <1>6 DEF MetricsDone
    <2>5. QED
      BY <1>4, <2>1, <2>2, <2>3, <2>4 DEF LocalizationInv
  <1>7. CASE /\ ctx.metrics_consumed
             /\ o.act = None /\ o.ctx = ctx /\ o.used \in {None, ctx.last.from}
             /\ o.board.facts \subseteq board.facts \cup {"ANOMALY_CONFIRMED"} \cup Stray
    <2>1. ctx' = ctx /\ MetricsDone'
      BY <1>3, <1>7 DEF MetricsDone
    <2>2. QED
      BY <1>3, <1>4, <1>5, <1>7, <2>1 DEF LocalizationInv
  <1>8. o \in Resolve("ANOMALY_CONFIRMED", ctx, board)
    BY <1>3
  <1>9. QED
    BY <1>1, <1>6, <1>7, <1>8, AnomalyRow

\* ... its own row asks for traces only, and runs on them ...
LEMMA LocalizationAtSecond ==
    ASSUME TypeInv, ScanInv, LocalizationInv, AtRow(2),
           ResolverActs(2) \/ ResolverReturnsNone(2) \/ ResolverRaises(2)
    PROVE  LocalizationInv'
  <1>1. /\ ctx \in Context /\ board \in Boards /\ Table[2] = "ROOT_CAUSE_SERVICE"
        /\ "ROOT_CAUSE_SERVICE" \in board.missing /\ pc = "scan"
        /\ basis \in [Vars -> Actions \cup {None}] /\ "ROOT_CAUSE_SERVICE" \in Vars
    BY RowOfScan, TableVars DEF TypeInv, TypeOK, AtRow
  <1>2. task' = task
    BY DEF ResolverActs, ResolverReturnsNone, ResolverRaises
  <1> SUFFICES ASSUME task # "mitigation", task' # "mitigation" PROVE LocalizationInv'
    BY <1>2 DEF LocalizationInv
  <1>3. PICK o \in Resolve("ROOT_CAUSE_SERVICE", ctx, board) :
            /\ board' = o.board
            /\ o.act # None => /\ ctx' = [o.ctx EXCEPT !.pending = o.act]
                               /\ pc' = "env" /\ basis' = basis
            /\ o.act = None => /\ ctx' = o.ctx
                               /\ \/ basis' = basis
                                  \/ /\ o.used # None
                                     /\ basis' = [basis EXCEPT !["ROOT_CAUSE_SERVICE"] = o.used]
    <2>1. Table[2] = "ROOT_CAUSE_SERVICE"
      BY <1>1
    <2>2. ASSUME NEW o \in Resolve("ROOT_CAUSE_SERVICE", ctx, board), o.raised
          PROVE  o.act = None
      BY <1>1, <2>2, LocalizationOutcome DEF Gathers, Reaches, Outcomes
    <2>3. QED
      BY <2>1, <2>2 DEF ResolverActs, ResolverReturnsNone, ResolverRaises, Apply
  <1>4. /\ basis["ROOT_CAUSE_SERVICE"] \in {None, "read_traces"}
        /\ ctx.traces_consumed => ctx.pending = None /\ ctx.last.from = "read_traces"
        /\ MetricsDone
    BY <1>1, BehindFirst DEF LocalizationInv, MetricsDone
  <1>5. CASE /\ ~ctx.traces_consumed
             /\ Gathers(o, ctx, board, {IF ctx.traces_dir THEN "read_traces" ELSE "get_traces"})
    <2>1. o.act \in {"get_traces", "read_traces"} /\ o.ctx = ctx /\ o.board = board
      BY <1>5 DEF Gathers
    <2>2. ctx' = [ctx EXCEPT !.pending = o.act] /\ pc' = "env" /\ board' = board
      BY <1>3, <2>1 DEF None
    <2>3. /\ ctx'.pending = o.act /\ ctx'.traces_consumed = ctx.traces_consumed
          /\ ctx'.metrics_consumed = ctx.metrics_consumed
      BY <1>1, <2>2 DEF Context
    <2>4. basis' = basis
      BY <1>3, <2>1 DEF None
    <2>5. MetricsDone'
      BY <1>4, <2>2, <2>3 DEF MetricsDone
    <2>6. QED
      BY <1>1, <1>4, <1>5, <2>1, <2>2, <2>3, <2>4, <2>5 DEF LocalizationInv
  <1>6. CASE /\ ctx.traces_consumed
             /\ o.act = None /\ o.ctx = ctx /\ o.used \in {None, ctx.last.from}
             /\ o.board = board \/ "ROOT_CAUSE_SERVICE" \notin o.board.missing
    <2>1. basis'["ROOT_CAUSE_SERVICE"] \in {None, "read_traces"}
      BY <1>1, <1>3, <1>4, <1>6
    <2>2. ctx' = ctx
      BY <1>3, <1>6
    <2>3. CASE o.board = board
      BY <1>1, <1>3, <1>4, <2>1, <2>2, <2>3 DEF LocalizationInv, MetricsDone
    <2>4. CASE "ROOT_CAUSE_SERVICE" \notin o.board.missing
      BY <1>3, <2>1, <2>4 DEF LocalizationInv
    <2>5. QED
      BY <1>6, <2>3, <2>4
  <1>7. QED
    BY <1>1, <1>3, <1>5, <1>6, LocalizationRow

\* ... and the rows behind it name no root cause, and ask for logs when it is named.
LEMMA LocalizationBehind ==
    ASSUME TypeInv, ScanInv, LocalizationInv, NEW i, AtRow(i), i > 2,
           ResolverActs(i) \/ ResolverReturnsNone(i) \/ ResolverRaises(i)
    PROVE  LocalizationInv'
  <1>1. task' = task /\ pc = "scan"
    BY DEF ResolverActs, ResolverReturnsNone, ResolverRaises, AtRow
  <1> SUFFICES ASSUME task # "mitigation", task' # "mitigation" PROVE LocalizationInv'
    BY <1>1 DEF LocalizationInv
  <1>2. /\ ctx \in Context /\ board \in Boards /\ task \in Tasks
        /\ basis \in [Vars -> Actions \cup {None}] /\ i \in 1..7 /\ Table[i] \in Required(task)
    BY RowOfScan, RouterAssumption DEF TypeInv, TypeOK
  <1>3. i \in 3..4 /\ Table[i] \in {"FAULT_TYPE", "FAULT_LAYER"}
        /\ Table[i] # "ROOT_CAUSE_SERVICE" /\ "ROOT_CAUSE_SERVICE" \in Vars
    BY <1>2, DiagnosisRows, TableVars
  <1>4. PICK o \in Resolve(Table[i], ctx, board) :
            /\ board' = o.board
            /\ o.act # None => ctx' = [o.ctx EXCEPT !.pending = o.act] /\ pc' = "env"
            /\ o.act = None => ctx' = o.ctx
            /\ \E used : basis' = basis \/ basis' = [basis EXCEPT ![Table[i]] = used]
    <2>1. ASSUME NEW o \in Resolve(Table[i], ctx, board), o.raised PROVE o.act = None
      BY <2>1, ScanOutcome DEF Outcomes
    <2>2. QED
      BY <2>1 DEF ResolverActs, ResolverReturnsNone, ResolverRaises, Apply
  <1>5. basis'["ROOT_CAUSE_SERVICE"] = basis["ROOT_CAUSE_SERVICE"]
    BY <1>2, <1>3, <1>4
  <1>6. Concludes(o, ctx, board)
    BY <1>2, <1>3, DiagnosisRow
  <1>7. o.board.missing \subseteq board.missing
    BY <1>3, ScanOutcome DEF Later
  <1>8. CASE "ROOT_CAUSE_SERVICE" \notin board.missing
    BY <1>4, <1>5, <1>7, <1>8 DEF LocalizationInv
  <1>9. CASE "ROOT_CAUSE_SERVICE" \in board.missing
    <2>1. /\ "ROOT_CAUSE_SERVICE" \notin board.facts
          /\ ctx.pending \in {None, "get_metrics", "read_metrics", "get_traces", "read_traces"}
          /\ ctx.traces_consumed => ctx.pending = None /\ ctx.last.from = "read_traces"
          /\ cursor > 1 => MetricsDone
      BY <1>1, <1>9 DEF LocalizationInv
    <2>2. MetricsDone
      BY <1>3, <2>1, BehindFirst DEF MetricsDone
    <2>3. o.act = None /\ ctx' = ctx /\ board'.facts = board.facts
      BY <1>4, <1>6, <2>1 DEF Concludes
    <2>4. MetricsDone'
      BY <1>4, <1>7, <2>2, <2>3 DEF MetricsDone
    <2>5. QED
      BY <1>5, <2>1, <2>3, <2>4 DEF LocalizationInv
  <1>10. QED
    BY <1>8, <1>9

\* A response keeps it: the text of the traces comes last when they are there.
LEMMA ObserveKeepsLocalization ==
    ASSUME TypeInv, LocalizationInv, NEW marked \in BOOLEAN, Observe(marked)
    PROVE  LocalizationInv'
  <1>1. /\ ctx' = Routed(ctx, marked) /\ pc' = "read" /\ ctx.pending # None
        /\ UNCHANGED <<task, board, basis>>
    BY DEF Observe, Start
  <1>2. /\ ctx'.pending = None /\ ctx'.last.from = ctx.pending
        /\ ctx'.metrics_consumed = (ctx.metrics_consumed \/ ctx.pending = "read_metrics")
        /\ ctx'.traces_consumed = (ctx.traces_consumed \/ ctx.pending = "read_traces")
        /\ ctx'.traces_dir = (ctx.traces_dir \/ ctx.pending = "get_traces")
    BY <1>1, RoutedType, LastIsPending DEF TypeInv, TypeOK
  <1>3. MetricsDone => MetricsDone'
    BY <1>1, <1>2 DEF MetricsDone
  <1>4. QED
    BY <1>1, <1>2, <1>3 DEF LocalizationInv, None

\* Every step keeps it.
LEMMA LocalizationKept ==
    ASSUME "ROOT_CAUSE_SERVICE" \notin Stray
    PROVE  TypeInv /\ ScanInv /\ LocalizationInv /\ [Next]_vars => LocalizationInv'
  <1> SUFFICES ASSUME TypeInv, ScanInv, LocalizationInv, [Next]_vars PROVE LocalizationInv'
    OBVIOUS
  <1>1. ASSUME NEW marked \in BOOLEAN, Observe(marked) PROVE LocalizationInv'
    BY <1>1, ObserveKeepsLocalization
  <1>2. ASSUME NEW i \in Ahead, AtRow(i),
               ResolverActs(i) \/ ResolverReturnsNone(i) \/ ResolverRaises(i)
        PROVE  LocalizationInv'
    <2>1. i = 1 \/ i = 2 \/ i > 2
      BY <1>2, RowOfScan
    <2>2. QED
      BY <1>2, <2>1, LocalizationAtFirst, LocalizationAtSecond, LocalizationBehind
  <1>3. CASE ScanStep
    BY <1>2, <1>3 DEF ScanStep, AtRow
  <1>4. CASE Plan
    BY <1>4 DEF Plan, history, LocalizationInv, MetricsDone
  <1>5. CASE ObserveNothing \/ ScanEnds \/ SubmitResolved \/ TryAgain \/ SubmitBestEffort
    BY <1>5 DEF ObserveNothing, Start, ScanEnds, SubmitResolved, TryAgain, SubmitBestEffort,
                Submit, SubmitRaises, history, LocalizationInv, MetricsDone
  <1>6. CASE Over \/ UNCHANGED vars
    BY <1>6 DEF Over, vars, scan, history, LocalizationInv, MetricsDone
  <1>7. QED
    BY <1>1, <1>3, <1>4, <1>5, <1>6 DEF Next, Agent, Responds

\* Whatever fails, as long as the small model leaves the root cause to its phase: a task that
\* only diagnoses localizes on the traces, however often the attempt is rejected.
THEOREM LocalizationRunsOnTraces ==
    ASSUME "ROOT_CAUSE_SERVICE" \notin Stray
    PROVE  Spec => []LocalizationFromTraces
  <1>1. LocalizationInv => LocalizationFromTraces
    BY DEF LocalizationInv, LocalizationFromTraces
  <1>2. Init => TypeInv /\ ScanInv /\ LocalizationInv
    BY InitType, InitScan, InitLocalization
  <1>3. TypeInv /\ ScanInv /\ LocalizationInv /\ [Next]_vars
            => (TypeInv /\ ScanInv /\ LocalizationInv)'
    BY TypeKept, ScanKept, LocalizationKept
  <1>4. QED
    BY <1>1, <1>2, <1>3, PTL DEF Spec
-------------------------------------------------------------------------------
\* What was answered is known, in the tasks that only diagnose.
FetchInv ==
    task # "mitigation" =>
        /\ "get_metrics" \in answered => ctx.metrics_dir
        /\ "read_metrics" \in answered => ctx.metrics_consumed
        /\ "get_traces" \in answered => ctx.traces_dir
        /\ "read_traces" \in answered => ctx.traces_consumed

\* A row of these tasks leaves the context, and asks for what is not known, or for logs.
LEMMA RowAsksUnknown ==
    ASSUME TypeInv, task # "mitigation", NEW i, AtRow(i), NEW o \in Resolve(Table[i], ctx, board)
    PROVE  /\ o.ctx = ctx
           /\ o.act \in {None, "get_metrics", "read_metrics", "get_traces", "read_traces", "get_logs"}
           /\ o.act = "get_metrics" => ~ctx.metrics_dir
           /\ o.act = "read_metrics" => ~ctx.metrics_consumed
           /\ o.act = "get_traces" => ~ctx.traces_dir
           /\ o.act = "read_traces" => ~ctx.traces_consumed
  <1>1. /\ ctx \in Context /\ board \in Boards /\ task \in Tasks
        /\ i \in 1..7 /\ Table[i] \in Required(task)
    BY RowOfScan, RouterAssumption DEF TypeInv, TypeOK
  <1>2. i \in 1..4
    BY <1>1, DiagnosisRows
  <1>3. CASE i = 1
    <2>1. o \in Resolve("ANOMALY_CONFIRMED", ctx, board)
      BY <1>3, TableVars
    <2>2. CASE /\ ~ctx.metrics_consumed
               /\ Gathers(o, ctx, board, {IF ctx.metrics_dir THEN "read_metrics" ELSE "get_metrics"})
      BY <2>2 DEF Gathers
    <2>3. CASE o.act = None /\ o.ctx = ctx
      BY <2>3 DEF None
    <2>4. \/ /\ ~ctx.metrics_consumed
             /\ Gathers(o, ctx, board, {IF ctx.metrics_dir THEN "read_metrics" ELSE "get_metrics"})
          \/ o.act = None /\ o.ctx = ctx
      BY <1>1, <2>1, AnomalyRow
    <2>5. QED
      BY <2>2, <2>3, <2>4
  <1>4. CASE i = 2
    <2>1. o \in Resolve("ROOT_CAUSE_SERVICE", ctx, board)
      BY <1>4, TableVars
    <2>2. CASE /\ ~ctx.traces_consumed
               /\ Gathers(o, ctx, board, {IF ctx.traces_dir THEN "read_traces" ELSE "get_traces"})
      BY <2>2 DEF Gathers
    <2>3. CASE o.act = None /\ o.ctx = ctx
      BY <2>3 DEF None
    <2>4. QED
      BY <1>1, <2>1, <2>2, <2>3, LocalizationRow
  <1>5. CASE i \in 3..4
    <2>1. Table[i] \in {"FAULT_TYPE", "FAULT_LAYER"}
      BY <1>5, TableVars
    <2>2. Concludes(o, ctx, board)
      BY <1>1, <2>1, DiagnosisRow
    <2>3. QED
      BY <2>2 DEF Concludes, None
  <1>6. QED
    BY <1>2, <1>3, <1>4, <1>5

\* It starts so, and every step keeps it.
LEMMA FetchKept ==
    /\ Init => FetchInv
    /\ TypeInv /\ FetchInv /\ [Next]_vars => FetchInv'
  <1>1. Init => FetchInv
    BY DEF Init, FetchInv
  <1>2. TypeInv /\ FetchInv /\ [Next]_vars => FetchInv'
    <2> SUFFICES ASSUME TypeInv, FetchInv, [Next]_vars PROVE FetchInv'
      OBVIOUS
    <2>1. ASSUME NEW marked \in BOOLEAN, Observe(marked) PROVE FetchInv'
      <3>1. /\ ctx' = Routed(ctx, marked) /\ answered' = answered \cup {ctx.pending}
            /\ task' = task
        BY <2>1 DEF Observe, Start
      <3>2. /\ ctx'.metrics_consumed = (ctx.metrics_consumed \/ ctx.pending = "read_metrics")
            /\ ctx'.metrics_dir = (ctx.metrics_dir \/ ctx.pending = "get_metrics")
            /\ ctx'.traces_consumed = (ctx.traces_consumed \/ ctx.pending = "read_traces")
            /\ ctx'.traces_dir = (ctx.traces_dir \/ ctx.pending = "get_traces")
        BY <3>1, LastIsPending DEF TypeInv, TypeOK
      <3>3. QED
        BY <3>1, <3>2 DEF FetchInv
    <2>2. CASE ScanStep
      <3>1. PICK i \in Ahead :
                AtRow(i) /\ (ResolverActs(i) \/ ResolverReturnsNone(i) \/ ResolverRaises(i))
        BY <2>2 DEF ScanStep, AtRow
      <3>2. PICK o \in Resolve(Table[i], ctx, board) :
                ctx' = o.ctx \/ ctx' = [o.ctx EXCEPT !.pending = o.act]
        BY <3>1 DEF ResolverActs, ResolverReturnsNone, ResolverRaises
      <3>3. UNCHANGED <<task, answered>>
        BY <3>1 DEF ResolverActs, ResolverReturnsNone, ResolverRaises
      <3>4. task # "mitigation" => ctx' = ctx \/ ctx' = [ctx EXCEPT !.pending = o.act]
        BY <3>1, <3>2, RowAsksUnknown
      <3>5. ctx \in Context
        BY DEF TypeInv, TypeOK
      <3>6. task # "mitigation" =>
                /\ ctx'.metrics_dir = ctx.metrics_dir
                /\ ctx'.metrics_consumed = ctx.metrics_consumed
                /\ ctx'.traces_dir = ctx.traces_dir
                /\ ctx'.traces_consumed = ctx.traces_consumed
        BY <3>4, <3>5 DEF Context
      <3>7. QED
        BY <3>3, <3>6 DEF FetchInv
    <2>3. CASE Plan \/ ObserveNothing \/ ScanEnds \/ SubmitResolved \/ TryAgain \/ SubmitBestEffort
      BY <2>3 DEF Plan, ObserveNothing, Start, ScanEnds, SubmitResolved, TryAgain,
                  SubmitBestEffort, Submit, SubmitRaises, history, FetchInv
    <2>4. CASE Over \/ UNCHANGED vars
      BY <2>4 DEF Over, vars, history, FetchInv
    <2>5. QED
      BY <2>1, <2>2, <2>3, <2>4 DEF Next, Agent, Responds
  <1>3. QED
    BY <1>1, <1>2

\* Whatever fails, reads included: a task that only diagnoses never asks again for metrics
\* or traces whose response it has had.
THEOREM FetchesOnce == Spec => NoWastedFetch
  <1> DEFINE Step == task # "mitigation" /\ ctx'.pending # ctx.pending =>
                         ctx'.pending \notin (answered \ {"get_logs"})
  <1>1. TypeInv /\ FetchInv /\ [Next]_vars => [Step]_vars
    <2> SUFFICES ASSUME TypeInv, FetchInv, [Next]_vars, task # "mitigation",
                        ctx'.pending # ctx.pending
                 PROVE  ctx'.pending \notin (answered \ {"get_logs"})
      OBVIOUS
    <2>1. None \notin answered
      BY DEF TypeInv, TypeOK, Actions, Fetches, None
    <2>2. CASE Responds
      <3>1. ctx'.pending = None
        BY <2>2, RoutedType DEF Responds, Observe, TypeInv, TypeOK
      <3>2. QED
        BY <2>1, <3>1
    <2>3. CASE ScanStep
      <3>1. PICK i \in Ahead :
                AtRow(i) /\ (ResolverActs(i) \/ ResolverReturnsNone(i) \/ ResolverRaises(i))
        BY <2>3 DEF ScanStep, AtRow
      <3>2. PICK o \in Resolve(Table[i], ctx, board) :
                ctx' = o.ctx \/ ctx' = [o.ctx EXCEPT !.pending = o.act]
        BY <3>1 DEF ResolverActs, ResolverReturnsNone, ResolverRaises
      <3>3. /\ o.ctx = ctx
            /\ o.act \in {None, "get_metrics", "read_metrics", "get_traces", "read_traces",
                          "get_logs"}
            /\ o.act = "get_metrics" => ~ctx.metrics_dir
            /\ o.act = "read_metrics" => ~ctx.metrics_consumed
            /\ o.act = "get_traces" => ~ctx.traces_dir
            /\ o.act = "read_traces" => ~ctx.traces_consumed
        BY <3>1, <3>2, RowAsksUnknown
      <3>4. ctx'.pending = o.act
        BY <3>2, <3>3 DEF TypeInv, TypeOK, Context
      <3>5. QED
        BY <2>1, <3>3, <3>4 DEF FetchInv
    <2>4. CASE Plan \/ ObserveNothing \/ ScanEnds \/ SubmitResolved \/ TryAgain \/ SubmitBestEffort
      BY <2>4 DEF Plan, ObserveNothing, Start, ScanEnds, SubmitResolved, TryAgain,
                  SubmitBestEffort, Submit, SubmitRaises, history
    <2>5. CASE Over \/ UNCHANGED vars
      BY <2>5 DEF Over, vars, history
    <2>6. QED
      BY <2>2, <2>3, <2>4, <2>5 DEF Next, Agent
  <1>2. QED
    BY <1>1, InitType, TypeKept, FetchKept, PTL DEF Spec, NoWastedFetch
-------------------------------------------------------------------------------
\* A command that the guard fails goes out only where the commit of its judgement may raise.
LEMMA ExecutionJudged ==
    ASSUME NEW c \in Context, NEW b \in Boards, NEW o \in Resolve("MITIGATION_EXECUTED", c, b),
           o.act = "exec_shell"
    PROVE  o.verdict \in {"skipped", "PASS"} \/ "raise" \in faults
  <1>1. \/ o = Raise(c, b) \/ o \in Nothing(c, b) \/ o \in Commit(c, b, {}, None)
        \/ o \in GuardLayer2(c, b)
    BY CallOutcome DEF Resolve, NeedExecution
  <1>2. o \in GuardLayer2(c, b)
    <2>1. o \in Commit(c, b, {}, None) => o.act = None
      BY CommitOutcome, SetsOfVars DEF Commits
    <2>2. Raise(c, b).act # "exec_shell" /\ (o \in Nothing(c, b) => o.act # "exec_shell")
      BY DEF Raise, Nothing, Outcome, None
    <2>3. QED
      BY <1>1, <2>1, <2>2 DEF None
  <1>3. \/ o \in {Judged("exec_shell", c, b, "skipped"), Judged("exec_shell", c, b, "PASS")}
        \/ o = Judged(None, c, b, "FAIL")
        \/ CallSucceeds /\ CallMayRaise
    BY <1>2 DEF GuardLayer2
  <1>4. \A act, judgement :
            /\ Judged(act, c, b, judgement).act = act
            /\ Judged(act, c, b, judgement).verdict = judgement
    BY DEF Judged, Outcome
  <1>5. CallSucceeds /\ CallMayRaise => "raise" \in faults
    BY DEF CallSucceeds, CallMayRaise
  <1>6. QED
    BY <1>3, <1>4, <1>5 DEF None

\* The last row asks for metrics at most.
LEMMA TnrAsks ==
    ASSUME NEW c \in Context, ~c.health_csv, NEW b \in Boards,
           NEW o \in Resolve("TNR_VERIFIED", c, b)
    PROVE  o.act \in {None, "get_metrics", "read_metrics"}
  <1> DEFINE d == HealthContext(c)
  <1>1. d \in Context /\ ~d.health_csv
    BY HealthForgets DEF Forgets
  <1>2. o \in OrElse(NeedHealthCheck(c), d, b, ResolveTnr(d, b))
    BY DEF Resolve
  <1>3. CASE o \in Ask(NeedHealthCheck(c), d, b)
    <2>1. NeedHealthCheck(c) \in {None, "get_metrics", "read_metrics"}
      BY <1>1 DEF NeedHealthCheck, NeedMetrics, Context
    <2>2. o.act = NeedHealthCheck(c)
      BY <1>3 DEF Ask, Outcome
    <2>3. QED
      BY <2>1, <2>2
  <1>4. CASE o \in Commit(d, b, {"TNR_VERIFIED"}, None)
    BY <1>4, CallOutcome DEF Commit, Outcome, Raise
  <1>5. QED
    BY <1>1, <1>2, <1>3, <1>4 DEF OrElse, ResolveTnr

\* Only the row of the execution sends a command.
LEMMA CommandFromExecution ==
    ASSUME TypeInv, NEW i, AtRow(i), NEW o \in Resolve(Table[i], ctx, board), o.act = "exec_shell"
    PROVE  Table[i] = "MITIGATION_EXECUTED"
  <1>1. i \in 1..7 /\ ctx \in Context /\ board \in Boards
    BY RowOfScan DEF TypeInv, TypeOK
  <1>2. CASE i = 1
    BY <1>1, <1>2, TableVars, AnomalyOutcome DEF Gathers, Reaches, None
  <1>3. CASE i = 2
    BY <1>1, <1>3, TableVars, LocalizationOutcome DEF Gathers, Reaches, None
  <1>4. CASE i = 3
    BY <1>1, <1>4, TableVars, DiagnosisRow DEF Concludes, None
  <1>5. CASE i = 4
    BY <1>1, <1>5, TableVars, DiagnosisRow DEF Concludes, None
  <1>6. CASE i = 5
    <2>1. o \in Commit(ctx, board, {"MITIGATION_ACTION"}, None)
      BY <1>6, TableVars DEF Resolve, ResolveMitigationPlan
    <2>2. QED
      BY <1>1, <2>1, CommitOutcome, SetsOfVars DEF Commits, None
  <1>7. CASE i = 7
    BY <1>1, <1>7, TableVars, TnrAsks DEF TypeInv, None
  <1>8. QED
    BY <1>1, <1>2, <1>3, <1>4, <1>5, <1>6, <1>7, TableVars

\* A command whose guard has just said FAIL is not sent, as long as the commit of that
\* judgement cannot fail.
THEOREM GuardBlocks == Spec => GuardFailBlocks
  <1> DEFINE Step == pc = "scan" /\ pc' = "env" /\ ctx'.pending = "exec_shell" =>
                         verdict' # "FAIL" \/ "raise" \in faults
  <1>1. TypeInv /\ [Next]_vars => [Step]_vars
    <2> SUFFICES ASSUME TypeInv, [Next]_vars, pc = "scan", pc' = "env",
                        ctx'.pending = "exec_shell"
                 PROVE  verdict' # "FAIL" \/ "raise" \in faults
      OBVIOUS
    <2>1. ScanStep
      BY DEF Next, Agent, Responds, Observe, ObserveNothing, Start, Plan, ScanEnds,
             SubmitResolved, TryAgain, SubmitBestEffort, Over, vars
    <2>2. PICK i \in Ahead : AtRow(i) /\ ResolverActs(i)
      BY <2>1 DEF ScanStep, AtRow, ResolverReturnsNone, ResolverRaises
    <2>3. PICK o \in Resolve(Table[i], ctx, board) :
              /\ ctx' = [o.ctx EXCEPT !.pending = o.act]
              /\ verdict' = IF o.verdict = None THEN verdict ELSE o.verdict
      BY <2>2 DEF ResolverActs, Apply
    <2>4. o.act = "exec_shell"
      BY <2>2, <2>3, ScanOutcome DEF Outcomes, Context
    <2>5. o \in Resolve("MITIGATION_EXECUTED", ctx, board)
      BY <2>2, <2>3, <2>4, CommandFromExecution
    <2>6. o.verdict \in {"skipped", "PASS"} \/ "raise" \in faults
      BY <2>4, <2>5, ExecutionJudged DEF TypeInv, TypeOK
    <2>7. QED
      BY <2>3, <2>6 DEF None
  <1>2. QED
    BY <1>1, InitType, TypeKept, PTL DEF Spec, GuardFailBlocks
===============================================================================
