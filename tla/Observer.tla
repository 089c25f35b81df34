-------------------------------- MODULE Observer --------------------------------
(***************************************************************************)
(* ObserverAgent's parsers: what each makes of the telemetry on disk.      *)
(* Rows and lines are records; a source that is missing is an empty set.   *)
(*                                                                         *)
(* Relevances are in hundredths.  The code's logarithms are tables over    *)
(* small counts and the number of doublings of a ratio, rounded down.      *)
(***************************************************************************)
EXTENDS SequencesExt

CONSTANTS
    Services,    \* the names a service may go by
    Canonical,   \* what _canonical_svc makes of the name of a service
    Infra        \* _INFRA_SVCS

ASSUME ObserverAssumption ==
    /\ Canonical \in [Services -> Services]
    /\ Infra \subseteq Services

\* A name of three parts has the shape of a pod's and loses two of them; the pod of a
\* service, on the other hand, keeps the service's name.
Span == [id : Nat, service : Services, parent : Nat, error : BOOLEAN, duration : Nat]
Pod == [service : Services, replica : Nat, status : {"healthy", "other"}, up : Nat, restarts : Nat]
Series == [metric : {"usage_cpu", "usage_mem", "spec"}, service : Services, values : Seq(Nat) \ {<<>>}]
Nobody == "none"
Line == [number : Nat, section : Services, words : SUBSET {"ERROR", "TIMEOUT"},
         refused : Services \cup {Nobody}]

Telemetry == {"traces", "pods", "metrics", "logs"}

Typed(t) ==
    /\ t["traces"] \subseteq Span /\ t["pods"] \subseteq Pod
    /\ t["metrics"] \subseteq Series /\ t["logs"] \subseteq Line

NoTelemetry == [source \in Telemetry |-> {}]

Only(t, sources) == [source \in Telemetry |-> IF source \in sources THEN t[source] ELSE {}]

\* The error names a signal carries.
Targets == {"HTTP_ERROR", "HIGH_LATENCY", "POD_UNHEALTHY", "HIGH_CPU", "HIGH_MEM",
            "LOG_ERROR", "TIMEOUT", "CONNECTION_REFUSED"}

\* No relevance is 0: the diagnoser would take that for none given, and read 1.
Signals == [source : Services, target : Targets, relevance : 10..100]

Signal(svc, target, relevance) == [source |-> svc, target |-> target, relevance |-> relevance]

\* _rel_log: the relevance of one, two, and three or more.
CountRelevance == [HTTP_ERROR |-> <<15, 24, 30>>, LOG_ERROR |-> <<15, 24, 30>>,
                   TIMEOUT |-> <<18, 28, 35>>, CONNECTION_REFUSED |-> <<18, 28, 35>>,
                   POD_UNHEALTHY |-> <<29, 46, 58>>]
MaxCount == 3

\* A signal for every service that events are blamed on, by their number.
Counted(target, blamed) ==
    {LET n == Cardinality({x \in DOMAIN blamed : blamed[x] = svc})
     IN  Signal(svc, target, CountRelevance[target][Min({n, MaxCount})]) :
        svc \in {blamed[x] : x \in DOMAIN blamed}}

\* round(log10(a / b) / 3): a tenth for every doubling of b, of which there is one.
RatioRelevance(a, b) == 10 * Max({1} \cup {k \in 2..10 : 2 ^ k * b <= a})
-------------------------------------------------------------------------------
(* parse_traces                                                            *)

SpanOwner(span) == Canonical[span.service]

Calls(spans) ==
    {<<SpanOwner(e[1]), SpanOwner(e[2])>> :
        e \in {p \in spans \X spans : p[1].id = p[2].parent /\ SpanOwner(p[1]) # SpanOwner(p[2])}}

\* Twice the median: the sum of the two durations in the middle.
Median2(spans) ==
    LET n == Cardinality(spans)
        Nth(k) == CHOOSE d \in {x.duration : x \in spans} :
                      /\ Cardinality({x \in spans : x.duration < d}) < k
                      /\ k <= Cardinality({x \in spans : x.duration <= d})
    IN  Nth((n + 1) \div 2) + Nth((n + 2) \div 2)

\* avg >= max(100, 2 * med)
Latencies(spans) ==
    LET Own(svc) == {x \in spans : SpanOwner(x) = svc}
        Total(svc) == SumFunction([x \in Own(svc) |-> x.duration])
        Count(svc) == Cardinality(Own(svc))
    IN  {Signal(svc, "HIGH_LATENCY",
                RatioRelevance(2 * Total(svc), Count(svc) * Max({Median2(spans), 2}))) :
            svc \in {s \in {SpanOwner(x) : x \in spans} :
                        Total(s) >= Count(s) * Max({100, Median2(spans)})}}

ParseTraces(spans) ==
    Counted("HTTP_ERROR", [x \in {y \in spans : y.error} |-> SpanOwner(x)]) \cup Latencies(spans)
-------------------------------------------------------------------------------
(* parse_kubectl                                                           *)

RestartActiveFloor == 8

\* Mutated: restarts an earlier fault left count.
BadPodEverRestarted(pod) == pod.status # "healthy" \/ pod.up = 0 \/ pod.restarts >= 3

BadPod(pod) == pod.status # "healthy" \/ pod.up = 0 \/ pod.restarts >= RestartActiveFloor

ParseKubectl(pods) ==
    Counted("POD_UNHEALTHY", [x \in {y \in pods : BadPod(y) /\ y.service \notin Infra} |-> x.service])
-------------------------------------------------------------------------------
(* parse_metrics                                                           *)

\* Limits and quotas are not usage.
UsageKind == [usage_cpu |-> "HIGH_CPU", usage_mem |-> "HIGH_MEM", spec |-> ""]

Usage(samples) == {x \in samples : UsageKind[x.metric] # ""}

Total(values) == SumFunction(values)

\* A service at twice the mean of its metric, over all services.
CrossSectionalOutliers(samples) ==
    LET Peers(x) == {y \in samples : y.metric = x.metric}
        Sum(x) == SumFunction([y \in Peers(x) |-> Total(y.values)])
        Points(x) == SumFunction([y \in Peers(x) |-> Len(y.values)])
        Peak(x) == Max(ToSet(x.values))
    IN  {Signal(x.service, UsageKind[x.metric], RatioRelevance(Peak(x) * Points(x), Sum(x))) :
            x \in {y \in Usage(samples) : Sum(y) > 0 /\ Peak(y) * Points(y) >= 2 * Sum(y)}}

MinPoints == 6
CurrentPoints(n) == Min({Max({3, (3 * n) \div 10}), n - 3})

\* |z| >= level of the mean of the last points against the mean and the deviation
\* (at least a twentieth of the mean) of those before, all multiplied out.
Shifted(values, level) ==
    LET m == CurrentPoints(Len(values))
        n == Len(values) - m
        baseline == SubSeq(values, 1, n)
        b == Total(baseline)
        c == Total(SubSeq(values, n + 1, n + m))
        squares == Total([i \in 1..n |-> baseline[i] * baseline[i]])
        gap == c * n - b * m
    IN  400 * gap * gap >= level * level * m * m * Max({400 * (n * squares - b * b), b * b})

\* Relevance is a quarter of log2(1 + |z|).
ShiftRelevance == [z \in {3, 7, 15} |-> CASE z = 3 -> 50 [] z = 7 -> 75 [] z = 15 -> 100]

\* A service whose own history just changed; one that was at zero has none.
TemporalOutliers(samples) ==
    LET History(x) == SubSeq(x.values, 1, Len(x.values) - CurrentPoints(Len(x.values)))
        Judged == {x \in Usage(samples) :
                      Len(x.values) >= MinPoints /\ Total(History(x)) # 0 /\ Shifted(x.values, 3)}
        Level(x) == Max({z \in DOMAIN ShiftRelevance : Shifted(x.values, z)})
    IN  {Signal(x.service, UsageKind[x.metric], ShiftRelevance[Level(x)]) : x \in Judged}

\* _flag_metric_outliers: the stronger of the two for each service and kind.
ParseMetrics(samples) ==
    LET all == CrossSectionalOutliers(samples) \cup TemporalOutliers(samples)
    IN  {g \in all : \A h \in all : h.source = g.source /\ h.target = g.target
                                    => h.relevance <= g.relevance}
-------------------------------------------------------------------------------
(* parse_logs                                                              *)

LineOwner(line) == Canonical[line.section]
Callee(line) == Canonical[line.refused]

\* A refusal is the callee's, whoever logs it.
ParseLogs(lines) ==
    LET read == {x \in lines : LineOwner(x) \notin Infra}
        refusals == {x \in read : x.refused # Nobody}
        Saying(word) == {x \in read : word \in x.words}
    IN  Counted("LOG_ERROR", [x \in Saying("ERROR") |-> LineOwner(x)])
        \cup Counted("TIMEOUT", [x \in Saying("TIMEOUT") |-> LineOwner(x)])
        \cup Counted("CONNECTION_REFUSED",
                     [x \in {y \in refusals : Callee(y) \notin Infra} |-> Callee(x)])
-------------------------------------------------------------------------------
Evidence == [signals : SUBSET Signals, calls : SUBSET (Services \X Services)]

NoEvidence == [signals |-> {}, calls |-> {}]

\* What each parser finds, and the evidence of those that did not fail.
Found(t) ==
    [traces |-> ParseTraces(t["traces"]), pods |-> ParseKubectl(t["pods"]),
     metrics |-> ParseMetrics(t["metrics"]), logs |-> ParseLogs(t["logs"])]

Parsed(t, found, sources) ==
    [signals |-> UNION {found[source] : source \in sources},
     calls |-> IF "traces" \in sources THEN Calls(t["traces"]) ELSE {}]

Flagged(signals) == {g.source : g \in signals}
===============================================================================
