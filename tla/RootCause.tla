------------------------------- MODULE RootCause -------------------------------
(***************************************************************************)
(* What the deterministic pipeline concludes from spans: alerts and the    *)
(* service they start from (detection), candidates and their confidence    *)
(* (rca), the causal and the live re-ranking (causal_ranker, synthesis),   *)
(* and the remedies of a ranking (mitigation).                             *)
(*                                                                         *)
(* Alert scores are in units of 0.001, confidences of 0.000001.            *)
(***************************************************************************)
EXTENDS Spans

CONSTANTS
    MaxDepth,      \* max_depth of the traversal, 5 in the code
    CausalSpans    \* the fewest spans two services are correlated on, 7 in the code

ASSUME RootCauseAssumption == MaxDepth \in Nat \ {0} /\ CausalSpans \in Nat

Unknown == "unknown"
-------------------------------------------------------------------------------
(* detect_all_anomalies.                                                   *)

ZThreshold == 3

ErrorThreshold == 500

\* Mutated: latency now is the mean of all spans.
CurrentZOfAll(spans, svc) == ZOf(spans, svc, SpansOf(spans, svc))

CurrentZ(spans, svc) == ZOf(spans, svc, Recent(spans, svc))

AnomalyTypes(spans, svc) ==
    {t \in {"latency_spike", "error_rate_high", "unknown_response_gap"} :
        \/ t = "latency_spike" /\ CurrentZ(spans, svc) >= ZThreshold
        \/ t = "error_rate_high" /\ ErrorRate(spans, svc) >= ErrorThreshold
        \/ t = "unknown_response_gap" /\ MostlyUnknown(spans, svc)}

\* score_anomaly.
AnomalyScore(spans, svc) ==
    40 * LatencySignal(spans, svc, Recent(spans, svc))
        + Rounded(45 * Min({10000, 2 * ErrorRate(spans, svc)}), 1000)
        + (IF MostlyUnknown(spans, svc) THEN 30 ELSE 0)

Alerted(spans, svc) ==
    LET types      == AnomalyTypes(spans, svc)
        strong     == types \cap {"latency_spike", "error_rate_high"} # {}
        meaningful == AnomalyScore(spans, svc) > 300
    IN  (strong \/ meaningful) /\ (types # {} \/ meaningful)

Alert(spans, svc) ==
    [svc |-> svc, score |-> AnomalyScore(spans, svc), types |-> AnomalyTypes(spans, svc)]

AlertsOf(spans) ==
    LET services == ServicesOf(spans)
        alerted == Pick(services, {i \in DOMAIN services : Alerted(spans, services[i])})
        alerts  == [i \in DOMAIN alerted |-> Alert(spans, alerted[i])]
    IN  SortedDown(alerts, [i \in DOMAIN alerts |-> alerts[i].score])

\* max(service_stats, key=error_rate): of the services with the highest, the first.
WorstService(spans) ==
    LET services == ServicesOf(spans)
        worst    == Max({ErrorRate(spans, svc) : svc \in Range(services)})
    IN  services[Min({i \in DOMAIN services : ErrorRate(spans, services[i]) = worst})]

PrimaryOf(alerts, spans) == IF alerts # <<>> THEN alerts[1].svc ELSE WorstService(spans)
-------------------------------------------------------------------------------
(* backward_bfs_traversal: the paths of calls that lead to a service, each *)
(* from that service backwards, as the queue completes them.               *)

MaxPaths == 200

Extensions(spans, path) ==
    LET callers == CallersOf(spans, Last(path))
        fresh   == Pick(callers, {i \in DOMAIN callers : callers[i] \notin Range(path)})
    IN  [i \in DOMAIN fresh |-> Append(path, fresh[i])]

Levels(spans, start) ==
    LET level[k \in 0..MaxDepth] ==
            IF k = 0 THEN <<<<start>>>>
            ELSE FlattenSeq([i \in DOMAIN level[k - 1] |-> Extensions(spans, level[k - 1][i])])
    IN  level

\* Mutated: a path as long as they get is dropped if it could grow.
EndsIfStuck(spans, k, path) == Extensions(spans, path) = <<>>

\* A path is complete when it can grow no more, or is as long as they get.
IsComplete(spans, k, path) == k = MaxDepth \/ Extensions(spans, path) = <<>>

CompletePaths(spans, start) ==
    LET level == Levels(spans, start)
    IN  FlattenSeq([k \in 1..MaxDepth |->
            Pick(level[k], {i \in DOMAIN level[k] : IsComplete(spans, k, level[k][i])})])

\* The search stops when it has as many as it wants.
BackwardPaths(spans, start) ==
    LET complete == CompletePaths(spans, start)
    IN  SubSeq(complete, 1, Min({Len(complete), MaxPaths}))

Visited(spans, start) ==
    {start} \cup UNION {Range(p) : p \in Range(BackwardPaths(spans, start))}

DepthOf(paths, svc) ==
    LET on == {k \in DOMAIN paths : svc \in Range(paths[k])}
        at == {d \in 1..MaxDepth : \E k \in on : /\ \A l \in on : k <= l
                                                /\ d < Len(paths[k]) /\ paths[k][d + 1] = svc}
    IN  Max({0} \cup at)
-------------------------------------------------------------------------------
(* score_candidate.                                                        *)

\* _adaptive_weights, in hundredths.
WeightsOf(alerts) ==
    LET of(t) == \E i \in DOMAIN alerts : t \in alerts[i].types
    IN  CASE of("error_rate_high") /\ ~of("latency_spike") ->
                [error |-> 50, latency |-> 15, alerts |-> 20]
          [] of("latency_spike") /\ ~of("error_rate_high") ->
                [error |-> 15, latency |-> 50, alerts |-> 20]
          [] OTHER -> [error |-> 35, latency |-> 35, alerts |-> 15]

\* The mean is of all spans of the service, the baseline of its requests; without
\* baselines there is no deviation.
LatencyComponent(spans, svc, baselines) ==
    IF baselines THEN 1000 * LatencySignal(spans, svc, SpansOf(spans, svc)) ELSE 0

VolumeScore(spans, svc) ==
    (10000 * Cardinality(SpansOf(spans, svc)))
        \div Max({1} \cup {Cardinality(SpansOf(spans, t)) : t \in Range(ServicesOf(spans))})

AlertScore(alerts, svc) ==
    Max({0} \cup {10 * alerts[i].score : i \in {j \in DOMAIN alerts : alerts[j].svc = svc}})

\* In units of 0.0001, as it is rounded.
Score(spans, alerts, baselines, svc, depth) ==
    LET w == WeightsOf(alerts)
    IN  Min({10000,
             Rounded(w.error * Min({10000, 3 * ErrorRate(spans, svc)})
                         + w.latency * LatencyComponent(spans, svc, baselines)
                         + w.alerts * AlertScore(alerts, svc)
                         + 10 * VolumeScore(spans, svc), 100)
                + Min({1500, 300 * depth})})

\* infer_silent_failures: a callee without errors whose calls take three quarters
\* of its caller's time.
SilentServices(spans) ==
    {e[2] : e \in {f \in CallEdges(spans) :
        LET calls  == CallsOf(spans, f)
            caller == SpansOf(spans, f[1])
        IN  /\ Total(spans, calls) > 0 /\ Total(spans, caller) > 0
            /\ 4 * Total(spans, calls) * Cardinality(caller)
                   >= 3 * Total(spans, caller) * Cardinality(calls)
            /\ ErrorRate(spans, f[2]) < 500}}

Candidate(spans, alerts, baselines, paths, svc) ==
    LET score == Score(spans, alerts, baselines, svc, DepthOf(paths, svc))
    IN  [svc  |-> svc,
         conf |-> IF svc \in SilentServices(spans)
                  THEN Min({1000000, 115 * score})
                  ELSE 100 * score]

CausesOf(ranked) == {ranked[i].svc : i \in DOMAIN ranked}

\* rca_node.  The visited services are a set of texts, whose order is the process's.
Ranking(spans, alerts, baselines, start, order) ==
    LET paths   == BackwardPaths(spans, start)
        visited == Visited(spans, start)
        found   == Pick(order, {i \in DOMAIN order : order[i] \in visited})
        candidates == [i \in DOMAIN found |->
            Candidate(spans, alerts, baselines, paths, found[i])]
    IN  SortedDown(candidates, [i \in DOMAIN candidates |-> candidates[i].conf])
-------------------------------------------------------------------------------
(* temporal_order_analysis and rerank_with_causality.                      *)

\* The earliest span of each service with an alert, an error or not.
FirstStart(spans, svc) == Min({spans[i].start : i \in SpansOf(spans, svc)})

TemporalOrder(spans, alerts) ==
    LET services == ServicesOf(spans)
        alerted  == Pick(services, {k \in DOMAIN services :
                                       \E i \in DOMAIN alerts : alerts[i].svc = services[k]})
    IN  SortedDown(alerted, [i \in DOMAIN alerted |-> -FirstStart(spans, alerted[i])])

TemporalPriority(order, svc) ==
    IF svc \notin Range(order) THEN 0
    ELSE LET i == CHOOSE k \in DOMAIN order : order[k] = svc
         IN  (1000000 * (Len(order) + 1 - i)) \div Len(order)

\* The scores of the lagged correlations are open: none, or 1 for some services.
Correlated(spans, ranked) ==
    LET long == {c.svc : c \in {d \in Range(ranked) :
                    Cardinality(SpansOf(spans, d.svc)) >= CausalSpans}}
    IN  IF Cardinality(long) < 2 THEN {{}} ELSE SUBSET long

\* Mutated: only the candidates that have a signal are returned.
CausalRankingOfSome(ranked, order, causes) ==
    SelectSeq(ranked, LAMBDA c : c.svc \in Range(order) \cup causes)

CausalRanking(ranked, order, causes) ==
    SortedDown(ranked, [i \in DOMAIN ranked |->
        2 * ranked[i].conf + TemporalPriority(order, ranked[i].svc)
            + (IF ranked[i].svc \in causes THEN 1000000 ELSE 0)])
-------------------------------------------------------------------------------
(* synthesis_agent_node: the model adjusts some confidences, and may name  *)
(* the root cause, which is moved to the front before the list is sorted.  *)

\* An adjusted confidence is clipped, and rounded to units of 0.0001.
Adjusted(c, reply) ==
    IF c.svc \notin DOMAIN reply.deltas THEN c
    ELSE [c EXCEPT !.conf =
             100 * Rounded(Max({0, Min({1000000, @ + reply.deltas[c.svc]})}), 100)]

Overridden(ranked, svc) ==
    LET named == {i \in DOMAIN ranked : ranked[i].svc = svc}
    IN  Pick(ranked, named) \o Pick(ranked, DOMAIN ranked \ named)

SynthesizedRanking(ranked, reply) ==
    LET moved == Overridden([i \in DOMAIN ranked |-> Adjusted(ranked[i], reply)], reply.override)
    IN  SortedDown(moved, [i \in DOMAIN moved |-> moved[i].conf])
-------------------------------------------------------------------------------
(* generate_mitigation_plan without past cases: the commands that change   *)
(* something, for the first three causes.                                  *)

RemediesFor(spans, svc) ==
    CASE ErrorRate(spans, svc) > 5000 -> {<<"restart", svc>>}
      [] ErrorRate(spans, svc) \in 1001..5000 -> {<<"scale", svc>>}
      [] OTHER -> {}

Plan(spans, ranked) ==
    UNION {RemediesFor(spans, ranked[i].svc) : i \in 1..Min({3, Len(ranked)})}
===============================================================================
