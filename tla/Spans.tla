--------------------------------- MODULE Spans ---------------------------------
(***************************************************************************)
(* What the pipeline reads off a trace file before it diagnoses anything:  *)
(* deduplication (ingest_tools.py), statistics per service, the call graph *)
(* (graph_tools.py) and the latency baselines (detection_tools.py).        *)
(*                                                                         *)
(* A row is a record of trace, id, parent, svc, start, dur, err, code and  *)
(* request (does a request handler's operation name it).  0 stands for a   *)
(* trace, id, parent or start time that is missing, and for a parent ROOT. *)
(* code is "ok", "unknown" or "5xx".  Rates are in units of 0.0001.        *)
(***************************************************************************)
EXTENDS Ordering

Rounded(a, b) == (2 * a + b) \div (2 * b)

-------------------------------------------------------------------------------
(* deduplicate_spans.  A row without an id has a key of its other fields,  *)
(* which strips the start time as if it were a text: a number raises.      *)

StatusOf(row) == IF row.err THEN "error" ELSE row.code

Key(row) == IF row.id # 0
            THEN <<row.trace, row.id>>
            ELSE <<row.trace, row.parent, row.svc, row.request, row.dur, StatusOf(row)>>

KeyRaises(row) == row.id = 0 /\ row.start # 0

Ingestible(rows) == rows # <<>> /\ \A i \in DOMAIN rows : ~KeyRaises(rows[i])

Deduplicated(rows) ==
    Pick(rows, {i \in DOMAIN rows : \A j \in 1..(i - 1) : Key(rows[j]) # Key(rows[i])})
-------------------------------------------------------------------------------
(* compute_stats.  The services are in the order of their first spans.     *)

ServicesOf(spans) == Distinct([i \in DOMAIN spans |-> spans[i].svc])

SpansOf(spans, svc) == {i \in DOMAIN spans : spans[i].svc = svc}

IsError(span) == span.err \/ span.code = "5xx"

ErrorRate(spans, svc) ==
    LET errors == {i \in SpansOf(spans, svc) : IsError(spans[i])}
    IN  IF SpansOf(spans, svc) = {}
        THEN 0
        ELSE Rounded(10000 * Cardinality(errors), Cardinality(SpansOf(spans, svc)))

\* unknown_response_pct > 80
MostlyUnknown(spans, svc) ==
    100 * Cardinality({i \in SpansOf(spans, svc) : spans[i].code = "unknown"})
        > 80 * Cardinality(SpansOf(spans, svc))

\* The durations of the spans in S, added in their order.
Total(spans, S) ==
    LET upto[k \in 0..Len(spans)] ==
            IF k = 0 THEN 0 ELSE upto[k - 1] + (IF k \in S THEN spans[k].dur ELSE 0)
    IN  upto[Len(spans)]
-------------------------------------------------------------------------------
(* build_dag.  The map from ids to spans forgets the trace and keeps the   *)
(* last span of an id, whichever trace it is in.                           *)

ParentsOf(spans, i) ==
    LET named == {j \in DOMAIN spans : spans[j].id # 0 /\ spans[j].id = spans[i].parent}
    IN  IF named = {} THEN {} ELSE {Max(named)}

\* The spans that stand for the calls of a pair of services.
CallsOf(spans, edge) ==
    {i \in SpansOf(spans, edge[2]) :
        \E j \in ParentsOf(spans, i) : spans[j].svc = edge[1] /\ edge[1] # edge[2]}

CallEdges(spans) ==
    {e \in Range(ServicesOf(spans)) \X Range(ServicesOf(spans)) : CallsOf(spans, e) # {}}

\* G.predecessors: the callers, in the order of their first calls.
CallersOf(spans, svc) ==
    LET Others(i) == {spans[j].svc : j \in ParentsOf(spans, i)} \ {svc}
        calls == Pick([i \in DOMAIN spans |-> i], {i \in SpansOf(spans, svc) : Others(i) # {}})
    IN  Distinct([k \in DOMAIN calls |-> CHOOSE p \in Others(calls[k]) : TRUE])
-------------------------------------------------------------------------------
(* compute_ewma_baseline with alpha 0.3, exactly: the mean is mean / unit, *)
(* the variance var / (10 * unit^2), and unit 10 to the values beyond the  *)
(* first.                                                                  *)

Updated(base, dur) ==
    LET mean == 3 * dur * base.unit + 7 * base.mean
        diff == 10 * dur * base.unit - mean
    IN  [unit |-> 10 * base.unit, mean |-> mean, var |-> 3 * diff * diff + 70 * base.var]

Ewma(series) ==
    LET base[k \in DOMAIN series] ==
            IF k = 1 THEN [unit |-> 1, mean |-> series[1], var |-> 0]
            ELSE Updated(base[k - 1], series[k])
    IN  base[Len(series)]

\* The spans a baseline is made of: the request handlers', if there are two.
BaselineSpans(spans, svc) ==
    LET requests == {i \in SpansOf(spans, svc) : spans[i].request}
    IN  IF Cardinality(requests) < 2 THEN SpansOf(spans, svc) ELSE requests

\* The spans of S in the order of their start times.
InTime(spans, S) ==
    LET kept == Pick([i \in DOMAIN spans |-> i], S)
    IN  SortedDown(kept, [k \in DOMAIN kept |-> -spans[kept[k]].start])

LastOf(seq, n) == SubSeq(seq, Max({1, Len(seq) - n + 1}), Len(seq))

\* The last hundred of them.
Window(spans, svc) == LastOf(InTime(spans, BaselineSpans(spans, svc)), 100)

Baseline(spans, svc) ==
    LET at == Window(spans, svc) IN Ewma([k \in DOMAIN at |-> spans[at[k]].dur])

\* And the last ten: what latency is now.
Recent(spans, svc) == Range(LastOf(Window(spans, svc), 10))

\* How many deviations the mean of n durations is from the baseline, rounded
\* down and at most 10; without a deviation, any difference counts as 10.
ZScore(total, n, base) ==
    LET diff == total * base.unit - n * base.mean
    IN  IF base.var = 0
        THEN IF diff = 0 THEN 0 ELSE 10
        ELSE Max({0} \cup {z \in 1..10 : 10 * diff * diff >= z * z * n * n * base.var})

\* Whether it is more than two.
Deviates(total, n, base) ==
    LET diff == total * base.unit - n * base.mean
    IN  diff # 0 /\ 10 * diff * diff > 4 * n * n * base.var

ZOf(spans, svc, S) == ZScore(Total(spans, S), Cardinality(S), Baseline(spans, svc))

\* A latency counts from more than two deviations on, in tenths.
LatencySignal(spans, svc, S) ==
    IF Deviates(Total(spans, S), Cardinality(S), Baseline(spans, svc))
    THEN ZOf(spans, svc, S) ELSE 0
===============================================================================
