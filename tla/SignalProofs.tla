----------------------------- MODULE SignalProofs ------------------------------
(***************************************************************************)
(* What the deterministic half of the swarm computes, for any telemetry:   *)
(* the signals the parsers find are signals, there are none where there is *)
(* no fault; nobody is ranked without one, the first of a ranking has one  *)
(* whatever labels the model gives, and a caller that shows what its       *)
(* callee shows comes behind it.                                           *)
(***************************************************************************)
EXTENDS Diagnosis, CountingProofs, SequenceTheorems

\* There are finitely many services, and none goes by the name of an error.
ServicesAreNames == IsFiniteSet(Services) /\ Token \notin Services
-------------------------------------------------------------------------------
(* What the parsers find.                                                  *)

\* A range of integers is finite.
LEMMA RangeIsFinite == \A a, b \in Int : IsFiniteSet(a..b)
  BY FS_Interval

\* The relevance of a ratio.
LEMMA RatioInRange ==
    ASSUME NEW a, NEW b
    PROVE  RatioRelevance(a, b) \in 10..100
  <1> DEFINE S == {1} \cup {k \in 2..10 : 2 ^ k * b <= a}
  <1>1. S \in SUBSET (1..10)
    OBVIOUS
  <1>2. IsFiniteSet(1..10)
    <2>1. PICK low, high \in Int : low = 1 /\ high = 10
      OBVIOUS
    <2>2. IsFiniteSet(low..high)
      BY RangeIsFinite
    <2>3. QED
      BY <2>1, <2>2
  <1>3. IsFiniteSet(S) /\ S \in SUBSET Int /\ S # {}
    BY <1>1, <1>2, FS_Subset
  <1>4. RatioRelevance(a, b) = 10 * Max(S)
    BY DEF RatioRelevance
  <1> HIDE DEF S
  <1>5. Max(S) \in 1..10
    BY <1>1, <1>3, GreatestOf
  <1>6. QED
    BY <1>4, <1>5

\* The error names whose relevance is a matter of how often they occur.
CountedTargets == {"HTTP_ERROR", "LOG_ERROR", "TIMEOUT", "CONNECTION_REFUSED", "POD_UNHEALTHY"}

\* The signals of counted events.
LEMMA CountedAreSignals ==
    ASSUME NEW target \in CountedTargets, NEW blamed, IsFiniteSet(DOMAIN blamed),
           \A x \in DOMAIN blamed : blamed[x] \in Services
    PROVE  Counted(target, blamed) \subseteq Signals
  <1> DEFINE by(svc) == {x \in DOMAIN blamed : blamed[x] = svc}
             n(svc) == Cardinality(by(svc))
  <1>1. \A x \in DOMAIN blamed : n(blamed[x]) \in Nat \ {0}
    <2> TAKE x \in DOMAIN blamed
    <2>1. IsFiniteSet(by(blamed[x])) /\ by(blamed[x]) # {}
      BY FS_Subset
    <2>2. QED
      BY <2>1, FS_CardinalityType, FS_EmptySet
  <1>2. \A k \in Nat \ {0} : Min({k, MaxCount}) \in 1..3
    <2> TAKE k \in Nat \ {0}
    <2>1. MaxCount \in Int /\ MaxCount = 3
      BY DEF MaxCount
    <2>2. Min({k, MaxCount}) \in {k, MaxCount} /\ Min({k, MaxCount}) <= MaxCount
      BY <2>1, LesserOf
    <2>3. QED
      BY <2>1, <2>2
  <1>3. \A k \in 1..3 : CountRelevance[target][k] \in 10..100
    <2> TAKE k \in 1..3
    <2>1. k = 1 \/ k = 2 \/ k = 3
      OBVIOUS
    <2>2. QED
      BY <2>1 DEF CountRelevance, CountedTargets
  <1>4. target \in Targets
    BY DEF CountedTargets, Targets
  <1>5. \A x \in DOMAIN blamed :
            Signal(blamed[x], target, CountRelevance[target][Min({n(blamed[x]), MaxCount})]) \in Signals
    <2> HIDE DEF n
    <2> TAKE x \in DOMAIN blamed
    <2>1. CountRelevance[target][Min({n(blamed[x]), MaxCount})] \in 10..100
      BY <1>1, <1>2, <1>3
    <2>2. QED
      BY <1>4, <2>1 DEF Signal, Signals
  <1>6. QED
    BY <1>5 DEF Counted

\* The signals of the traces.
LEMMA TracesGiveSignals ==
    ASSUME ObserverAssumption, NEW spans \in SUBSET Span, IsFiniteSet(spans)
    PROVE  ParseTraces(spans) \subseteq Signals
  <1>1. \A x \in spans : SpanOwner(x) \in Services
    BY DEF ObserverAssumption, SpanOwner, Span
  <1> DEFINE failed == {y \in spans : y.error}
             blamed == [x \in failed |-> SpanOwner(x)]
  <1>2. IsFiniteSet(failed)
    BY FS_Subset
  <1>3. Counted("HTTP_ERROR", blamed) \subseteq Signals
    <2>1. IsFiniteSet(DOMAIN blamed) /\ \A x \in DOMAIN blamed : blamed[x] \in Services
      BY <1>1, <1>2
    <2>2. "HTTP_ERROR" \in CountedTargets
      BY DEF CountedTargets
    <2> HIDE DEF blamed
    <2>3. QED
      BY <2>1, <2>2, CountedAreSignals
  <1>4. Latencies(spans) \subseteq Signals
    <2>1. \A svc \in Services : \A a, b : Signal(svc, "HIGH_LATENCY", RatioRelevance(a, b)) \in Signals
      BY RatioInRange DEF Signal, Signals, Targets
    <2>2. \A g \in Latencies(spans) :
             \E svc \in {SpanOwner(x) : x \in spans} : \E a, b :
                 g = Signal(svc, "HIGH_LATENCY", RatioRelevance(a, b))
      BY DEF Latencies
    <2>3. QED
      BY <1>1, <2>1, <2>2
  <1>5. QED
    BY <1>3, <1>4 DEF ParseTraces

\* The signals of the pods.
LEMMA PodsGiveSignals ==
    ASSUME NEW pods \in SUBSET Pod, IsFiniteSet(pods)
    PROVE  ParseKubectl(pods) \subseteq Signals
  <1> DEFINE bad == {y \in pods : BadPod(y) /\ y.service \notin Infra}
             blamed == [x \in bad |-> x.service]
  <1>1. IsFiniteSet(DOMAIN blamed)
    BY FS_Subset
  <1>2. \A x \in DOMAIN blamed : blamed[x] \in Services
    BY DEF Pod
  <1>3. "POD_UNHEALTHY" \in CountedTargets
    BY DEF CountedTargets
  <1>4. ParseKubectl(pods) = Counted("POD_UNHEALTHY", blamed)
    BY DEF ParseKubectl
  <1> HIDE DEF blamed
  <1>5. QED
    BY <1>1, <1>2, <1>3, <1>4, CountedAreSignals

\* The signals of the logs.
LEMMA LogsGiveSignals ==
    ASSUME ObserverAssumption, NEW lines \in SUBSET Line, IsFiniteSet(lines)
    PROVE  ParseLogs(lines) \subseteq Signals
  <1> DEFINE read == {x \in lines : LineOwner(x) \notin Infra}
             saying(word) == {x \in read : word \in x.words}
             refused == {y \in {x \in read : x.refused # Nobody} : Callee(y) \notin Infra}
             errors == [x \in saying("ERROR") |-> LineOwner(x)]
             timeouts == [x \in saying("TIMEOUT") |-> LineOwner(x)]
             refusals == [x \in refused |-> Callee(x)]
  <1>1. IsFiniteSet(DOMAIN errors) /\ IsFiniteSet(DOMAIN timeouts) /\ IsFiniteSet(DOMAIN refusals)
    BY FS_Subset
  <1>2. /\ \A x \in DOMAIN errors : errors[x] \in Services
        /\ \A x \in DOMAIN timeouts : timeouts[x] \in Services
    BY DEF ObserverAssumption, LineOwner, Line
  <1>3. \A x \in DOMAIN refusals : refusals[x] \in Services
    BY DEF ObserverAssumption, Callee, Line
  <1>4. /\ "LOG_ERROR" \in CountedTargets /\ "TIMEOUT" \in CountedTargets
        /\ "CONNECTION_REFUSED" \in CountedTargets
    BY DEF CountedTargets
  <1>5. ParseLogs(lines) = Counted("LOG_ERROR", errors) \cup Counted("TIMEOUT", timeouts)
                               \cup Counted("CONNECTION_REFUSED", refusals)
    BY DEF ParseLogs
  <1> HIDE DEF errors, timeouts, refusals
  <1>6. /\ Counted("LOG_ERROR", errors) \subseteq Signals
        /\ Counted("TIMEOUT", timeouts) \subseteq Signals
        /\ Counted("CONNECTION_REFUSED", refusals) \subseteq Signals
    BY <1>1, <1>2, <1>3, <1>4, CountedAreSignals
  <1>7. QED
    BY <1>5, <1>6

\* The signals of the metrics.
LEMMA MetricsGiveSignals ==
    ASSUME NEW samples \in SUBSET Series
    PROVE  ParseMetrics(samples) \subseteq Signals
  <1>1. \A x \in Usage(samples) : x.service \in Services /\ UsageKind[x.metric] \in Targets
    <2> TAKE x \in Usage(samples)
    <2>1. x \in Series /\ UsageKind[x.metric] # ""
      BY DEF Usage
    <2>2. x.service \in Services /\ x.metric \in {"usage_cpu", "usage_mem", "spec"}
      BY <2>1 DEF Series
    <2>3. UsageKind["spec"] = "" /\ UsageKind["usage_cpu"] = "HIGH_CPU"
                                 /\ UsageKind["usage_mem"] = "HIGH_MEM"
      BY DEF UsageKind
    <2>4. UsageKind[x.metric] \in {"HIGH_CPU", "HIGH_MEM"}
      BY <2>1, <2>2, <2>3
    <2>5. QED
      BY <2>2, <2>4 DEF Targets
  <1>2. CrossSectionalOutliers(samples) \subseteq Signals
    <2>1. \A x \in Usage(samples) : \A a, b :
              Signal(x.service, UsageKind[x.metric], RatioRelevance(a, b)) \in Signals
      BY <1>1, RatioInRange DEF Signal, Signals
    <2>2. \A g \in CrossSectionalOutliers(samples) : \E x \in Usage(samples) : \E a, b :
              g = Signal(x.service, UsageKind[x.metric], RatioRelevance(a, b))
      BY DEF CrossSectionalOutliers
    <2>3. QED
      BY <2>1, <2>2
  <1>3. TemporalOutliers(samples) \subseteq Signals
    <2> DEFINE levels(x) == {z \in DOMAIN ShiftRelevance : Shifted(x.values, z)}
    <2>1. DOMAIN ShiftRelevance = {3, 7, 15}
      BY DEF ShiftRelevance
    <2>2. \A z \in {3, 7, 15} : ShiftRelevance[z] \in 10..100
      BY DEF ShiftRelevance
    <2>3. \A x : Shifted(x.values, 3) => Max(levels(x)) \in {3, 7, 15}
      <3> TAKE x
      <3> HAVE Shifted(x.values, 3)
      <3> DEFINE L == levels(x)
      <3>1. L \in SUBSET (3..15) /\ L # {} /\ L \subseteq {3, 7, 15}
        BY <2>1
      <3>2. IsFiniteSet(3..15)
        <4>1. PICK low, high \in Int : low = 3 /\ high = 15
          OBVIOUS
        <4>2. IsFiniteSet(low..high)
          BY RangeIsFinite
        <4>3. QED
          BY <4>1, <4>2
      <3> HIDE DEF L
      <3>3. IsFiniteSet(L)
        BY <3>1, <3>2, FS_Subset
      <3>4. L \in SUBSET Int
        BY <3>1
      <3>5. Max(L) \in L
        BY <3>1, <3>3, <3>4, GreatestOf
      <3>6. QED
        BY <3>1, <3>5 DEF L
    <2>4. \A g \in TemporalOutliers(samples) : \E x \in Usage(samples) :
              /\ Shifted(x.values, 3)
              /\ g = Signal(x.service, UsageKind[x.metric], ShiftRelevance[Max(levels(x))])
      BY DEF TemporalOutliers
    <2> HIDE DEF levels
    <2>5. QED
      BY <1>1, <2>2, <2>3, <2>4 DEF Signal, Signals
  <1>4. QED
    BY <1>2, <1>3 DEF ParseMetrics

\* What the agent has collected: rows of their types, and finitely many.
Collectable(t) == Typed(t) /\ \A source \in Telemetry : IsFiniteSet(t[source])

\* What the observer makes of it is evidence.
THEOREM ParsedIsEvidence ==
    ASSUME ObserverAssumption, NEW t, Collectable(t), NEW sources \in SUBSET Telemetry
    PROVE  Parsed(t, Found(t), sources) \in Evidence
  <1> DEFINE found == Found(t)
  <1>1. /\ t["traces"] \in SUBSET Span /\ IsFiniteSet(t["traces"])
        /\ t["pods"] \in SUBSET Pod /\ IsFiniteSet(t["pods"])
        /\ t["metrics"] \in SUBSET Series
        /\ t["logs"] \in SUBSET Line /\ IsFiniteSet(t["logs"])
    BY DEF Collectable, Typed, Telemetry
  <1>2. /\ found["traces"] = ParseTraces(t["traces"]) /\ found["pods"] = ParseKubectl(t["pods"])
        /\ found["metrics"] = ParseMetrics(t["metrics"]) /\ found["logs"] = ParseLogs(t["logs"])
    BY DEF Found
  <1>3. /\ found["traces"] \subseteq Signals /\ found["pods"] \subseteq Signals
        /\ found["metrics"] \subseteq Signals /\ found["logs"] \subseteq Signals
    BY <1>1, <1>2, TracesGiveSignals, PodsGiveSignals, MetricsGiveSignals, LogsGiveSignals
  <1>4. \A source \in sources : found[source] \subseteq Signals
    BY <1>3 DEF Telemetry
  <1>5. Calls(t["traces"]) \subseteq Services \X Services
    <2>1. \A x \in t["traces"] : SpanOwner(x) \in Services
      BY <1>1 DEF ObserverAssumption, SpanOwner, Span
    <2>2. \A c \in Calls(t["traces"]) :
              \E x, y \in t["traces"] : c = <<SpanOwner(x), SpanOwner(y)>>
      BY DEF Calls
    <2>3. QED
      BY <2>1, <2>2
  <1> HIDE DEF found
  <1>6. UNION {found[source] : source \in sources} \subseteq Signals
    BY <1>4
  <1>7. QED
    BY <1>5, <1>6 DEF Parsed, Evidence, found

\* There are finitely many signals.
LEMMA SignalsAreFinite ==
    ASSUME IsFiniteSet(Services)
    PROVE  IsFiniteSet(Signals)
  <1> DEFINE Parts == (Services \X Targets) \X (10..100)
             whole == [p \in Parts |-> [source |-> p[1][1], target |-> p[1][2], relevance |-> p[2]]]
  <1>1. IsFiniteSet(Targets)
    <2>1. \A S, x : IsFiniteSet(S) => IsFiniteSet(S \cup {x})
      BY FS_AddElement
    <2>2. IsFiniteSet({} \cup {"HTTP_ERROR"} \cup {"HIGH_LATENCY"} \cup {"POD_UNHEALTHY"}
                         \cup {"HIGH_CPU"})
      BY <2>1, FS_EmptySet
    <2>3. IsFiniteSet(({} \cup {"HTTP_ERROR"} \cup {"HIGH_LATENCY"} \cup {"POD_UNHEALTHY"}
                          \cup {"HIGH_CPU"}) \cup {"HIGH_MEM"} \cup {"LOG_ERROR"} \cup {"TIMEOUT"}
                          \cup {"CONNECTION_REFUSED"})
      BY <2>1, <2>2
    <2>4. QED
      BY <2>3 DEF Targets
  <1>2. IsFiniteSet(10..100)
    <2>1. PICK low, high \in Int : low = 10 /\ high = 100
      OBVIOUS
    <2>2. IsFiniteSet(low..high)
      BY RangeIsFinite
    <2>3. QED
      BY <2>1, <2>2
  <1>3. IsFiniteSet(Parts)
    <2>1. IsFiniteSet(Services \X Targets)
      BY <1>1, FS_Product
    <2>2. QED
      BY <1>2, <2>1, FS_Product
  <1>4. whole \in [Parts -> Signals]
    BY DEF Signals
  <1>5. \A g \in Signals : \E p \in Parts : whole[p] = g
    <2> TAKE g \in Signals
    <2>1. /\ g = [source |-> g.source, target |-> g.target, relevance |-> g.relevance]
          /\ g.source \in Services /\ g.target \in Targets /\ g.relevance \in 10..100
      BY DEF Signals
    <2>2. <<<<g.source, g.target>>, g.relevance>> \in Parts
      BY <2>1
    <2>3. whole[<<<<g.source, g.target>>, g.relevance>>] = g
      BY <2>1, <2>2
    <2>4. QED
      BY <2>2, <2>3
  <1>6. whole \in Surjection(Parts, Signals)
    <2> HIDE DEF whole, Parts
    <2>1. QED
      BY <1>4, <1>5 DEF Surjection
  <1>7. QED
    <2> HIDE DEF whole, Parts
    <2>1. QED
      BY <1>3, <1>6, FS_Surjection

-------------------------------------------------------------------------------
(* Where there is no fault.                                              *)

\* Nothing found is nothing wrong.
LEMMA FreshIsQuiet == Anomalous({}) = FALSE
  <1>1. DecisiveSignals({}) = {} /\ OverFloor({}) = {}
    BY DEF DecisiveSignals, OverFloor
  <1>2. ~Anomalous({})
    BY <1>1 DEF Anomalous
  <1>3. Anomalous({}) \in BOOLEAN
    BY DEF Anomalous
  <1>4. QED
    BY <1>2, <1>3

\* Nothing is counted of no event.
LEMMA NothingCounted ==
    ASSUME NEW target, NEW blamed, DOMAIN blamed = {}
    PROVE  Counted(target, blamed) = {}
  BY DEF Counted

\* The k-th of the durations, in their order.
NthDuration(spans, k) ==
    CHOOSE d \in {x.duration : x \in spans} :
        /\ Cardinality({x \in spans : x.duration < d}) < k
        /\ k <= Cardinality({x \in spans : x.duration <= d})

\* There is one for every place.
LEMMA NthIsDuration ==
    ASSUME NEW spans \in SUBSET Span, IsFiniteSet(spans), NEW k \in 1..Cardinality(spans)
    PROVE  NthDuration(spans, k) \in {x.duration : x \in spans}
  <1> DEFINE D == {x.duration : x \in spans}
             below(d) == {x \in spans : x.duration < d}
             upto(d) == {x \in spans : x.duration <= d}
             High == {d \in D : k <= Cardinality(upto(d))}
  <1>1. D \in SUBSET Int /\ IsFiniteSet(D)
    <2> DEFINE durations == [x \in spans |-> x.duration]
    <2>1. durations \in Surjection(spans, D)
      BY DEF Surjection
    <2>2. IsFiniteSet(D)
      <3> HIDE DEF durations, D
      <3>1. QED
        BY <2>1, FS_Surjection
    <2>3. \A x \in spans : x.duration \in Int
      BY DEF Span
    <2>4. QED
      BY <2>2, <2>3
  <1>2. spans # {} /\ Cardinality(spans) \in Nat /\ k \in Int
    BY FS_CardinalityType, FS_EmptySet
  <1>3. D # {}
    BY <1>2
  <1>4. Max(D) \in High
    <2>1. Max(D) \in D /\ \A y \in D : Max(D) >= y
      <3> HIDE DEF D
      <3>1. QED
        BY <1>1, <1>3, GreatestOf
    <2>2. upto(Max(D)) = spans
      BY <1>1, <2>1
    <2>3. k <= Cardinality(upto(Max(D)))
      <3> HIDE DEF D, upto
      <3>1. QED
        BY <1>2, <2>2
    <2> HIDE DEF D, upto
    <2>4. QED
      BY <2>1, <2>3
  <1>5. PICK d \in High : \A y \in High : d <= y
    <2>1. High \in SUBSET Int /\ IsFiniteSet(High) /\ High # {}
      <3> HIDE DEF D, upto
      <3>1. QED
        BY <1>1, <1>4, FS_Subset
    <2> HIDE DEF High
    <2>2. QED
      BY <2>1, LeastOf
  <1>6. Cardinality(below(d)) < k
    <2>1. CASE below(d) = {}
      <3>1. Cardinality(below(d)) = 0
        BY <2>1, FS_EmptySet
      <3> HIDE DEF below
      <3>2. QED
        BY <3>1
    <2>2. CASE below(d) # {}
      <3> DEFINE Low == {y \in D : y < d}
      <3>1. Low \in SUBSET Int /\ IsFiniteSet(Low) /\ Low # {}
        <4>1. Low # {}
          BY <2>2
        <4>2. Low \in SUBSET D
          OBVIOUS
        <4> HIDE DEF D, Low
        <4>3. QED
          BY <1>1, <4>1, <4>2, FS_Subset
      <3>2. Max(Low) \in Low /\ \A y \in Low : Max(Low) >= y
        <4> HIDE DEF Low
        <4>1. QED
          BY <3>1, GreatestOf
      <3>3. below(d) = upto(Max(Low))
        <4>1. \A x \in spans : x.duration \in D /\ x.duration \in Int
          BY <1>1
        <4>2. d \in Int /\ Max(Low) \in Int /\ Max(Low) < d
          BY <1>1, <3>1, <3>2
        <4>3. \A x \in spans : x.duration < d => x.duration <= Max(Low)
          <5> TAKE x \in spans
          <5> HAVE x.duration < d
          <5>1. x.duration \in Low
            BY <4>1
          <5>2. QED
            BY <3>2, <4>1, <4>2, <5>1
        <4>4. \A x \in spans : x.duration <= Max(Low) => x.duration < d
          BY <4>1, <4>2
        <4>5. QED
          BY <4>3, <4>4
      <3>4. Max(Low) \in D /\ Max(Low) \in Int /\ d \in Int /\ Max(Low) < d
        BY <1>1, <3>1, <3>2
      <3>5. Max(Low) \notin High
        <4> HIDE DEF High, Low
        <4>1. QED
          BY <1>5, <3>4
      <3>6. ~(k <= Cardinality(upto(Max(Low))))
        BY <3>4, <3>5
      <3>7. Cardinality(below(d)) \in Nat
        BY FS_Subset, FS_CardinalityType
      <3> HIDE DEF below, upto, Low
      <3>8. QED
        BY <1>2, <3>3, <3>6, <3>7
    <2>3. QED
      BY <2>1, <2>2
  <1>7. d \in D /\ k <= Cardinality(upto(d))
    OBVIOUS
  <1>8. QED
    BY <1>6, <1>7 DEF NthDuration

\* Spans that all take less than twice as long as any other are none of them slow: every
\* duration is below the sum of the two in the middle.
THEOREM NoneIsSlow ==
    ASSUME ObserverAssumption, NEW spans \in SUBSET Span, IsFiniteSet(spans),
           \A x, y \in spans : x.duration < 2 * y.duration
    PROVE  Latencies(spans) = {}
  <1> DEFINE n == Cardinality(spans)
             Own(svc) == {x \in spans : SpanOwner(x) = svc}
             length(svc) == [x \in Own(svc) |-> x.duration]
  <1>1. SUFFICES ASSUME NEW z \in spans,
                        SumFunction(length(SpanOwner(z)))
                            >= Cardinality(Own(SpanOwner(z))) * Max({100, Median2(spans)})
                 PROVE  FALSE
    BY DEF Latencies
  <1> DEFINE own == Own(SpanOwner(z))
             len == length(SpanOwner(z))
  <1>2. n \in Nat /\ n # 0
    BY FS_CardinalityType, FS_EmptySet
  <1>3. (n + 1) \div 2 \in 1..n /\ (n + 2) \div 2 \in 1..n
    <2> HIDE DEF n
    <2>1. QED
      BY <1>2
  <1>4. PICK x, y \in spans : Median2(spans) = x.duration + y.duration
    <2> DEFINE k == (n + 1) \div 2
               l == (n + 2) \div 2
    <2>1. Median2(spans) = NthDuration(spans, k) + NthDuration(spans, l)
      BY DEF Median2, NthDuration
    <2> HIDE DEF k, l
    <2>2. k \in 1..n /\ l \in 1..n
      BY <1>3 DEF k, l
    <2>3. \A i \in 1..n : NthDuration(spans, i) \in {x.duration : x \in spans}
      BY NthIsDuration
    <2>4. QED
      BY <2>1, <2>2, <2>3
  <1>5. \A w \in spans : w.duration \in Nat
    BY DEF Span
  <1>6. Median2(spans) \in Nat
    BY <1>4, <1>5
  <1>7. \A w \in spans : w.duration < Median2(spans)
    <2> TAKE w \in spans
    <2>1. w.duration < 2 * x.duration /\ w.duration < 2 * y.duration
      OBVIOUS
    <2>2. w.duration \in Nat /\ x.duration \in Nat /\ y.duration \in Nat
      BY <1>5
    <2>3. QED
      BY <1>4, <2>1, <2>2
  <1>8. IsFiniteSet(own) /\ own # {} /\ \A w \in own : len[w] \in Nat /\ len[w] < Median2(spans)
    <2>1. IsFiniteSet(own)
      BY FS_Subset
    <2>2. \A w \in own : len[w] = w.duration
      OBVIOUS
    <2>3. QED
      BY <1>5, <1>7, <2>1, <2>2
  <1>9. SumFunction(len) = SumFunctionOnSet(len, own)
    BY DEF SumFunction
  <1>10. Cardinality(own) \in Nat
    BY <1>8, FS_CardinalityType
  <1>11. SumFunctionOnSet(len, own) \in Nat
    <2> HIDE DEF own, len
    <2>1. QED
      BY <1>8, SumIsCount
  <1>12. SumFunctionOnSet(len, own) < Median2(spans) * Cardinality(own)
    <2> HIDE DEF own, len
    <2>1. QED
      BY <1>6, <1>8, SumIsBelow
  <1>13. Max({100, Median2(spans)}) \in Nat /\ Max({100, Median2(spans)}) >= Median2(spans)
    <2>1. PICK hundred, m \in Int : hundred = 100 /\ m = Median2(spans)
      BY <1>6
    <2>2. Max({hundred, m}) \in {hundred, m} /\ Max({hundred, m}) >= m
      BY GreaterOf
    <2>3. Max({hundred, m}) \in Nat
      BY <1>6, <2>1, <2>2
    <2>4. QED
      BY <2>1, <2>2, <2>3
  <1>14. \A c, m, w, s \in Nat : w >= m /\ s < m * c => s < c * w
    <2> TAKE c, m, w, s \in Nat
    <2> HAVE w >= m /\ s < m * c
    <2>1. PICK d \in Nat : w = m + d
      <3>1. w - m \in Nat /\ w = m + (w - m)
        OBVIOUS
      <3>2. QED
        BY <3>1
    <2>2. c * w = m * c + c * d /\ c * d \in Nat /\ m * c \in Nat
      BY <2>1
    <2>3. QED
      BY <2>2
  <1> HIDE DEF own, len
  <1>15. SumFunctionOnSet(len, own) < Cardinality(own) * Max({100, Median2(spans)})
    BY <1>6, <1>10, <1>11, <1>12, <1>13, <1>14
  <1>16. Cardinality(own) * Max({100, Median2(spans)}) \in Nat
    BY <1>10, <1>13
  <1>17. SumFunction(len) >= Cardinality(own) * Max({100, Median2(spans)})
    BY <1>1 DEF own, len
  <1>18. QED
    BY <1>9, <1>11, <1>15, <1>16, <1>17

\* The values of a series, and their sum.
LEMMA SeriesHasValues ==
    ASSUME NEW x \in Series
    PROVE  /\ x.values \in Seq(Nat) /\ IsFiniteSet(DOMAIN x.values)
           /\ Len(x.values) \in Nat \ {0} /\ DOMAIN x.values = 1..Len(x.values)
           /\ Cardinality(DOMAIN x.values) = Len(x.values)
           /\ \A i \in DOMAIN x.values : x.values[i] \in Nat
           /\ Total(x.values) = SumFunctionOnSet(x.values, DOMAIN x.values)
           /\ Total(x.values) \in Nat
  <1>1. x.values \in Seq(Nat) /\ x.values # <<>>
    BY DEF Series
  <1>2. /\ Len(x.values) \in Nat \ {0} /\ DOMAIN x.values = 1..Len(x.values)
        /\ \A i \in DOMAIN x.values : x.values[i] \in Nat
    BY <1>1
  <1>3. IsFiniteSet(DOMAIN x.values) /\ Cardinality(DOMAIN x.values) = Len(x.values)
    BY <1>1, IndicesAreFinite
  <1>4. Total(x.values) = SumFunctionOnSet(x.values, DOMAIN x.values)
    BY DEF Total, SumFunction
  <1>5. SumFunctionOnSet(x.values, DOMAIN x.values) \in Nat
    BY <1>2, <1>3, SumIsCount
  <1>6. QED
    BY <1>1, <1>2, <1>3, <1>4, <1>5

\* Values short of twice any other of their metric are short of twice the mean.
LEMMA NoneIsOutlying ==
    ASSUME NEW samples \in SUBSET Series, IsFiniteSet(samples),
           \A x, y \in samples : \A i \in DOMAIN x.values, j \in DOMAIN y.values :
              x.metric = y.metric => x.values[i] < 2 * y.values[j]
    PROVE  CrossSectionalOutliers(samples) = {}
  <1> DEFINE Peers(x) == {y \in samples : y.metric = x.metric}
             sums(x) == [y \in Peers(x) |-> Total(y.values)]
             lengths(x) == [y \in Peers(x) |-> Len(y.values)]
             Peak(x) == Max(ToSet(x.values))
  <1>1. SUFFICES ASSUME NEW z \in samples,
                        Peak(z) * SumFunction(lengths(z)) >= 2 * SumFunction(sums(z))
                 PROVE  FALSE
    BY DEF CrossSectionalOutliers, Usage
  <1> DEFINE peers == Peers(z)
             sum == sums(z)
             count == lengths(z)
             peak == Peak(z)
  <1>2. IsFiniteSet(peers) /\ z \in peers
    BY FS_Subset
  <1>3. PICK i \in DOMAIN z.values : peak = z.values[i]
    <2> DEFINE V == ToSet(z.values)
    <2>1. z \in Series
      OBVIOUS
    <2>2. V = {z.values[i] : i \in DOMAIN z.values}
      BY DEF ToSet
    <2>3. V \in SUBSET Int /\ V # {}
      <3>1. 1 \in DOMAIN z.values /\ \A i \in DOMAIN z.values : z.values[i] \in Int
        BY <2>1, SeriesHasValues
      <3> HIDE DEF V
      <3>2. QED
        BY <2>2, <3>1
    <2>4. IsFiniteSet(V)
      <3> DEFINE value == [i \in DOMAIN z.values |-> z.values[i]]
      <3>1. value \in Surjection(DOMAIN z.values, V)
        BY <2>2 DEF Surjection
      <3> HIDE DEF value, V
      <3>2. QED
        BY <2>1, <3>1, SeriesHasValues, FS_Surjection
    <2>5. Max(V) \in V
      <3> HIDE DEF V
      <3>1. QED
        BY <2>3, <2>4, GreatestOf
    <2>6. QED
      BY <2>2, <2>5
  <1>4. peak \in Nat
    BY <1>3, SeriesHasValues
  <1>5. \A y \in peers : /\ sum[y] \in Nat /\ count[y] \in Nat
                         /\ 2 * sum[y] >= (peak + 1) * count[y]
    <2> TAKE y \in peers
    <2>1. y \in Series /\ y.metric = z.metric
      OBVIOUS
    <2>2. sum[y] = Total(y.values) /\ count[y] = Len(y.values)
      OBVIOUS
    <2> HIDE DEF sum, count
    <2>3. /\ Total(y.values) \in Nat /\ Len(y.values) \in Nat
          /\ Total(y.values) = SumFunctionOnSet(y.values, DOMAIN y.values)
          /\ IsFiniteSet(DOMAIN y.values) /\ Cardinality(DOMAIN y.values) = Len(y.values)
          /\ \A j \in DOMAIN y.values : y.values[j] \in Nat
      BY <2>1, SeriesHasValues
    <2>4. \A j \in DOMAIN y.values : 2 * y.values[j] >= peak + 1
      <3> TAKE j \in DOMAIN y.values
      <3>1. z.values[i] < 2 * y.values[j]
        BY <2>1
      <3>2. QED
        BY <1>3, <1>4, <2>3, <3>1
    <2>5. 2 * SumFunctionOnSet(y.values, DOMAIN y.values) >= (peak + 1) * Cardinality(DOMAIN y.values)
      <3>1. PICK two, more \in Nat : two = 2 /\ more = peak + 1
        BY <1>4
      <3>2. \A j \in DOMAIN y.values : y.values[j] \in Nat /\ two * y.values[j] >= more
        BY <2>3, <2>4, <3>1
      <3>3. two * SumFunctionOnSet(y.values, DOMAIN y.values) >= more * Cardinality(DOMAIN y.values)
        BY <2>3, <3>2, SumIsAbove
      <3>4. QED
        BY <3>1, <3>3
    <2>6. QED
      BY <2>2, <2>3, <2>5
  <1>6. /\ SumFunction(sum) = SumFunctionOnSet(sum, peers)
        /\ SumFunction(count) = SumFunctionOnSet(count, peers)
    BY DEF SumFunction
  <1>7. count[z] > 0
    <2>1. count[z] = Len(z.values)
      BY <1>2
    <2> HIDE DEF count
    <2>2. QED
      BY <2>1, SeriesHasValues
  <1> HIDE DEF peers, sum, count, peak
  <1>8. SumFunctionOnSet(count, peers) > 0 /\ SumFunctionOnSet(count, peers) \in Nat
    BY <1>2, <1>5, <1>7, SumIsPositive, SumIsCount
  <1>9. SumFunctionOnSet(sum, peers) \in Nat
    BY <1>2, <1>5, SumIsCount
  <1>10. 2 * SumFunctionOnSet(sum, peers) >= (peak + 1) * SumFunctionOnSet(count, peers)
    <2>1. PICK two, more \in Nat : two = 2 /\ more = peak + 1
      BY <1>4
    <2>2. \A y \in peers : sum[y] \in Nat /\ count[y] \in Nat /\ two * sum[y] >= more * count[y]
      BY <1>5, <2>1
    <2>3. two * SumFunctionOnSet(sum, peers) >= more * SumFunctionOnSet(count, peers)
      BY <1>2, <2>2, SumsCompare
    <2>4. QED
      BY <2>1, <2>3
  <1>11. \A c \in Nat : (peak + 1) * c = peak * c + c /\ peak * c \in Nat
    BY <1>4
  <1>12. peak * SumFunction(count) >= 2 * SumFunction(sum)
    BY <1>1 DEF peak, count, sum
  <1>13. QED
    BY <1>6, <1>8, <1>9, <1>10, <1>11, <1>12

\* The sum of a sequence of one number.
LEMMA TotalOfSame ==
    ASSUME NEW seq \in Seq(Nat), NEW v \in Nat, \A i \in 1..Len(seq) : seq[i] = v
    PROVE  Total(seq) = v * Len(seq)
  <1>1. DOMAIN seq = 1..Len(seq)
    OBVIOUS
  <1>2. IsFiniteSet(DOMAIN seq) /\ Cardinality(DOMAIN seq) = Len(seq)
    BY IndicesAreFinite
  <1>3. SumFunctionOnSet(seq, DOMAIN seq) = v * Cardinality(DOMAIN seq)
    BY <1>1, <1>2, SumOfSame
  <1>4. QED
    BY <1>2, <1>3 DEF Total, SumFunction

\* The last points of a series are some, and leave some before them.
LEMMA CurrentPointsInside ==
    ASSUME NEW n \in Nat, n >= MinPoints
    PROVE  CurrentPoints(n) \in Nat \ {0} /\ n - CurrentPoints(n) \in Nat \ {0}
  <1> DEFINE third == (3 * n) \div 10
             rest == n - 3
  <1>1. third \in Int /\ rest \in Int /\ rest >= 3
    BY DEF MinPoints
  <1> HIDE DEF third
  <1>2. PICK three \in Int : three = 3
    OBVIOUS
  <1>3. PICK most \in Int : most = Max({three, third}) /\ most >= three
    BY <1>1, <1>2, GreaterOf
  <1>4. Min({most, rest}) \in {most, rest} /\ Min({most, rest}) <= rest
    <2> HIDE DEF rest
    <2>1. QED
      BY <1>1, LesserOf
  <1>5. CurrentPoints(n) = Min({most, rest})
    BY <1>2, <1>3 DEF CurrentPoints, third
  <1>6. Min({most, rest}) >= 3 /\ Min({most, rest}) <= n - 3 /\ Min({most, rest}) \in Int
    BY <1>1, <1>2, <1>3, <1>4
  <1>7. QED
    BY <1>5, <1>6

\* A series of one number has not shifted: the gap between its means is 0, and what the
\* gap is held against is not, unless its history is at zero.
LEMMA SameHasNotShifted ==
    ASSUME NEW values \in Seq(Nat), Len(values) >= MinPoints,
           NEW v \in Nat \ {0}, \A i \in 1..Len(values) : values[i] = v
    PROVE  ~Shifted(values, 3)
  <1> DEFINE m == CurrentPoints(Len(values))
             n == Len(values) - m
             baseline == SubSeq(values, 1, n)
             current == SubSeq(values, n + 1, n + m)
             squared == [i \in 1..n |-> baseline[i] * baseline[i]]
             b == Total(baseline)
             c == Total(current)
             squares == Total(squared)
             gap == c * n - b * m
             spread == 400 * (n * squares - b * b)
  <1>1. m \in Nat \ {0} /\ n \in Nat \ {0} /\ Len(values) = n + m
    <2>1. Len(values) \in Nat
      OBVIOUS
    <2>2. m \in Nat \ {0} /\ n \in Nat \ {0}
      BY <2>1, CurrentPointsInside
    <2> HIDE DEF m
    <2>3. QED
      BY <2>1, <2>2
  <1> HIDE DEF m, n
  <1>2. \A i \in 1..n : values[i] = v
    BY <1>1
  <1>3. \A i \in (n + 1)..(n + m) : values[i] = v
    BY <1>1
  <1>4. /\ baseline \in Seq(Nat) /\ Len(baseline) = n
        /\ \A i \in 1..n : baseline[i] = v
    <2>1. /\ baseline \in Seq(Nat)
          /\ Len(baseline) = IF 1 <= n THEN n - 1 + 1 ELSE 0
          /\ \A i \in 1..(n - 1 + 1) : baseline[i] = values[1 + i - 1]
      <3>1. PICK one \in Int : one = 1
        OBVIOUS
      <3>2. n \in Int /\ \A i \in one..n : values[i] \in Nat
        BY <1>1, <1>2, <3>1
      <3>3. /\ SubSeq(values, one, n) \in Seq(Nat)
            /\ Len(SubSeq(values, one, n)) = IF one <= n THEN n - one + 1 ELSE 0
            /\ \A i \in 1..(n - one + 1) : SubSeq(values, one, n)[i] = values[one + i - 1]
        BY <3>2, SubSeqProperties
      <3>4. QED
        BY <3>1, <3>3
    <2> HIDE DEF baseline
    <2>2. QED
      BY <1>1, <1>2, <2>1
  <1>5. /\ current \in Seq(Nat) /\ Len(current) = m
        /\ \A i \in 1..m : current[i] = v
    <2>1. PICK low, high \in Int : low = n + 1 /\ high = n + m
      BY <1>1
    <2>2. \A i \in low..high : values[i] \in Nat
      BY <1>3, <2>1
    <2>3. /\ SubSeq(values, low, high) \in Seq(Nat)
          /\ Len(SubSeq(values, low, high)) = IF low <= high THEN high - low + 1 ELSE 0
          /\ \A i \in 1..(high - low + 1) : SubSeq(values, low, high)[i] = values[low + i - 1]
      BY <2>2, SubSeqProperties
    <2>4. current = SubSeq(values, low, high)
      BY <2>1
    <2> HIDE DEF current
    <2>5. QED
      BY <1>1, <1>3, <2>1, <2>3, <2>4
  <1>6. v * v \in Nat \ {0}
    OBVIOUS
  <1>7. /\ squared \in Seq(Nat) /\ Len(squared) = n
        /\ \A i \in 1..n : squared[i] = v * v
    <2>1. \A i \in 1..n : squared[i] = v * v
      BY <1>4
    <2>2. squared \in [1..n -> Nat]
      BY <1>4, <1>6
    <2> HIDE DEF squared
    <2>3. QED
      BY <1>1, <2>1, <2>2
  <1>8. b = v * n /\ c = v * m
    <2> HIDE DEF baseline, current
    <2>1. QED
      BY <1>4, <1>5, TotalOfSame
  <1>9. squares = (v * v) * n
    <2> DEFINE w == v * v
    <2> HIDE DEF squared, w
    <2>1. w \in Nat /\ \A i \in 1..n : squared[i] = w
      BY <1>6, <1>7 DEF w
    <2>2. squares = w * n
      BY <1>7, <2>1, TotalOfSame
    <2>3. QED
      BY <2>2 DEF w
  <1>10. Shifted(values, 3) <=>
            400 * gap * gap >= 3 * 3 * m * m * Max({spread, b * b})
    BY DEF Shifted, m, n
  <1> HIDE DEF baseline, current, squared, b, c, squares
  <1>11. gap = 0
    <2>1. \A x, y, z \in Nat : (x * y) * z - (x * z) * y = 0
      OBVIOUS
    <2>2. QED
      BY <1>1, <1>8, <2>1
  <1>12. \A x, y \in Nat \ {0} : x * y \in Nat \ {0}
    OBVIOUS
  <1>13. b * b \in Nat \ {0}
    BY <1>1, <1>8, <1>12
  <1>14. spread \in Int
    <2>1. squares \in Nat
      BY <1>1, <1>6, <1>9, <1>12
    <2>2. n * squares \in Nat
      BY <1>1, <2>1
    <2>3. QED
      BY <1>13, <2>2
  <1>15. Max({spread, b * b}) \in Nat \ {0}
    <2>1. PICK x, y \in Int : x = spread /\ y = b * b
      BY <1>13, <1>14
    <2>2. Max({x, y}) \in {x, y} /\ Max({x, y}) >= y
      BY GreaterOf
    <2>3. Max({x, y}) \in Nat \ {0}
      BY <1>13, <2>1, <2>2
    <2>4. QED
      BY <2>1, <2>3
  <1>16. 3 * 3 * m * m * Max({spread, b * b}) \in Nat \ {0}
    <2>1. PICK x \in Nat \ {0} : x = Max({spread, b * b})
      BY <1>15
    <2>2. 3 * 3 * m \in Nat \ {0}
      BY <1>1
    <2>3. 3 * 3 * m * m \in Nat \ {0}
      BY <1>1, <1>12, <2>2
    <2>4. 3 * 3 * m * m * x \in Nat \ {0}
      BY <1>12, <2>3
    <2>5. QED
      BY <2>1, <2>4
  <1>17. 400 * gap * gap = 0
    BY <1>11
  <1>18. QED
    BY <1>10, <1>16, <1>17

\* Series of one number each give no signal of a change.
THEOREM NoneHasShifted ==
    ASSUME NEW samples \in SUBSET Series,
           \A x \in samples : \A i, j \in DOMAIN x.values : x.values[i] = x.values[j]
    PROVE  TemporalOutliers(samples) = {}
  <1>1. SUFFICES ASSUME NEW x \in samples, Len(x.values) >= MinPoints,
                        Total(SubSeq(x.values, 1, Len(x.values) - CurrentPoints(Len(x.values)))) # 0,
                        Shifted(x.values, 3)
                 PROVE  FALSE
    BY DEF TemporalOutliers, Usage
  <1> DEFINE v == x.values[1]
             n == Len(x.values) - CurrentPoints(Len(x.values))
  <1>2. /\ x.values \in Seq(Nat) /\ Len(x.values) \in Nat \ {0}
        /\ DOMAIN x.values = 1..Len(x.values) /\ \A i \in DOMAIN x.values : x.values[i] \in Nat
    BY SeriesHasValues
  <1>3. v \in Nat /\ \A i \in 1..Len(x.values) : x.values[i] = v
    BY <1>2
  <1>4. v # 0
    <2>1. SUFFICES ASSUME v = 0 PROVE FALSE
      OBVIOUS
    <2>2. n \in Nat /\ n <= Len(x.values)
      <3>1. CurrentPoints(Len(x.values)) \in Nat /\ n \in Nat
        BY <1>1, <1>2, CurrentPointsInside
      <3>2. QED
        BY <1>2, <3>1
    <2> HIDE DEF n
    <2>3. PICK one \in Int : one = 1
      OBVIOUS
    <2>4. \A i \in one..n : x.values[i] \in Nat /\ x.values[i] = 0
      BY <1>2, <1>3, <2>1, <2>2, <2>3
    <2>5. /\ SubSeq(x.values, one, n) \in Seq(Nat)
          /\ Len(SubSeq(x.values, one, n)) = IF one <= n THEN n - one + 1 ELSE 0
          /\ \A i \in 1..(n - one + 1) : SubSeq(x.values, one, n)[i] = x.values[one + i - 1]
      BY <2>2, <2>4, SubSeqProperties
    <2> DEFINE history == SubSeq(x.values, one, n)
    <2>6. history \in Seq(Nat) /\ \A i \in 1..Len(history) : history[i] = 0
      BY <2>2, <2>3, <2>4, <2>5
    <2>7. Total(history) = 0 * Len(history) /\ Len(history) \in Nat
      <3> HIDE DEF history
      <3>1. QED
        BY <2>6, TotalOfSame
    <2>8. Total(history) = 0
      <3> HIDE DEF history
      <3>1. QED
        BY <2>7
    <2>9. QED
      BY <1>1, <2>3, <2>8 DEF n
  <1>5. ~Shifted(x.values, 3)
    <2> HIDE DEF v
    <2>1. QED
      BY <1>1, <1>2, <1>3, <1>4, SameHasNotShifted
  <1>6. QED
    BY <1>1, <1>5

-------------------------------------------------------------------------------
(* The ranking.                                                          *)

\* Without a signal there is no suspect, whatever labels the model gives.
LEMMA NobodyWithoutSignals ==
    ASSUME NEW e, e.signals = {}, NEW q \in Nominations(Scored(e))
    PROVE  /\ NamesOf(q) = <<>>
           /\ \A labels : NamesOf(Reranked(q, labels)) = <<>>
  <1>1. Scored(e) = {}
    BY DEF Scored, Candidates, Flagged
  <1>2. Cardinality(Scored(e)) = 0
    BY <1>1, FS_EmptySet
  <1>3. Min({TopK, 0}) = 0
    <2>1. TopK \in Nat
      BY DiagnosisAssumption
    <2>2. \E x \in {TopK, 0} : \A y \in {TopK, 0} : x <= y
      BY <2>1
    <2>3. \A x \in {TopK, 0} : (\A y \in {TopK, 0} : x <= y) => x = 0
      BY <2>1
    <2>4. QED
      BY <2>2, <2>3 DEF Min
  <1>4. DOMAIN q = {}
    BY <1>2, <1>3 DEF Nominations
  <1>5. NamesOf(q) = <<>>
    BY <1>4 DEF NamesOf
  <1>6. \A labels : DOMAIN Reranked(q, labels) = {}
    BY <1>4, NoneSorted DEF Reranked
  <1>7. \A labels : NamesOf(Reranked(q, labels)) = <<>>
    BY <1>6 DEF NamesOf
  <1>8. QED
    BY <1>5, <1>7

\* What a signal adds to the score of its service.
Worth(g) == Weight[g.target] * Max({g.relevance, 10}) * Prior[Role[g.source]]

\* It is a positive number.
LEMMA WorthIsPositive ==
    ASSUME DiagnosisAssumption, NEW g \in Signals
    PROVE  Worth(g) \in Nat \ {0}
  <1>1. g.target \in Targets /\ g.relevance \in Int /\ g.source \in Services
    BY DEF Signals
  <1>2. Weight[g.target] \in Nat \ {0}
    BY <1>1 DEF Weight, Targets
  <1>3. Max({g.relevance, 10}) \in Nat \ {0}
    <2>1. PICK ten \in Int : ten = 10
      OBVIOUS
    <2>2. Max({g.relevance, ten}) \in Int /\ Max({g.relevance, ten}) >= ten
      BY <1>1, GreaterOf
    <2>3. QED
      BY <2>1, <2>2
  <1>4. Role[g.source] \in DOMAIN Prior
    BY <1>1 DEF DiagnosisAssumption
  <1>5. Prior[Role[g.source]] \in Nat \ {0}
    BY <1>4 DEF Prior
  <1>6. \A a, b, c \in Nat \ {0} : a * b * c \in Nat \ {0}
    <2> TAKE a, b, c \in Nat \ {0}
    <2>1. a * b \in Nat /\ a * b # 0
      OBVIOUS
    <2>2. PICK d \in Nat \ {0} : d = a * b
      BY <2>1
    <2>3. d * c \in Nat /\ d * c # 0
      OBVIOUS
    <2>4. QED
      BY <2>2, <2>3
  <1>7. QED
    BY <1>2, <1>3, <1>5, <1>6 DEF Worth

\* The score of a service from its own signals: positive with one, zero without.
LEMMA OwnScoreIsPositive ==
    ASSUME DiagnosisAssumption, IsFiniteSet(Services), NEW e \in Evidence, NEW svc
    PROVE  /\ OwnScore(e, svc) \in Nat
           /\ svc \in Flagged(e.signals) => OwnScore(e, svc) > 0
           /\ svc \notin Flagged(e.signals) => OwnScore(e, svc) = 0
  <1> DEFINE own == {h \in e.signals : h.source = svc}
             worth == [g \in own |-> Weight[g.target] * Max({g.relevance, 10}) * Prior[Role[svc]]]
  <1>1. e.signals \in SUBSET Signals
    BY DEF Evidence
  <1>2. IsFiniteSet(own)
    BY <1>1, SignalsAreFinite, FS_Subset
  <1>3. \A g \in own : worth[g] \in Nat \ {0}
    <2>1. \A g \in own : worth[g] = Worth(g)
      BY DEF Worth
    <2> HIDE DEF worth
    <2>2. QED
      BY <1>1, <2>1, WorthIsPositive
  <1>4. OwnScore(e, svc) = SumFunctionOnSet(worth, own)
    BY DEF OwnScore, SumFunction
  <1>5. svc \in Flagged(e.signals) <=> own # {}
    BY DEF Flagged
  <1> HIDE DEF own, worth
  <1>6. SumFunctionOnSet(worth, own) \in Nat
    BY <1>2, <1>3, SumIsCount
  <1>7. ASSUME own # {} PROVE SumFunctionOnSet(worth, own) > 0
    <2>1. PICK y \in own : worth[y] > 0
      BY <1>3, <1>7
    <2>2. QED
      BY <1>2, <1>3, <2>1, SumIsPositive
  <1>8. ASSUME own = {} PROVE SumFunctionOnSet(worth, own) = 0
    BY <1>2, <1>3, <1>8, SumSplits
  <1>9. QED
    BY <1>4, <1>5, <1>6, <1>7, <1>8

\* So it is with the score, demoted or not; an error name has none.
LEMMA ScoreIsPositive ==
    ASSUME DiagnosisAssumption, ServicesAreNames, NEW e \in Evidence, NEW c
    PROVE  /\ ScoreOf(e, c) \in Nat
           /\ c \in Flagged(e.signals) <=> ScoreOf(e, c) > 0
  <1>1. IsFiniteSet(Services) /\ Token \notin Services
    BY DEF ServicesAreNames
  <1>2. /\ OwnScore(e, c) \in Nat
        /\ c \in Flagged(e.signals) => OwnScore(e, c) > 0
        /\ c \notin Flagged(e.signals) => OwnScore(e, c) = 0
    BY <1>1, OwnScoreIsPositive
  <1>3. Token \notin Flagged(e.signals)
    BY <1>1 DEF Flagged, Evidence, Signals
  <1>4. QED
    BY <1>2, <1>3 DEF ScoreOf, Score

\* The candidates with their scores.
LEMMA ScoredIsFinite ==
    ASSUME ServicesAreNames, NEW e
    PROVE  IsFiniteSet(Scored(e)) /\ Cardinality(Scored(e)) \in Nat
  <1> DEFINE entry == [c \in Candidates(e) |-> [name |-> c, score |-> ScoreOf(e, c)]]
  <1>1. IsFiniteSet(Services \cup {Token})
    BY FS_AddElement DEF ServicesAreNames
  <1>2. Candidates(e) \in SUBSET (Services \cup {Token})
    BY DEF Candidates
  <1>3. IsFiniteSet(Candidates(e))
    BY <1>1, <1>2, FS_Subset
  <1>4. entry \in Surjection(Candidates(e), Scored(e))
    BY DEF Scored, Surjection
  <1> HIDE DEF entry
  <1>5. QED
    BY <1>3, <1>4, FS_Surjection, FS_CardinalityType

\* The first of a ranking has a score, if there is a first.
LEMMA FirstHasScore ==
    ASSUME DiagnosisAssumption, ServicesAreNames, NEW e \in Evidence,
           NEW q \in Nominations(Scored(e)), DOMAIN q # {}
    PROVE  /\ q \in Seq(Scored(e))
           /\ 1 \in DOMAIN q /\ q[1].score > 0
           /\ \A i \in DOMAIN q : q[i].name \in Candidates(e) /\ q[i].score = ScoreOf(e, q[i].name)
  <1> DEFINE n == Min({TopK, Cardinality(Scored(e))})
  <1>1. n \in Int
    <2>1. TopK \in Int /\ Cardinality(Scored(e)) \in Int
      BY ScoredIsFinite DEF DiagnosisAssumption
    <2>2. n \in {TopK, Cardinality(Scored(e))}
      BY <2>1, LesserOf
    <2>3. QED
      BY <2>1, <2>2
  <1>2. q \in [1..n -> Scored(e)]
    BY DEF Nominations
  <1> HIDE DEF n
  <1>3. n \in Nat /\ 1 \in 1..n
    BY <1>1, <1>2
  <1>4. q \in Seq(Scored(e)) /\ 1 \in DOMAIN q
    BY <1>2, <1>3
  <1>5. \A i \in DOMAIN q : q[i].name \in Candidates(e) /\ q[i].score = ScoreOf(e, q[i].name)
    BY <1>2 DEF Scored
  <1>6. e.signals # {}
    <2>1. e.signals = {} => Scored(e) = {}
      BY DEF Scored, Candidates, Flagged
    <2>2. QED
      BY <1>2, <1>3, <2>1
  <1>7. PICK svc \in Flagged(e.signals) : svc \in Services
    BY <1>6 DEF Flagged, Evidence, Signals
  <1>8. [name |-> svc, score |-> ScoreOf(e, svc)] \in Scored(e) /\ ScoreOf(e, svc) > 0
    BY <1>7, ScoreIsPositive DEF Scored, Candidates
  <1>9. \A c \in Scored(e) : q[1].score >= c.score
    <2> TAKE c \in Scored(e)
    <2>1. CASE c \in ToSet(q)
      <3>1. PICK j \in DOMAIN q : q[j] = c
        BY <2>1 DEF ToSet
      <3>2. 1 = j \/ 1 < j
        BY <1>2, <1>3, <3>1
      <3>3. 1 < j => q[1].score >= q[j].score
        BY <1>4, <3>1 DEF Nominations
      <3>4. q[1].score \in Nat
        BY <1>4, <1>5, ScoreIsPositive
      <3>5. QED
        BY <3>1, <3>2, <3>3, <3>4
    <2>2. CASE c \notin ToSet(q)
      BY <1>4, <2>2 DEF Nominations
    <2>3. QED
      BY <2>1, <2>2
  <1>10. q[1].score > 0
    <2>1. q[1].score \in Nat /\ ScoreOf(e, svc) \in Nat
      BY <1>4, <1>5, ScoreIsPositive
    <2>2. q[1].score >= ScoreOf(e, svc)
      BY <1>8, <1>9
    <2>3. QED
      BY <1>8, <2>1, <2>2
  <1>11. QED
    BY <1>4, <1>5, <1>10

\* The first suspect has a signal, in the ranking and after any labels of the model.
THEOREM FirstIsFlagged ==
    ASSUME DiagnosisAssumption, ServicesAreNames, NEW e \in Evidence,
           NEW q \in Nominations(Scored(e)), NEW out,
           \/ out = q
           \/ \E labels \in [DOMAIN q -> DOMAIN Multiplier] : out = Reranked(q, labels),
           NamesOf(out) # <<>>
    PROVE  NamesOf(out)[1] \in Flagged(e.signals)
  <1>1. DOMAIN out # {}
    <2>1. DOMAIN out = {} => NamesOf(out) = <<>>
      BY DEF NamesOf
    <2>2. QED
      BY <2>1
  <1>2. CASE out = q
    <2>1. 1 \in DOMAIN q /\ q[1].score > 0 /\ q[1].score = ScoreOf(e, q[1].name)
      BY <1>1, <1>2, FirstHasScore
    <2>2. q[1].name \in Flagged(e.signals)
      BY <2>1, ScoreIsPositive
    <2>3. QED
      BY <1>2, <2>1, <2>2 DEF NamesOf
  <1>3. ASSUME NEW labels \in [DOMAIN q -> DOMAIN Multiplier], out = Reranked(q, labels)
        PROVE  NamesOf(out)[1] \in Flagged(e.signals)
    <2> DEFINE key == [i \in DOMAIN q |-> q[i].score * Multiplier[labels[i]]]
    <2>1. out = SortedDown(q, key)
      BY <1>3 DEF Reranked
    <2>2. DOMAIN q # {}
      BY <1>1, <2>1, NoneSorted
    <2>3. /\ q \in Seq(Scored(e)) /\ 1 \in DOMAIN q /\ q[1].score > 0
          /\ \A i \in DOMAIN q : q[i].score = ScoreOf(e, q[i].name)
      BY <2>2, FirstHasScore
    <2>4. \A i \in DOMAIN q : q[i].score \in Nat
      BY <2>3, ScoreIsPositive
    <2>5. \A i \in DOMAIN q : Multiplier[labels[i]] \in Nat \ {0}
      <3>1. \A l \in DOMAIN Multiplier : Multiplier[l] \in Nat \ {0}
        BY DEF Multiplier
      <3>2. QED
        BY <3>1
    <2>6. \A i \in DOMAIN q : key[i] \in Nat /\ (key[i] > 0 <=> q[i].score > 0)
      <3> TAKE i \in DOMAIN q
      <3>1. \A s \in Nat, m \in Nat \ {0} : s * m \in Nat /\ (s * m > 0 <=> s > 0)
        OBVIOUS
      <3>2. key[i] = q[i].score * Multiplier[labels[i]]
        OBVIOUS
      <3> HIDE DEF key
      <3>3. QED
        BY <2>4, <2>5, <3>1, <3>2
    <2> HIDE DEF key
    <2>7. PICK p : /\ out \in Seq(Scored(e)) /\ Len(out) = Len(q) /\ Arranges(p, out, q, DOMAIN q)
                   /\ \A k, l \in 1..Len(out) : k <= l => key[p[k]] >= key[p[l]]
      <3>1. \A i \in DOMAIN q : key[i] \in Int
        BY <2>6
      <3>2. QED
        BY <2>1, <2>3, <3>1, SortedDownSorts
    <2>8. DOMAIN q = 1..Len(q) /\ Len(q) \in Nat /\ 1 \in 1..Len(out)
      BY <2>3, <2>7
    <2>9. PICK k \in 1..Len(out) : p[k] = 1
      BY <2>3, <2>7 DEF Arranges, Bijection, Surjection
    <2>10. p[1] \in DOMAIN q /\ out[1] = q[p[1]]
      BY <2>7, <2>8 DEF Arranges, Bijection, Surjection
    <2>11. key[p[1]] >= key[1]
      BY <2>7, <2>8, <2>9
    <2>12. q[p[1]].score > 0
      BY <2>3, <2>6, <2>10, <2>11
    <2>13. out[1].name \in Flagged(e.signals)
      BY <2>3, <2>10, <2>12, ScoreIsPositive
    <2>14. 1 \in DOMAIN out
      BY <2>7, <2>8
    <2>15. QED
      BY <2>13, <2>14 DEF NamesOf
  <1>4. QED
    BY <1>2, <1>3

\* What a service shows: its signals, whoever's they are.
Shown(e, svc) == {<<g.target, g.relevance>> : g \in {h \in e.signals : h.source = svc}}

\* Services of one role that show the same have the same score of their own.
LEMMA SameScore ==
    ASSUME DiagnosisAssumption, IsFiniteSet(Services), NEW e \in Evidence, NEW a, NEW b,
           Role[a] = Role[b], Shown(e, a) = Shown(e, b)
    PROVE  OwnScore(e, a) = OwnScore(e, b)
  <1> DEFINE own(svc) == {h \in e.signals : h.source = svc}
             worth(svc) == [g \in own(svc) |->
                               Weight[g.target] * Max({g.relevance, 10}) * Prior[Role[svc]]]
             twin == [g \in own(a) |-> [source |-> b, target |-> g.target, relevance |-> g.relevance]]
  <1>1. e.signals \in SUBSET Signals
    BY DEF Evidence
  <1>2. IsFiniteSet(own(a)) /\ IsFiniteSet(own(b))
    BY <1>1, SignalsAreFinite, FS_Subset
  <1>3. \A g \in e.signals :
            g = [source |-> g.source, target |-> g.target, relevance |-> g.relevance]
    BY <1>1 DEF Signals
  <1>4. \A g \in own(a) : \E h \in own(b) : h.target = g.target /\ h.relevance = g.relevance
    <2> TAKE g \in own(a)
    <2>1. <<g.target, g.relevance>> \in Shown(e, b)
      BY DEF Shown
    <2>2. QED
      BY <2>1 DEF Shown
  <1>5. \A h \in own(b) : \E g \in own(a) : h.target = g.target /\ h.relevance = g.relevance
    <2> TAKE h \in own(b)
    <2>1. <<h.target, h.relevance>> \in Shown(e, a)
      BY DEF Shown
    <2>2. QED
      BY <2>1 DEF Shown
  <1>6. twin \in [own(a) -> own(b)]
    <2> SUFFICES ASSUME NEW g \in own(a)
                 PROVE  [source |-> b, target |-> g.target, relevance |-> g.relevance] \in own(b)
      OBVIOUS
    <2>1. PICK h \in own(b) : h.target = g.target /\ h.relevance = g.relevance
      BY <1>4
    <2>2. h = [source |-> b, target |-> g.target, relevance |-> g.relevance]
      BY <1>3, <2>1
    <2>3. QED
      BY <2>1, <2>2
  <1>7. \A g, h \in own(a) : twin[g] = twin[h] => g = h
    <2> TAKE g, h \in own(a)
    <2> HAVE twin[g] = twin[h]
    <2>1. g.target = h.target /\ g.relevance = h.relevance
      OBVIOUS
    <2>2. QED
      BY <1>3, <2>1
  <1>8. \A h \in own(b) : \E g \in own(a) : twin[g] = h
    <2> TAKE h \in own(b)
    <2>1. PICK g \in own(a) : h.target = g.target /\ h.relevance = g.relevance
      BY <1>5
    <2>2. twin[g] = h
      BY <1>3, <2>1
    <2>3. QED
      BY <2>1, <2>2
  <1>9. \A g \in own(a) : worth(a)[g] \in Nat /\ worth(a)[g] = worth(b)[twin[g]]
    <2> TAKE g \in own(a)
    <2>1. worth(a)[g] = Worth(g)
      BY DEF Worth
    <2>2. worth(a)[g] \in Nat
      BY <1>1, <2>1, WorthIsPositive
    <2>3. twin[g] \in own(b) /\ twin[g].target = g.target /\ twin[g].relevance = g.relevance
      BY <1>6
    <2>4. worth(b)[twin[g]] = worth(a)[g]
      BY <2>3
    <2>5. QED
      BY <2>2, <2>4
  <1>10. twin \in Bijection(own(a), own(b))
    <2> HIDE DEF twin, own
    <2>1. QED
      BY <1>6, <1>7, <1>8 DEF Bijection, Injection, Surjection, IsInjective
  <1>11. SumFunctionOnSet(worth(a), own(a)) = SumFunctionOnSet(worth(b), own(b))
    <2> HIDE DEF twin, own, worth
    <2>1. QED
      BY <1>2, <1>9, <1>10, SumsAgree
  <1>12. \A svc : OwnScore(e, svc) = SumFunctionOnSet(worth(svc), own(svc))
    BY DEF OwnScore, SumFunction
  <1> HIDE DEF own, worth
  <1>13. QED
    BY <1>11, <1>12

\* A caller that shows what its callee shows comes behind it.
LEMMA CallerIsBehind ==
    ASSUME DiagnosisAssumption, ServicesAreNames, NEW e \in Evidence,
           NEW q \in Nominations(Scored(e)), NEW i \in DOMAIN q, NEW j \in DOMAIN q,
           <<q[i].name, q[j].name>> \in e.calls,
           q[j].name \in Flagged(e.signals), ~CallsAnomalous(e, q[j].name),
           Role[q[i].name] = Role[q[j].name], Shown(e, q[i].name) = Shown(e, q[j].name)
    PROVE  j < i
  <1> DEFINE caller == q[i].name
             callee == q[j].name
  <1>1. IsFiniteSet(Services) /\ Token \notin Services
    BY DEF ServicesAreNames
  <1>2. caller \in Services /\ callee \in Services
    BY DEF Evidence
  <1>3. OwnScore(e, caller) = OwnScore(e, callee)
    BY <1>1, SameScore
  <1>4. OwnScore(e, callee) \in Nat /\ OwnScore(e, callee) > 0
    BY <1>1, OwnScoreIsPositive
  <1>5. CallsAnomalous(e, caller)
    BY DEF CallsAnomalous
  <1>6. ScoreOf(e, caller) = OwnScore(e, caller) /\ ScoreOf(e, callee) = 2 * OwnScore(e, callee)
    BY <1>1, <1>2, <1>5 DEF ScoreOf, Score
  <1>7. ScoreOf(e, caller) < ScoreOf(e, callee)
    <2> HIDE DEF caller, callee
    <2>1. QED
      BY <1>3, <1>4, <1>6
  <1>8. q[i].score = ScoreOf(e, caller) /\ q[j].score = ScoreOf(e, callee)
    BY FirstHasScore
  <1>9. ~(q[i].score >= q[j].score)
    <2>1. q[i].score \in Nat /\ q[j].score \in Nat
      BY <1>8, ScoreIsPositive
    <2>2. QED
      BY <1>7, <1>8, <2>1
  <1>10. i < j => q[i].score >= q[j].score
    BY DEF Nominations
  <1>11. i \in Int /\ j \in Int
    <2>1. q \in Seq(Scored(e))
      BY FirstHasScore
    <2>2. QED
      BY <2>1
  <1>12. i # j
    BY <1>7, ScoreIsPositive
  <1>13. QED
    BY <1>9, <1>10, <1>11, <1>12
===============================================================================
