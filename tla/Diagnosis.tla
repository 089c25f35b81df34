------------------------------- MODULE Diagnosis -------------------------------
(***************************************************************************)
(* What the deterministic half of the swarm computes from the signals the  *)
(* parsers found: the observer's flag (is anything wrong?) and the         *)
(* diagnoser's ranking (who is to blame?).                                 *)
(*                                                                         *)
(* Relevances and priors are in hundredths and weights in tenths, so that  *)
(* all scores are integers.  PageRank only breaks ties: it is left open.   *)
(***************************************************************************)
EXTENDS Observer, Ordering

CONSTANTS
    Role,         \* the role of each service
    TopK          \* GRAPHRCA_DIAGNOSER_TOP_K

-------------------------------------------------------------------------------
(* ObserverAgent: a decisive signal counts at any strength, a magnitude    *)
(* only over a floor and unless too many services show one at a time.      *)

Decisive == {"CONNECTION_REFUSED", "LOG_ERROR", "TIMEOUT", "POD_UNHEALTHY"}

RelevanceFloor == 30

DecisiveSignals(signals) == {g \in signals : g.target \in Decisive}

OverFloor(signals) ==
    {g \in signals \ DecisiveSignals(signals) : g.relevance >= RelevanceFloor}

\* concentration > 0.3, over the services with any signal.
SystemicNoise(signals) ==
    10 * Cardinality(Flagged(OverFloor(signals))) > 3 * Cardinality(Flagged(signals))

\* Mutated: any signal counts.
AnomalousAtAll(signals) == signals # {}

Anomalous(signals) ==
    \/ DecisiveSignals(signals) # {}
    \/ OverFloor(signals) # {} /\ ~SystemicNoise(signals)
-------------------------------------------------------------------------------
(* TopologicalDiagnoser.                                                   *)

Weight == [CONNECTION_REFUSED |-> 80, POD_UNHEALTHY |-> 50, LOG_ERROR |-> 45,
           HIGH_LATENCY |-> 40, TIMEOUT |-> 40,
           HIGH_CPU |-> 30, HIGH_MEM |-> 30, HTTP_ERROR |-> 20]

Prior == [APP |-> 100, GATEWAY |-> 50, DATASTORE |-> 40, BROKER |-> 30,
          ASYNC_CONSUMER |-> 25, OBSERVABILITY |-> 10, LOADGEN |-> 10]

ASSUME DiagnosisAssumption ==
    /\ TopK \in Nat \ {0}
    /\ Role \in [Services -> DOMAIN Prior]

OwnScore(e, svc) ==
    SumFunction([g \in {h \in e.signals : h.source = svc} |->
                    Weight[g.target] * Max({g.relevance, 10}) * Prior[Role[svc]]])

CallsAnomalous(e, svc) == \E callee \in Flagged(e.signals) : <<svc, callee>> \in e.calls

\* Mutated: a caller is disqualified, or not demoted.
ScoreDisqualified(e, svc) == IF CallsAnomalous(e, svc) THEN 0 ELSE OwnScore(e, svc)
ScoreUndemoted(e, svc) == OwnScore(e, svc)

\* Doubled, so that the factor 0.5 of a caller stays an integer.
Score(e, svc) == IF CallsAnomalous(e, svc) THEN OwnScore(e, svc) ELSE 2 * OwnScore(e, svc)

\* An error name is a node of the graph, next to the services that emit it.
\* _is_token drops all of them from the candidates but this one, whose name has
\* none of the prefixes it knows.
Token == "CONNECTION_REFUSED"

\* Mutated: a graph without signals still has candidates.
CandidatesOfCalls(e) ==
    {c \in Services : \E d \in Services : {<<c, d>>, <<d, c>>} \cap e.calls # {}}

\* The services with a signal, the neighbours of one, and what passes for one.
Candidates(e) ==
    {svc \in Services :
        \/ svc \in Flagged(e.signals)
        \/ \E other \in Flagged(e.signals) : {<<svc, other>>, <<other, svc>>} \cap e.calls # {}}
    \cup {t \in {Token} : \E g \in e.signals : g.target = t}

ScoreOf(e, c) == IF c = Token THEN 0 ELSE Score(e, c)

Scored(e) == {[name |-> c, score |-> ScoreOf(e, c)] : c \in Candidates(e)}

\* sorted(...)[:top_k]
Nominations(scored) ==
    {q \in [1..Min({TopK, Cardinality(scored)}) -> scored] :
        /\ \A i, j \in DOMAIN q : i < j => q[i] # q[j] /\ q[i].score >= q[j].score
        /\ \A i \in DOMAIN q, c \in scored \ ToSet(q) : q[i].score >= c.score}

\* _RANK_MULTIPLIERS, in hundredths; a suspect without a label is a symptom.
Multiplier == [ROOT_CAUSE |-> 200, SYMPTOM |-> 60, NORMAL |-> 25]

\* _llm_rerank: whatever labels the model gives, the same suspects, by score times
\* multiplier and then by their place so far.
Reranked(q, labels) ==
    SortedDown(q, [i \in DOMAIN q |-> q[i].score * Multiplier[labels[i]]])

NamesOf(q) == [i \in DOMAIN q |-> q[i].name]
===============================================================================
