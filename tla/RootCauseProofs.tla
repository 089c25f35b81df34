----------------------------- MODULE RootCauseProofs -----------------------------
(***************************************************************************)
(* What RootCause computes from any spans is of the kind the nodes store:  *)
(* alerts with a whole-number score, causes with a whole-number            *)
(* confidence, remedies of the ranked services.  A score that were no      *)
(* number could not be sorted by: the rankings are made of the services of *)
(* the process only because every key is one.  No ranking drops or doubles *)
(* a cause, and no service alerts for its latency: the baseline follows    *)
(* what it judges.  A search finds what calls lead from, and, unless it is *)
(* cut, misses none of it.                                                 *)
(***************************************************************************)
EXTENDS RootCause, CountingProofs

AnomalyKinds == {"latency_spike", "error_rate_high", "unknown_response_gap"}

\* The alerts and the causes that name services of a set.
Alerts(Svc) == [svc : Svc, score : Int, types : SUBSET AnomalyKinds]

Causes(Svc) == [svc : Svc, conf : Int]

-------------------------------------------------------------------------------
\* A quotient rounded to a whole number.
LEMMA RoundedIsInt ==
    ASSUME NEW a \in Int, NEW b \in Nat \ {0}
    PROVE  Rounded(a, b) \in Int
  BY DEF Rounded

\* The greatest of some numbers up to a bound.
LEMMA GreatestUpTo ==
    ASSUME NEW n \in Nat, NEW S \in SUBSET (0..n), S # {}
    PROVE  Max(S) \in S /\ Max(S) \in 0..n /\ \A y \in S : Max(S) >= y
  <1>1. IsFiniteSet(0..n)
    BY FS_Interval
  <1>2. IsFiniteSet(S)
    BY <1>1, FS_Subset
  <1>3. S \in SUBSET Int
    OBVIOUS
  <1>4. QED
    BY <1>2, <1>3, GreatestOf

\* The spans of a service are counted.
LEMMA SpansAreCounted ==
    ASSUME NEW E, NEW spans \in Seq(E), NEW svc, NEW S \in SUBSET SpansOf(spans, svc)
    PROVE  /\ IsFiniteSet(S) /\ Cardinality(S) \in 0..Len(spans)
           /\ S # {} => Cardinality(S) # 0
  <1>1. IsFiniteSet(DOMAIN spans) /\ Cardinality(DOMAIN spans) = Len(spans) /\ Len(spans) \in Nat
    BY IndicesAreFinite
  <1>2. S \in SUBSET DOMAIN spans
    BY DEF SpansOf
  <1>3. IsFiniteSet(S) /\ Cardinality(S) <= Cardinality(DOMAIN spans)
    BY <1>1, <1>2, FS_Subset
  <1>4. Cardinality(S) \in Nat /\ (S # {} => Cardinality(S) # 0)
    BY <1>3, FS_CardinalityType, FS_EmptySet
  <1>5. QED
    BY <1>1, <1>3, <1>4

\* The share of the spans that failed.
LEMMA ErrorRateIsInt ==
    ASSUME NEW E, NEW spans \in Seq(E), NEW svc
    PROVE  ErrorRate(spans, svc) \in Int
  <1> DEFINE errors == {i \in SpansOf(spans, svc) : IsError(spans[i])}
  <1>1. CASE SpansOf(spans, svc) = {}
    BY <1>1 DEF ErrorRate
  <1>2. CASE SpansOf(spans, svc) # {}
    <2>1. Cardinality(errors) \in 0..Len(spans) /\ Len(spans) \in Nat
      <3>1. errors \in SUBSET SpansOf(spans, svc)
        OBVIOUS
      <3>2. Len(spans) \in Nat
        OBVIOUS
      <3> HIDE DEF errors
      <3>3. Cardinality(errors) \in 0..Len(spans)
        BY <3>1, SpansAreCounted
      <3>4. QED
        BY <3>2, <3>3
    <2>2. /\ Cardinality(SpansOf(spans, svc)) \in 0..Len(spans)
          /\ Cardinality(SpansOf(spans, svc)) # 0
      BY <1>2, SpansAreCounted
    <2>3. Rounded(10000 * Cardinality(errors), Cardinality(SpansOf(spans, svc))) \in Int
      <3> HIDE DEF errors
      <3>1. 10000 * Cardinality(errors) \in Int /\ Cardinality(SpansOf(spans, svc)) \in Nat \ {0}
        BY <2>1, <2>2
      <3>2. QED
        BY <3>1, RoundedIsInt
    <2>4. QED
      BY <1>2, <2>3 DEF ErrorRate
  <1>3. QED
    BY <1>1, <1>2

\* A deviation is a whole number up to ten, whatever the baseline.
LEMMA ZScoreRange ==
    ASSUME NEW total, NEW n, NEW base
    PROVE  ZScore(total, n, base) \in 0..10
  <1> DEFINE diff == total * base.unit - n * base.mean
             reached == {z \in 1..10 : 10 * diff * diff >= z * z * n * n * base.var}
  <1>1. Max({0} \cup reached) \in 0..10
    <2>1. reached \subseteq 1..10
      OBVIOUS
    <2> HIDE DEF reached
    <2>2. {0} \cup reached \in SUBSET (0..10) /\ {0} \cup reached # {}
      BY <2>1
    <2>3. QED
      BY <2>2, GreatestUpTo
  <1>2. ZScore(total, n, base) \in {0, 10, Max({0} \cup reached)}
    BY DEF ZScore
  <1>3. QED
    BY <1>1, <1>2

\* The least of two numbers is one.
LEMMA LeastIsInt ==
    ASSUME NEW a \in Int, NEW b \in Int
    PROVE  Min({a, b}) \in Int
  BY LesserOf

\* The greater of two numbers is one.
LEMMA GreatestIsInt ==
    ASSUME NEW a \in Int, NEW b \in Int
    PROVE  Max({a, b}) \in Int
  BY GreaterOf

\* The values of a function on a finite set are finitely many.
LEMMA ValuesAreFinite ==
    ASSUME NEW S, IsFiniteSet(S), NEW f
    PROVE  IsFiniteSet({f[x] : x \in S})
  <1> DEFINE T == {f[x] : x \in S}
             g == [x \in S |-> f[x]]
  <1>1. g \in Surjection(S, T)
    BY DEF Surjection
  <1> HIDE DEF T, g
  <1>2. IsFiniteSet(T)
    BY <1>1, FS_Surjection
  <1>3. QED
    BY <1>2 DEF T
-------------------------------------------------------------------------------
\* The score of an anomaly is a number.
LEMMA AnomalyScoreIsInt ==
    ASSUME NEW E, NEW spans \in Seq(E), NEW svc
    PROVE  AnomalyScore(spans, svc) \in Int
  <1> DEFINE rate == ErrorRate(spans, svc)
             part == Rounded(45 * Min({10000, 2 * ErrorRate(spans, svc)}), 1000)
             z == LatencySignal(spans, svc, Recent(spans, svc))
  <1>1. rate \in Int
    BY ErrorRateIsInt
  <1>2. z \in Int
    BY ZScoreRange DEF LatencySignal, ZOf
  <1>3. part \in Int
    <2>1. 2 * rate \in Int
      <3> HIDE DEF rate
      <3>1. QED
        BY <1>1
    <2>2. Min({10000, 2 * rate}) \in Int
      <3> HIDE DEF rate
      <3>1. QED
        BY <2>1, LeastIsInt
    <2>3. QED
      <3> DEFINE m == Min({10000, 2 * rate})
      <3>1. m \in Int
        BY <2>2
      <3> HIDE DEF m
      <3>2. 45 * m \in Int /\ 1000 \in Nat \ {0}
        BY <3>1
      <3>3. Rounded(45 * m, 1000) \in Int
        BY <3>2, RoundedIsInt
      <3>4. QED
        BY <3>3 DEF m
  <1>4. AnomalyScore(spans, svc) = 40 * z + part
                                       + (IF MostlyUnknown(spans, svc) THEN 30 ELSE 0)
    BY DEF AnomalyScore
  <1> HIDE DEF z, part
  <1>5. QED
    BY <1>2, <1>3, <1>4

\* The services of a trace file, in their order.
LEMMA ServicesAreOf ==
    ASSUME NEW Svc, NEW E, NEW spans \in Seq(E), \A e \in E : e.svc \in Svc
    PROVE  ServicesOf(spans) \in Seq(Svc)
  <1> DEFINE names == [i \in DOMAIN spans |-> spans[i].svc]
             firsts == {i \in DOMAIN names : \A j \in 1..(i - 1) : names[j] # names[i]}
  <1>1. names \in Seq(Svc)
    OBVIOUS
  <1>2. firsts \in SUBSET DOMAIN names
    OBVIOUS
  <1>3. ServicesOf(spans) = Pick(names, firsts)
    BY DEF ServicesOf, Distinct
  <1> HIDE DEF names, firsts
  <1>4. QED
    BY <1>1, <1>2, <1>3, PickKeeps

\* The alerts of a trace file.
THEOREM AlertsAreOf ==
    ASSUME NEW Svc, NEW E, NEW spans \in Seq(E), \A e \in E : e.svc \in Svc
    PROVE  AlertsOf(spans) \in Seq(Alerts(Svc))
  <1> DEFINE services == ServicesOf(spans)
             S == {i \in DOMAIN services : Alerted(spans, services[i])}
             alerted == Pick(services, S)
             alerts == [i \in DOMAIN alerted |-> Alert(spans, alerted[i])]
             key == [i \in DOMAIN alerts |-> alerts[i].score]
  <1>1. services \in Seq(Svc)
    BY ServicesAreOf
  <1>2. AlertsOf(spans) = SortedDown(alerts, key)
    BY DEF AlertsOf
  <1> HIDE DEF services
  <1>3. S \in SUBSET DOMAIN services
    OBVIOUS
  <1> HIDE DEF S
  <1>4. alerted \in Seq(Svc)
    BY <1>1, <1>3, PickKeeps
  <1> HIDE DEF alerted
  <1>5. \A svc \in Svc : Alert(spans, svc) \in Alerts(Svc)
    BY AnomalyScoreIsInt DEF Alert, Alerts, AnomalyTypes, AnomalyKinds
  <1>6. alerts \in Seq(Alerts(Svc))
    BY <1>4, <1>5
  <1> HIDE DEF alerts
  <1>7. \A i \in DOMAIN alerts : key[i] \in Int
    <2>1. \A i \in DOMAIN alerts : alerts[i] \in Alerts(Svc)
      BY <1>6
    <2>2. \A a \in Alerts(Svc) : a.score \in Int
      BY DEF Alerts
    <2>3. QED
      BY <2>1, <2>2
  <1> HIDE DEF key
  <1>8. QED
    BY <1>2, <1>6, <1>7, SortedDownSorts
-------------------------------------------------------------------------------
\* The depth of a service on the paths.
LEMMA DepthIsNat ==
    ASSUME NEW paths, NEW svc
    PROVE  DepthOf(paths, svc) \in Nat
  <1> DEFINE on == {k \in DOMAIN paths : svc \in Range(paths[k])}
             at == {d \in 1..MaxDepth : \E k \in on :
                      /\ \A l \in on : k <= l
                      /\ d < Len(paths[k]) /\ paths[k][d + 1] = svc}
  <1>1. at \subseteq 1..MaxDepth
    OBVIOUS
  <1>2. DepthOf(paths, svc) = Max({0} \cup at)
    BY DEF DepthOf
  <1> HIDE DEF at
  <1>3. MaxDepth \in Nat
    BY RootCauseAssumption
  <1>4. {0} \cup at \in SUBSET (0..MaxDepth) /\ {0} \cup at # {}
    BY <1>1, <1>3
  <1>5. Max({0} \cup at) \in 0..MaxDepth
    BY <1>3, <1>4, GreatestUpTo
  <1>6. QED
    BY <1>2, <1>3, <1>5

\* The share of the spans of the largest service.
LEMMA VolumeScoreIsInt ==
    ASSUME NEW E, NEW spans \in Seq(E), NEW svc
    PROVE  VolumeScore(spans, svc) \in Int
  <1> DEFINE counts == {Cardinality(SpansOf(spans, t)) : t \in Range(ServicesOf(spans))}
             most == Max({1} \cup counts)
             mine == Cardinality(SpansOf(spans, svc))
  <1>1. Len(spans) \in Nat
    OBVIOUS
  <1>2. \A t : Cardinality(SpansOf(spans, t)) \in 0..Len(spans)
    BY SpansAreCounted
  <1>3. {1} \cup counts \in SUBSET (0..(Len(spans) + 1)) /\ 1 \in {1} \cup counts
    BY <1>1, <1>2
  <1>4. mine \in Nat
    BY <1>1, <1>2
  <1>5. VolumeScore(spans, svc) = (10000 * mine) \div most
    BY DEF VolumeScore
  <1> HIDE DEF counts, mine
  <1>6. most \in 0..(Len(spans) + 1) /\ most >= 1
    <2>1. Len(spans) + 1 \in Nat /\ {1} \cup counts # {}
      BY <1>1
    <2>2. /\ most \in 0..(Len(spans) + 1)
          /\ \A y \in {1} \cup counts : most >= y
      BY <1>3, <2>1, GreatestUpTo
    <2>3. QED
      BY <2>2
  <1> HIDE DEF most
  <1>7. QED
    BY <1>1, <1>4, <1>5, <1>6

\* The highest score of the alerts of a service.
LEMMA AlertScoreIsInt ==
    ASSUME NEW Svc, NEW alerts \in Seq(Alerts(Svc)), NEW svc
    PROVE  AlertScore(alerts, svc) \in Int
  <1> DEFINE S == {j \in DOMAIN alerts : alerts[j].svc = svc}
             f == [i \in S |-> 10 * alerts[i].score]
             scores == {f[i] : i \in S}
  <1>1. S \in SUBSET DOMAIN alerts
    OBVIOUS
  <1>2. \A i \in S : f[i] \in Int
    <2>1. \A a \in Alerts(Svc) : a.score \in Int
      BY DEF Alerts
    <2>2. \A i \in S : alerts[i].score \in Int
      BY <2>1
    <2>3. QED
      BY <2>2
  <1>3. AlertScore(alerts, svc) = Max({0} \cup scores)
    <2>1. scores = {10 * alerts[i].score : i \in S}
      OBVIOUS
    <2>2. QED
      BY <2>1 DEF AlertScore
  <1> HIDE DEF S
  <1>4. IsFiniteSet(S)
    BY <1>1, IndicesAreFinite, FS_Subset
  <1> HIDE DEF f
  <1>5. IsFiniteSet(scores)
    BY <1>4, ValuesAreFinite
  <1>6. scores \subseteq Int
    BY <1>2
  <1> HIDE DEF scores
  <1>7. IsFiniteSet(scores \cup {0})
    BY <1>5, FS_AddElement
  <1>8. {0} \cup scores = scores \cup {0} /\ scores \cup {0} \in SUBSET Int /\ scores \cup {0} # {}
    BY <1>6
  <1>9. Max(scores \cup {0}) \in scores \cup {0}
    BY <1>7, <1>8, GreatestOf
  <1>10. QED
    BY <1>3, <1>6, <1>8, <1>9

\* The score of a candidate.
LEMMA ScoreIsInt ==
    ASSUME NEW E, NEW spans \in Seq(E), NEW Svc, NEW alerts \in Seq(Alerts(Svc)),
           NEW baselines, NEW svc, NEW depth \in Nat
    PROVE  Score(spans, alerts, baselines, svc, depth) \in Int
  <1> DEFINE w == WeightsOf(alerts)
             error == Min({10000, 3 * ErrorRate(spans, svc)})
             latency == LatencyComponent(spans, svc, baselines)
             alerted == AlertScore(alerts, svc)
             volume == VolumeScore(spans, svc)
             sum == w.error * error + w.latency * latency + w.alerts * alerted + 10 * volume
             deep == Min({1500, 300 * depth})
  <1>1. w.error \in Int /\ w.latency \in Int /\ w.alerts \in Int
    <2>1. w \in {[error |-> 50, latency |-> 15, alerts |-> 20],
                 [error |-> 15, latency |-> 50, alerts |-> 20],
                 [error |-> 35, latency |-> 35, alerts |-> 15]}
      BY DEF WeightsOf
    <2> HIDE DEF w
    <2>2. QED
      BY <2>1
  <1>2. error \in Int
    <2>1. ErrorRate(spans, svc) \in Int
      BY ErrorRateIsInt
    <2>2. 3 * ErrorRate(spans, svc) \in Int
      BY <2>1
    <2>3. QED
      BY <2>2, LeastIsInt
  <1>3. latency \in Int
    <2>1. \A S : ZOf(spans, svc, S) \in 0..10
      BY ZScoreRange DEF ZOf
    <2>2. QED
      BY <2>1 DEF LatencyComponent, LatencySignal
  <1>4. alerted \in Int /\ volume \in Int
    BY AlertScoreIsInt, VolumeScoreIsInt
  <1>5. deep \in Int
    <2>1. 300 * depth \in Int
      OBVIOUS
    <2>2. QED
      BY <2>1, LeastIsInt
  <1>6. Score(spans, alerts, baselines, svc, depth)
            = Min({10000, Rounded(sum, 100) + deep})
    BY DEF Score
  <1> HIDE DEF w, error, latency, alerted, volume, deep
  <1>7. sum \in Int
    <2>1. \A x, y \in Int : x * y \in Int
      OBVIOUS
    <2>2. /\ w.error * error \in Int /\ w.latency * latency \in Int
          /\ w.alerts * alerted \in Int /\ 10 * volume \in Int
      BY <1>1, <1>2, <1>3, <1>4, <2>1
    <2>3. \A a, b, c, d \in Int : a + b + c + d \in Int
      OBVIOUS
    <2>4. QED
      BY <2>2, <2>3
  <1> HIDE DEF sum
  <1>8. Rounded(sum, 100) \in Int
    BY <1>7, RoundedIsInt
  <1>9. Rounded(sum, 100) + deep \in Int
    BY <1>5, <1>8
  <1>10. QED
    BY <1>6, <1>9, LeastIsInt
-------------------------------------------------------------------------------
\* A ranking that names no service twice.
NamesOnce(ranked) == \A i, j \in DOMAIN ranked : ranked[i].svc = ranked[j].svc => i = j

\* Such a ranking is as long as it has causes.
LEMMA OnceIsCounted ==
    ASSUME NEW E, NEW ranked \in Seq(E), NamesOnce(ranked)
    PROVE  Len(ranked) = Cardinality(CausesOf(ranked))
  <1> DEFINE S == DOMAIN ranked
             T == CausesOf(ranked)
             f == [i \in S |-> ranked[i].svc]
  <1>1. IsFiniteSet(S) /\ Cardinality(S) = Len(ranked)
    BY IndicesAreFinite
  <1>2. f \in Bijection(S, T)
    <2>1. f \in [S -> T] /\ \A c \in T : \E i \in S : f[i] = c
      BY DEF CausesOf
    <2>2. \A i, j \in S : f[i] = f[j] => i = j
      BY DEF NamesOnce
    <2> HIDE DEF f, S, T
    <2>3. QED
      BY <2>1, <2>2 DEF Bijection, Injection, Surjection, IsInjective
  <1> HIDE DEF f, S, T
  <1>3. Cardinality(T) = Cardinality(S)
    BY <1>1, <1>2, FS_Bijection DEF ExistsBijection
  <1>4. QED
    BY <1>1, <1>3 DEF T

\* A ranking with the causes of another: none twice if the other has none twice.
SameCauses(out, ranked) ==
    CausesOf(out) = CausesOf(ranked) /\ (NamesOnce(ranked) => NamesOnce(out))

\* Another order of a ranking has its causes.
LEMMA ArrangedCauses ==
    ASSUME NEW E, NEW out \in Seq(E), NEW ranked, NEW p, Arranges(p, out, ranked, DOMAIN ranked)
    PROVE  SameCauses(out, ranked)
  <1>1. /\ DOMAIN out = 1..Len(out)
        /\ \A k \in DOMAIN out : p[k] \in DOMAIN ranked /\ out[k] = ranked[p[k]]
        /\ \A k, l \in DOMAIN out : p[k] = p[l] => k = l
        /\ \A i \in DOMAIN ranked : \E k \in DOMAIN out : p[k] = i
    BY DEF Arranges, Bijection, Injection, Surjection, IsInjective
  <1>2. CausesOf(out) = CausesOf(ranked)
    BY <1>1 DEF CausesOf
  <1>3. NamesOnce(ranked) => NamesOnce(out)
    BY <1>1 DEF NamesOnce
  <1>4. QED
    BY <1>2, <1>3 DEF SameCauses

\* The ranking of a search, and the sort by confidence.
LEMMA SortedCauses ==
    ASSUME NEW Svc, NEW ranked \in Seq(Causes(Svc)),
           NEW out, out = SortedDown(ranked, [i \in DOMAIN ranked |-> ranked[i].conf])
    PROVE  /\ out \in Seq(Causes(Svc)) /\ Len(out) = Len(ranked) /\ SameCauses(out, ranked)
           /\ \E p : /\ Arranges(p, out, ranked, DOMAIN ranked)
                     /\ \A k, l \in 1..Len(out) : k <= l => out[k].conf >= out[l].conf
  <1> DEFINE key == [i \in DOMAIN ranked |-> ranked[i].conf]
  <1>1. \A i \in DOMAIN ranked : key[i] \in Int /\ key[i] = ranked[i].conf
    <2>1. \A c \in Causes(Svc) : c.conf \in Int
      BY DEF Causes
    <2>2. QED
      BY <2>1
  <1> HIDE DEF key
  <1>2. /\ out \in Seq(Causes(Svc)) /\ Len(out) = Len(ranked)
        /\ \E p : /\ Arranges(p, out, ranked, DOMAIN ranked)
                  /\ \A k, l \in 1..Len(out) : k <= l => key[p[k]] >= key[p[l]]
    <2>1. out = SortedDown(ranked, key)
      BY DEF key
    <2>2. \A i \in DOMAIN ranked : key[i] \in Int
      BY <1>1
    <2>3. QED
      BY <2>1, <2>2, SortedDownSorts, ZenonT(60)
  <1>3. PICK p : /\ Arranges(p, out, ranked, DOMAIN ranked)
                 /\ \A k, l \in 1..Len(out) : k <= l => key[p[k]] >= key[p[l]]
    BY <1>2
  <1>4. \A k \in 1..Len(out) : p[k] \in DOMAIN ranked /\ out[k] = ranked[p[k]]
    BY <1>3 DEF Arranges, Bijection, Injection
  <1>5. \A k \in 1..Len(out) : key[p[k]] = out[k].conf
    BY <1>1, <1>4
  <1>6. \A k, l \in 1..Len(out) : k <= l => out[k].conf >= out[l].conf
    BY <1>3, <1>5
  <1>7. SameCauses(out, ranked)
    BY <1>2, <1>3, ArrangedCauses
  <1>8. QED
    BY <1>2, <1>3, <1>6, <1>7

\* A search ranks the services it visited, each with a confidence, and each as often as the
\* process lists it.
THEOREM RankingIsOf ==
    ASSUME NEW Svc, NEW E, NEW spans \in Seq(E), NEW T, NEW alerts \in Seq(Alerts(T)),
           NEW baselines, NEW start, NEW order \in Seq(Svc)
    PROVE  LET ranked == Ranking(spans, alerts, baselines, start, order)
           IN  /\ ranked \in Seq(Causes(Svc))
               /\ CausesOf(ranked) = Range(order) \cap Visited(spans, start)
               /\ IsInjective(order) => NamesOnce(ranked)
  <1> DEFINE paths == BackwardPaths(spans, start)
             S == {i \in DOMAIN order : order[i] \in Visited(spans, start)}
             found == Pick(order, S)
             candidates == [i \in DOMAIN found |->
                                Candidate(spans, alerts, baselines, paths, found[i])]
  <1>1. Ranking(spans, alerts, baselines, start, order)
            = SortedDown(candidates, [i \in DOMAIN candidates |-> candidates[i].conf])
    BY DEF Ranking
  <1>2. S \in SUBSET DOMAIN order /\ \A i \in DOMAIN order :
              i \in S <=> order[i] \in Visited(spans, start)
    OBVIOUS
  <1> HIDE DEF S
  <1>3. found \in Seq(Svc) /\ \E p : Arranges(p, found, order, S)
    BY <1>2, PickKeeps
  <1> HIDE DEF found, paths
  <1>4. \A svc \in Svc : Candidate(spans, alerts, baselines, paths, svc) \in Causes(Svc)
    <2> TAKE svc \in Svc
    <2> DEFINE score == Score(spans, alerts, baselines, svc, DepthOf(paths, svc))
    <2>1. score \in Int
      BY DepthIsNat, ScoreIsInt
    <2>2. Candidate(spans, alerts, baselines, paths, svc) =
              [svc |-> svc, conf |-> IF svc \in SilentServices(spans)
                                     THEN Min({1000000, 115 * score})
                                     ELSE 100 * score]
      BY DEF Candidate
    <2> HIDE DEF score
    <2>3. 115 * score \in Int /\ 100 * score \in Int
      BY <2>1
    <2>4. Min({1000000, 115 * score}) \in Int
      BY <2>3, LeastIsInt
    <2>5. QED
      BY <2>2, <2>3, <2>4 DEF Causes
  <1>5. candidates \in Seq(Causes(Svc))
    BY <1>3, <1>4
  <1>6. DOMAIN candidates = DOMAIN found /\ \A i \in DOMAIN found : candidates[i].svc = found[i]
    BY DEF Candidate
  <1> HIDE DEF candidates
  <1>7. PICK p : Arranges(p, found, order, S)
    BY <1>3
  <1>8. /\ DOMAIN found = 1..Len(found)
        /\ \A k \in DOMAIN found : p[k] \in S /\ found[k] = order[p[k]]
        /\ \A k, l \in DOMAIN found : p[k] = p[l] => k = l
        /\ \A i \in S : \E k \in DOMAIN found : p[k] = i
    BY <1>3, <1>7 DEF Arranges, Bijection, Injection, Surjection, IsInjective
  <1>9. CausesOf(candidates) = Range(order) \cap Visited(spans, start)
    <2>1. CausesOf(candidates) = {found[k] : k \in DOMAIN found}
      BY <1>6 DEF CausesOf
    <2>2. {found[k] : k \in DOMAIN found} = {order[i] : i \in S}
      BY <1>8
    <2>3. {order[i] : i \in S} = Range(order) \cap Visited(spans, start)
      BY <1>2 DEF Range
    <2>4. QED
      BY <2>1, <2>2, <2>3
  <1>10. IsInjective(order) => NamesOnce(candidates)
    BY <1>2, <1>6, <1>8 DEF NamesOnce, IsInjective
  <1> DEFINE ranked == Ranking(spans, alerts, baselines, start, order)
  <1>11. ranked \in Seq(Causes(Svc)) /\ SameCauses(ranked, candidates)
    BY <1>1, <1>5, SortedCauses
  <1> HIDE DEF ranked
  <1>12. /\ CausesOf(ranked) = Range(order) \cap Visited(spans, start)
         /\ IsInjective(order) => NamesOnce(ranked)
    BY <1>9, <1>10, <1>11 DEF SameCauses
  <1>13. QED
    BY <1>11, <1>12 DEF ranked

\* Ranking by the causal signals only reorders.
THEOREM CausalRankingIsOf ==
    ASSUME NEW Svc, NEW ranked \in Seq(Causes(Svc)), NEW spans, NEW alerts, NEW causes,
           ServicesOf(spans) \in Seq(Svc)
    PROVE  LET out == CausalRanking(ranked, TemporalOrder(spans, alerts), causes)
           IN  out \in Seq(Causes(Svc)) /\ SameCauses(out, ranked)
  <1> DEFINE order == TemporalOrder(spans, alerts)
             key == [i \in DOMAIN ranked |->
                        2 * ranked[i].conf + TemporalPriority(order, ranked[i].svc)
                            + (IF ranked[i].svc \in causes THEN 1000000 ELSE 0)]
  <1>1. PICK F : order \in Seq(F)
    <2> DEFINE services == ServicesOf(spans)
               S == {k \in DOMAIN services : \E i \in DOMAIN alerts : alerts[i].svc = services[k]}
               alerted == Pick(services, S)
    <2>1. order = SortedDown(alerted, [i \in DOMAIN alerted |-> -FirstStart(spans, alerted[i])])
      BY DEF TemporalOrder
    <2>2. services \in Seq(Svc) /\ S \in SUBSET DOMAIN services
      OBVIOUS
    <2> HIDE DEF services, S, order
    <2>3. alerted \in Seq(Svc)
      BY <2>2, PickKeeps
    <2> HIDE DEF alerted
    <2>4. QED
      BY <2>1, <2>3, SortedDownIsASequence
  <1>2. CausalRanking(ranked, order, causes) = SortedDown(ranked, key)
    BY DEF CausalRanking
  <1> HIDE DEF order
  <1>3. \A svc : TemporalPriority(order, svc) \in Int
    <2> TAKE svc
    <2>1. CASE svc \notin Range(order)
      BY <2>1 DEF TemporalPriority
    <2>2. CASE svc \in Range(order)
      <3> DEFINE i == CHOOSE k \in DOMAIN order : order[k] = svc
      <3>1. i \in DOMAIN order
        BY <2>2 DEF Range
      <3>2. TemporalPriority(order, svc) = (1000000 * (Len(order) + 1 - i)) \div Len(order)
        BY <2>2 DEF TemporalPriority
      <3> HIDE DEF i
      <3>3. i \in 1..Len(order) /\ Len(order) \in Nat
        BY <1>1, <3>1
      <3>4. QED
        BY <3>2, <3>3
    <2>3. QED
      BY <2>1, <2>2
  <1>4. \A i \in DOMAIN ranked : key[i] \in Int
    <2> TAKE i \in DOMAIN ranked
    <2>1. ranked[i].conf \in Int
      <3>1. ranked[i] \in Causes(Svc)
        OBVIOUS
      <3>2. \A c \in Causes(Svc) : c.conf \in Int
        BY DEF Causes
      <3>3. QED
        BY <3>1, <3>2
    <2>2. TemporalPriority(order, ranked[i].svc) \in Int
      BY <1>3
    <2>3. key[i] = 2 * ranked[i].conf + TemporalPriority(order, ranked[i].svc)
                        + (IF ranked[i].svc \in causes THEN 1000000 ELSE 0)
      OBVIOUS
    <2> HIDE DEF key
    <2>4. QED
      BY <2>1, <2>2, <2>3
  <1> HIDE DEF key
  <1> DEFINE out == CausalRanking(ranked, order, causes)
  <1>5. out \in Seq(Causes(Svc)) /\ \E p : Arranges(p, out, ranked, DOMAIN ranked)
    BY <1>2, <1>4, SortedDownSorts
  <1> HIDE DEF out
  <1>6. SameCauses(out, ranked)
    BY <1>5, ArrangedCauses
  <1>7. QED
    BY <1>5, <1>6 DEF order, out

\* A ranking with the services of another, led by a cause it trusts no less than any.
Outranks(out, ranked) ==
    /\ \A k \in DOMAIN out : out[1].conf >= out[k].conf
    /\ \A i \in DOMAIN ranked : \E k \in DOMAIN out : out[k].svc = ranked[i].svc

\* The synthesis loses, doubles and adds no service, and the first cause is trusted no less than any.
THEOREM SynthesisKeeps ==
    ASSUME NEW Svc, NEW ranked \in Seq(Causes(Svc)), NEW reply,
           \A svc \in DOMAIN reply.deltas : reply.deltas[svc] \in Int,
           NEW out, out = SynthesizedRanking(ranked, reply)
    PROVE  out \in Seq(Causes(Svc)) /\ Outranks(out, ranked) /\ SameCauses(out, ranked)
  <1> DEFINE adjusted == [i \in DOMAIN ranked |-> Adjusted(ranked[i], reply)]
             named == {i \in DOMAIN adjusted : adjusted[i].svc = reply.override}
             others == DOMAIN adjusted \ named
             moved == Pick(adjusted, named) \o Pick(adjusted, others)
  <1>1. out = SortedDown(moved, [i \in DOMAIN moved |-> moved[i].conf])
    BY DEF SynthesizedRanking, Overridden
  <1>2. \A c \in Causes(Svc) : Adjusted(c, reply) \in Causes(Svc) /\ Adjusted(c, reply).svc = c.svc
    <2> TAKE c \in Causes(Svc)
    <2> DEFINE less == Min({1000000, c.conf + reply.deltas[c.svc]})
               clipped == Max({0, less})
               conf == 100 * Rounded(clipped, 100)
    <2>1. CASE c.svc \notin DOMAIN reply.deltas
      BY <2>1 DEF Adjusted, Causes
    <2>2. CASE c.svc \in DOMAIN reply.deltas
      <3>1. less \in Int
        <4> DEFINE most == 1000000
                   sum == c.conf + reply.deltas[c.svc]
        <4>1. sum \in Int /\ most \in Int
          BY <2>2 DEF Causes
        <4>2. Min({most, sum}) \in Int
          <5> HIDE DEF most, sum
          <5>1. QED
            BY <4>1, LeastIsInt
        <4>3. QED
          BY <4>2
      <3>2. Adjusted(c, reply) = [c EXCEPT !.conf = conf]
        BY <2>2 DEF Adjusted
      <3> HIDE DEF less
      <3>3. clipped \in Int
        BY <3>1, GreatestIsInt
      <3> HIDE DEF clipped
      <3>4. conf \in Int
        <4>1. Rounded(clipped, 100) \in Int
          BY <3>3, RoundedIsInt
        <4>2. QED
          BY <4>1
      <3> HIDE DEF conf
      <3>5. QED
        BY <3>2, <3>4 DEF Causes
    <2>3. QED
      BY <2>1, <2>2
  <1>3. /\ adjusted \in Seq(Causes(Svc)) /\ DOMAIN adjusted = DOMAIN ranked
        /\ \A i \in DOMAIN ranked : adjusted[i].svc = ranked[i].svc
    BY <1>2
  <1>4. named \in SUBSET DOMAIN adjusted /\ others \in SUBSET DOMAIN adjusted
        /\ \A i \in DOMAIN adjusted : i \in named \/ i \in others
    OBVIOUS
  <1> HIDE DEF adjusted, named, others
  <1> DEFINE first == Pick(adjusted, named)
             second == Pick(adjusted, others)
  <1>5. /\ first \in Seq(Causes(Svc))
        /\ \A i \in named : \E k \in DOMAIN first : first[k] = adjusted[i]
    BY <1>3, <1>4, PickedAll
  <1>6. /\ second \in Seq(Causes(Svc))
        /\ \A i \in others : \E k \in DOMAIN second : second[k] = adjusted[i]
    BY <1>3, <1>4, PickedAll
  <1>7. moved = first \o second
    OBVIOUS
  <1> HIDE DEF first, second, moved
  <1>8. /\ moved \in Seq(Causes(Svc))
        /\ \A i \in DOMAIN adjusted : \E k \in DOMAIN moved : moved[k] = adjusted[i]
    <2>1. moved \in Seq(Causes(Svc))
      BY <1>5, <1>6, <1>7
    <2>2. \A k \in DOMAIN first : k \in DOMAIN moved /\ moved[k] = first[k]
      BY <1>5, <1>6, <1>7
    <2>3. \A k \in DOMAIN second :
              Len(first) + k \in DOMAIN moved /\ moved[Len(first) + k] = second[k]
      BY <1>5, <1>6, <1>7
    <2>4. QED
      BY <1>4, <1>5, <1>6, <2>1, <2>2, <2>3
  <1>9. /\ out \in Seq(Causes(Svc)) /\ Len(out) = Len(moved) /\ SameCauses(out, moved)
        /\ \E p : /\ Arranges(p, out, moved, DOMAIN moved)
                  /\ \A k, l \in 1..Len(out) : k <= l => out[k].conf >= out[l].conf
    BY <1>1, <1>8, SortedCauses
  <1>10. PICK p : /\ Arranges(p, out, moved, DOMAIN moved)
                  /\ \A k, l \in 1..Len(out) : k <= l => out[k].conf >= out[l].conf
    BY <1>9
  <1>11. \A k \in DOMAIN out : out[1].conf >= out[k].conf
    <2>1. \A k \in DOMAIN out : 1 \in 1..Len(out) /\ k \in 1..Len(out) /\ 1 <= k
      BY <1>9
    <2>2. QED
      BY <1>10, <2>1
  <1>12. \A j \in DOMAIN moved : \E k \in DOMAIN out : out[k] = moved[j]
    <2>1. DOMAIN out = 1..Len(out)
      BY <1>9
    <2>2. QED
      BY <1>10, <2>1 DEF Arranges, Bijection, Surjection
  <1>13. \A i \in DOMAIN ranked : \E k \in DOMAIN out : out[k].svc = ranked[i].svc
    BY <1>3, <1>8, <1>12
  <1>14. SameCauses(moved, ranked)
    <2>1. PICK p1 : Arranges(p1, first, adjusted, named)
      BY <1>3, <1>4, PickKeeps DEF first
    <2>2. PICK p2 : Arranges(p2, second, adjusted, others)
      BY <1>3, <1>4, PickKeeps DEF second
    <2>3. /\ \A k \in DOMAIN first : p1[k] \in named /\ first[k] = adjusted[p1[k]]
          /\ \A k, l \in DOMAIN first : p1[k] = p1[l] => k = l
      BY <1>5, <2>1 DEF Arranges, Bijection, Injection, IsInjective
    <2>4. /\ \A k \in DOMAIN second : p2[k] \in others /\ second[k] = adjusted[p2[k]]
          /\ \A k, l \in DOMAIN second : p2[k] = p2[l] => k = l
      BY <1>6, <2>2 DEF Arranges, Bijection, Injection, IsInjective
    <2> DEFINE src == [k \in DOMAIN moved |->
                        IF k \in DOMAIN first THEN p1[k] ELSE p2[k - Len(first)]]
    <2>5. \A k \in DOMAIN moved :
              \/ k \in DOMAIN first /\ moved[k] = first[k] /\ src[k] = p1[k]
              \/ /\ k \notin DOMAIN first /\ k - Len(first) \in DOMAIN second
                 /\ moved[k] = second[k - Len(first)] /\ src[k] = p2[k - Len(first)]
      <3>1. \A k \in DOMAIN moved :
                \/ k \in DOMAIN first /\ moved[k] = first[k]
                \/ /\ k \notin DOMAIN first /\ k - Len(first) \in DOMAIN second
                   /\ moved[k] = second[k - Len(first)]
        BY <1>5, <1>6, <1>7
      <3>2. QED
        BY <3>1
    <2> HIDE DEF src
    <2>6. \A k \in DOMAIN moved : src[k] \in DOMAIN ranked /\ moved[k].svc = ranked[src[k]].svc
      BY <1>3, <1>4, <2>3, <2>4, <2>5
    <2>7. \A k, l \in DOMAIN moved : src[k] = src[l] => k = l
      <3>1. \A i \in named : i \notin others
        BY DEF others
      <3>2. \A k \in DOMAIN moved : k \in Int
        BY <1>8
      <3>3. Len(first) \in Int
        BY <1>5
      <3>4. QED
        BY <2>3, <2>4, <2>5, <3>1, <3>2, <3>3
    <2>8. CausesOf(moved) = CausesOf(ranked)
      <3>1. \A i \in DOMAIN ranked : \E k \in DOMAIN moved : moved[k].svc = ranked[i].svc
        BY <1>3, <1>8
      <3>2. QED
        BY <2>6, <3>1 DEF CausesOf
    <2>9. NamesOnce(ranked) => NamesOnce(moved)
      BY <2>6, <2>7 DEF NamesOnce
    <2>10. QED
      BY <2>8, <2>9 DEF SameCauses
  <1>15. SameCauses(out, ranked)
    BY <1>9, <1>14 DEF SameCauses
  <1>16. QED
    BY <1>9, <1>11, <1>13, <1>15 DEF Outranks
-------------------------------------------------------------------------------
\* What the sum of the durations asks of its partial sums.
Adds(upto, spans, S) ==
    upto = [k \in 0..Len(spans) |->
               IF k = 0 THEN 0 ELSE upto[k - 1] + (IF k \in S THEN spans[k].dur ELSE 0)]

Upto(spans, S) == CHOOSE upto : Adds(upto, spans, S)

\* There are such sums.
LEMMA TotalIsASum ==
    ASSUME NEW E, NEW spans \in Seq(E), \A e \in E : e.dur \in Int, NEW S
    PROVE  /\ Total(spans, S) = Upto(spans, S)[Len(spans)]
           /\ Adds(Upto(spans, S), spans, S)
           /\ \A k \in 0..Len(spans) : Upto(spans, S)[k] \in Int
  <1> DEFINE n == Len(spans)
             part == [k \in 0..n |-> IF k \in S /\ k # 0 THEN spans[k].dur ELSE 0]
             step == [p \in (0..n) \X Int |-> p[2] + part[p[1]]]
             t == Upto(spans, S)
  <1>1. n \in Nat /\ n \in Int /\ 0 \in Int /\ 0 <= n /\ n \in 0..n /\ DOMAIN spans = 1..n
    OBVIOUS
  <1>2. \A k \in 0..n : part[k] \in Int
    <2>1. \A k \in 1..n : spans[k] \in E
      OBVIOUS
    <2>2. \A k \in 0..n : k # 0 => spans[k].dur \in Int
      BY <1>1, <2>1
    <2>3. QED
      BY <1>1, <2>2
  <1>3. \A k \in 1..n : part[k] = IF k \in S THEN spans[k].dur ELSE 0
    BY <1>1
  <1> HIDE DEF n, part
  <1>4. step \in [(0..n) \X Int -> Int]
    BY <1>2
  <1>5. \A k \in 0..n : \A a \in Int : step[<<k, a>>] = a + part[k]
    OBVIOUS
  <1> HIDE DEF step
  <1>6. PICK b \in [0..n -> Int] : Recurs(b, 0, n, 0, step)
    BY <1>1, <1>4, RecursionIsSound
  <1>7. \A k \in 0..n :
            b[k] = IF k = 0 THEN 0 ELSE b[k - 1] + (IF k \in S THEN spans[k].dur ELSE 0)
    <2> TAKE k \in 0..n
    <2>1. b[k] = IF k = 0 THEN 0 ELSE step[<<k, b[k - 1]>>]
      BY <1>6 DEF Recurs
    <2>2. CASE k = 0
      BY <2>1, <2>2
    <2>3. CASE k # 0
      <3>1. k - 1 \in 0..n /\ k \in 1..n
        BY <1>1, <2>3
      <3>2. b[k - 1] \in Int
        BY <3>1
      <3>3. b[k] = b[k - 1] + part[k]
        BY <1>5, <2>1, <2>3, <3>2
      <3>4. QED
        BY <1>3, <2>3, <3>1, <3>3
    <2>4. QED
      BY <2>2, <2>3
  <1>8. Adds(b, spans, S)
    <2>1. b = [k \in 0..n |-> b[k]]
      OBVIOUS
    <2>2. QED
      BY <1>7, <2>1 DEF Adds, n
  <1>9. Adds(t, spans, S)
    BY <1>8 DEF Upto
  <1>10. Total(spans, S) = t[n]
    BY DEF Total, Upto, Adds, n
  <1> HIDE DEF t
  <1> DEFINE Good == {k \in 0..n : t[k] \in Int}
  <1>11. \A k \in 0..n :
             t[k] = IF k = 0 THEN 0 ELSE t[k - 1] + (IF k \in S THEN spans[k].dur ELSE 0)
    BY <1>9 DEF Adds, n
  <1>12. 0 \in Good
    BY <1>1, <1>11
  <1>13. ASSUME NEW k \in 0..n, k + 1 \in 0..n, k \in Good PROVE k + 1 \in Good
    <2>1. k + 1 \in 1..n /\ k + 1 # 0 /\ (k + 1) - 1 = k
      BY <1>13
    <2>2. t[k + 1] = t[k] + part[k + 1]
      BY <1>3, <1>11, <1>13, <2>1
    <2>3. QED
      BY <1>2, <1>13, <2>2
  <1> HIDE DEF Good
  <1>14. \A k \in 0..n : k \in Good
    BY <1>1, <1>12, <1>13, Onwards
  <1>15. QED
    BY <1>9, <1>10, <1>14 DEF Good, n, t

\* A span more adds its duration.
LEMMA TotalGrows ==
    ASSUME NEW E, NEW spans \in Seq(E), \A e \in E : e.dur \in Int
    PROVE  /\ Total(spans, {}) = 0
           /\ \A S : Total(spans, S) \in Int
           /\ \A S : \A i \in DOMAIN spans :
                 i \notin S => Total(spans, S \cup {i}) = Total(spans, S) + spans[i].dur
  <1> DEFINE n == Len(spans)
             t(S) == Upto(spans, S)
  <1>1. /\ n \in Nat /\ n \in Int /\ 0 \in Int /\ n \in 0..n /\ DOMAIN spans = 1..n
        /\ \A i \in 1..n : spans[i].dur \in Int
    <2>1. /\ n \in Nat /\ n \in Int /\ 0 \in Int /\ n \in 0..n /\ DOMAIN spans = 1..n
          /\ \A i \in 1..n : spans[i] \in E
      OBVIOUS
    <2>2. QED
      BY <2>1
  <1>2. \A S : /\ Total(spans, S) = t(S)[n]
               /\ \A k \in 0..n : t(S)[k] \in Int
               /\ \A k \in 0..n : t(S)[k] =
                     IF k = 0 THEN 0 ELSE t(S)[k - 1] + (IF k \in S THEN spans[k].dur ELSE 0)
    <2> TAKE S
    <2>1. /\ Total(spans, S) = Upto(spans, S)[Len(spans)]
          /\ Adds(Upto(spans, S), spans, S)
          /\ \A k \in 0..Len(spans) : Upto(spans, S)[k] \in Int
      BY TotalIsASum
    <2>2. QED
      BY <2>1 DEF Adds
  <1> HIDE DEF n, t
  <1>3. Total(spans, {}) = 0
    <2> DEFINE Good == {k \in 0..n : t({})[k] = 0}
    <2>1. 0 \in Good
      BY <1>1, <1>2
    <2>2. ASSUME NEW k \in 0..n, k + 1 \in 0..n, k \in Good PROVE k + 1 \in Good
      <3>1. k + 1 # 0 /\ (k + 1) - 1 = k
        BY <2>2
      <3>2. t({})[k + 1] = t({})[k] + 0
        BY <1>2, <2>2, <3>1
      <3>3. QED
        BY <2>2, <3>2
    <2> HIDE DEF Good
    <2>3. \A k \in 0..n : k \in Good
      BY <1>1, <2>1, <2>2, Onwards
    <2>4. QED
      BY <1>1, <1>2, <2>3 DEF Good
  <1>4. ASSUME NEW S, NEW i \in 1..n, i \notin S
        PROVE  Total(spans, S \cup {i}) = Total(spans, S) + spans[i].dur
    <2> DEFINE T == S \cup {i}
               d == spans[i].dur
               Good == {k \in 0..n : t(T)[k] = t(S)[k] + (IF i <= k THEN d ELSE 0)}
    <2>1. 0 \in Good
      BY <1>1, <1>2
    <2>2. ASSUME NEW k \in 0..n, k + 1 \in 0..n, k \in Good PROVE k + 1 \in Good
      <3> DEFINE m == k + 1
      <3>1. m # 0 /\ m - 1 = k /\ m \in 1..n
        BY <2>2
      <3>2. /\ t(S)[k] \in Int /\ d \in Int
            /\ t(T)[k] = t(S)[k] + (IF i <= k THEN d ELSE 0)
        BY <1>1, <1>2, <2>2
      <3>3. /\ t(T)[m] = t(T)[k] + (IF m \in T THEN spans[m].dur ELSE 0)
            /\ t(S)[m] = t(S)[k] + (IF m \in S THEN spans[m].dur ELSE 0)
        BY <1>2, <2>2, <3>1
      <3>4. spans[m].dur \in Int
        BY <1>1, <3>1
      <3>5. CASE m = i
        <4>1. m \in T /\ m \notin S /\ i <= m /\ ~(i <= k)
          BY <1>4, <3>1, <3>5
        <4>2. t(T)[m] = t(S)[m] + d
          BY <3>2, <3>3, <3>5, <4>1
        <4>3. QED
          BY <2>2, <4>1, <4>2
      <3>6. CASE m # i
        <4>1. (m \in T <=> m \in S) /\ (i <= m <=> i <= k)
          BY <3>1, <3>6
        <4>2. t(T)[m] = t(S)[m] + (IF i <= k THEN d ELSE 0)
          BY <3>2, <3>3, <3>4, <4>1
        <4>3. QED
          BY <2>2, <4>1, <4>2
      <3>7. QED
        BY <3>5, <3>6
    <2>3. \A k \in 0..n : k \in Good
      <3> HIDE DEF Good
      <3>1. QED
        BY <1>1, <2>1, <2>2, Onwards
    <2>4. t(T)[n] = t(S)[n] + d
      <3>1. n \in Good
        <4> HIDE DEF Good
        <4>1. QED
          BY <1>1, <2>3
      <3>2. i <= n
        OBVIOUS
      <3> HIDE DEF T, d
      <3>3. t(T)[n] = t(S)[n] + (IF i <= n THEN d ELSE 0)
        BY <3>1
      <3>4. QED
        BY <3>2, <3>3
    <2>5. QED
      BY <1>2, <2>4
  <1>5. \A S : Total(spans, S) \in Int
    BY <1>1, <1>2
  <1>6. QED
    BY <1>1, <1>3, <1>4, <1>5

\* A quadratic form that is never negative.
LEMMA FormIsPositive ==
    ASSUME NEW a \in Int, NEW h \in Int, NEW c \in Int, a > 0, a * c >= h * h,
           NEW e \in Int, NEW y \in Int
    PROVE  a * (e * e) + c * (y * y) >= 2 * h * (e * y)
  <1>1. (a * e - h * y) * (a * e - h * y) >= 0
    OBVIOUS
  <1>2. (a * e - h * y) * (a * e - h * y)
            = a * a * (e * e) - 2 * a * h * (e * y) + h * h * (y * y)
    OBVIOUS
  <1>3. (a * c - h * h) * (y * y) >= 0
    OBVIOUS
  <1>4. a * (a * (e * e) + c * (y * y) - 2 * h * (e * y)) >= 0
    BY <1>1, <1>2, <1>3
  <1>5. QED
    BY <1>4

\* Ten times the square of a sum of deviations is at most so many variances.
Within(e, b, v) == 10 * (e * e) <= b * v

\* When the bound b of such a sum carries over to the next one.
Carries(b, next, c) ==
    /\ b > 0 /\ 700 * next > 1000 * b
    /\ (700 * next - 1000 * b) * (b * (147 * next - 10 * c * c))
            >= (100 * b * c) * (100 * b * c)

LEMMA BoundCarries ==
    ASSUME NEW b \in Int, NEW next \in Int, NEW c \in Int, Carries(b, next, c),
           NEW e \in Int, NEW y \in Int, NEW v \in Int, Within(e, b, v)
    PROVE  Within(10 * e + c * y, next, 147 * (y * y) + 70 * v)
  <1> DEFINE A == 700 * next - 1000 * b
             H == 100 * b * c
             C == b * (147 * next - 10 * c * c)
             X == A * (e * e) + C * (y * y) - 2 * H * (e * y)
             N == next * (b * v - 10 * (e * e))
             q == next * (147 * (y * y) + 70 * v) - 10 * ((10 * e + c * y) * (10 * e + c * y))
  <1>1. X >= 0
    <2>1. A \in Int /\ H \in Int /\ C \in Int /\ A > 0 /\ A * C >= H * H
      BY DEF Carries
    <2> HIDE DEF A, H, C
    <2>2. A * (e * e) + C * (y * y) >= 2 * H * (e * y)
      BY <2>1, FormIsPositive
    <2>3. QED
      BY <2>1, <2>2
  <1>2. N >= 0
    <2>1. next >= 0 /\ b * v - 10 * (e * e) >= 0
      BY DEF Carries, Within
    <2>2. \A p, r \in Int : p >= 0 /\ r >= 0 => p * r >= 0
      OBVIOUS
    <2>3. QED
      BY <2>1, <2>2
  <1>3. b * q = X + 70 * N
    OBVIOUS
  <1>4. X \in Int /\ N \in Int /\ q \in Int
    OBVIOUS
  <1>5. b > 0
    BY DEF Carries
  <1> HIDE DEF X, N, q
  <1>6. q >= 0
    <2>1. b * q >= 0
      BY <1>1, <1>2, <1>3, <1>4
    <2>2. \A p, r \in Int : p > 0 /\ p * r >= 0 => r >= 0
      OBVIOUS
    <2>3. QED
      BY <1>4, <1>5, <2>1, <2>2
  <1>7. QED
    BY <1>6 DEF q, Within
Bounds == <<4, 7, 11, 16, 25, 41, 67, 110, 177, 281>>
\* One span more.
LEMMA BoundGrows ==
    ASSUME NEW j \in 1..9, NEW e \in Int, NEW y \in Int, NEW v \in Int,
           Within(e, Bounds[j], v)
    PROVE  Within(10 * e + (7 - 3 * j) * y, Bounds[j + 1], 147 * (y * y) + 70 * v)
  <1>1. /\ Bounds[1] = 4 /\ Bounds[2] = 7 /\ Bounds[3] = 11 /\ Bounds[4] = 16 /\ Bounds[5] = 25
        /\ Bounds[6] = 41 /\ Bounds[7] = 67 /\ Bounds[8] = 110 /\ Bounds[9] = 177
        /\ Bounds[10] = 281
    BY DEF Bounds
  <1>2. j \in {1, 2, 3, 4, 5, 6, 7, 8, 9}
    OBVIOUS
  <1> DEFINE b == Bounds[j]
             n == Bounds[j + 1]
             c == 7 - 3 * j
  <1>3. b \in Int /\ n \in Int /\ c \in Int
    BY <1>1, <1>2
  <1>4. Carries(b, n, c)
    BY <1>1, <1>2 DEF Carries
  <1>5. Within(e, b, v)
    OBVIOUS
  <1> HIDE DEF b, n, c
  <1>6. Within(10 * e + c * y, n, 147 * (y * y) + 70 * v)
    BY <1>3, <1>4, <1>5, BoundCarries
  <1>7. QED
    BY <1>6 DEF b, n, c

-------------------------------------------------------------------------------
\* What the baseline asks of its values after each duration.
Updates(base, series) ==
    base = [k \in DOMAIN series |->
               IF k = 1 THEN [unit |-> 1, mean |-> series[1], var |-> 0]
               ELSE Updated(base[k - 1], series[k])]

Bases == [unit : Int, mean : Int, var : Int]

\* There are such values, and the baseline is the last.
LEMMA EwmaIsUpdated ==
    ASSUME NEW series \in Seq(Int), series # <<>>
    PROVE  \E base \in [1..Len(series) -> Bases] :
              Updates(base, series) /\ Ewma(series) = base[Len(series)]
  <1> DEFINE n == Len(series)
             first == [unit |-> 1, mean |-> series[1], var |-> 0]
             step == [p \in (1..n) \X Bases |-> Updated(p[2], series[p[1]])]
             chosen == CHOOSE base : Updates(base, series)
  <1>1. n \in Int /\ 1 \in Int /\ 1 <= n /\ DOMAIN series = 1..n /\ \A k \in 1..n : series[k] \in Int
    OBVIOUS
  <1>2. first \in Bases
    BY <1>1 DEF Bases
  <1>3. step \in [(1..n) \X Bases -> Bases]
    <2>1. ASSUME NEW b \in Bases, NEW x \in Int PROVE Updated(b, x) \in Bases
      <3> DEFINE mean == 3 * x * b.unit + 7 * b.mean
                 diff == 10 * x * b.unit - mean
      <3>1. b.unit \in Int /\ b.mean \in Int /\ b.var \in Int
        BY DEF Bases
      <3>2. mean \in Int
        BY <3>1
      <3>3. diff \in Int
        BY <3>1, <3>2
      <3>4. 3 * diff * diff + 70 * b.var \in Int /\ 10 * b.unit \in Int
        <4> HIDE DEF diff
        <4>1. QED
          BY <3>1, <3>3
      <3>5. Updated(b, x) = [unit |-> 10 * b.unit, mean |-> mean,
                             var |-> 3 * diff * diff + 70 * b.var]
        BY DEF Updated
      <3> HIDE DEF mean, diff
      <3>6. QED
        BY <3>2, <3>4, <3>5 DEF Bases
    <2>2. QED
      BY <1>1, <2>1
  <1>4. \A k \in 1..n : \A b \in Bases : step[<<k, b>>] = Updated(b, series[k])
    OBVIOUS
  <1> HIDE DEF n, first, step
  <1>5. PICK b \in [1..n -> Bases] : Recurs(b, 1, n, first, step)
    BY <1>1, <1>2, <1>3, RecursionIsSound
  <1>6. Updates(b, series)
    <2>1. \A k \in 1..n : b[k] = IF k = 1 THEN first ELSE Updated(b[k - 1], series[k])
      <3> TAKE k \in 1..n
      <3>1. b[k] = IF k = 1 THEN first ELSE step[<<k, b[k - 1]>>]
        BY <1>5 DEF Recurs
      <3>2. CASE k # 1
        <4>1. k - 1 \in 1..n
          BY <1>1, <3>2
        <4>2. QED
          BY <1>4, <3>1, <3>2, <4>1
      <3>3. QED
        BY <3>1, <3>2
    <2>2. b = [k \in 1..n |-> b[k]]
      OBVIOUS
    <2>3. QED
      BY <1>1, <2>1, <2>2 DEF Updates, first
  <1>7. Updates(chosen, series)
    BY <1>6
  <1>8. Ewma(series) = chosen[n]
    BY DEF Ewma, Updates, n
  <1> HIDE DEF chosen
  <1>9. \A k \in 1..n : chosen[k] = IF k = 1 THEN first ELSE Updated(chosen[k - 1], series[k])
    BY <1>1, <1>7 DEF Updates, first
  <1>10. \A k \in 1..n : chosen[k] \in Bases
    <2> DEFINE Good == {k \in 1..n : chosen[k] \in Bases}
    <2>1. 1 \in Good
      BY <1>1, <1>2, <1>9
    <2>2. ASSUME NEW k \in 1..n, k + 1 \in 1..n, k \in Good PROVE k + 1 \in Good
      <3>1. k + 1 # 1 /\ (k + 1) - 1 = k
        OBVIOUS
      <3>2. chosen[k + 1] = Updated(chosen[k], series[k + 1])
        BY <1>9, <2>2, <3>1
      <3>3. step[<<k + 1, chosen[k]>>] \in Bases
        BY <1>3, <2>2
      <3>4. QED
        BY <1>4, <2>2, <3>2, <3>3
    <2> HIDE DEF Good
    <2>3. \A k \in 1..n : k \in Good
      BY <1>1, <2>1, <2>2, Onwards
    <2>4. QED
      BY <2>3 DEF Good
  <1>11. chosen \in [1..n -> Bases]
    <2>1. chosen = [k \in 1..n |-> chosen[k]]
      BY <1>1, <1>7 DEF Updates
    <2>2. QED
      BY <1>10, <2>1
  <1>12. QED
    BY <1>7, <1>8, <1>11 DEF n

\* How far the sum of the last w durations may be from w times the mean, after k of them.
Near(base, sums, k, w) ==
    Within(sums[<<k, w>>] * base[k].unit - w * base[k].mean, Bounds[w], base[k].var)

\* What a value adds to the sum of those before it.
Sums(sums, n, series) ==
    /\ \A k \in 1..n : sums[<<k, 1>>] = series[k]
    /\ \A k \in 1..n, w \in 1..9 :
          k + 1 \in 1..n /\ w <= k => sums[<<k + 1, w + 1>>] = sums[<<k, w>>] + series[k + 1]

\* One value more moves the baseline with it.
LEMMA UpdateStaysNear ==
    ASSUME NEW b \in Bases, NEW x \in Int, NEW c, c = Updated(b, x), b.var >= 0
    PROVE  /\ c.var >= 0
           /\ Within(x * c.unit - 1 * c.mean, Bounds[1], c.var)
           /\ \A w \in 1..9 : \A t \in Int :
                 Within(t * b.unit - w * b.mean, Bounds[w], b.var)
                     => Within((t + x) * c.unit - (w + 1) * c.mean, Bounds[w + 1], c.var)
  <1> DEFINE u == b.unit
             m == b.mean
             v == b.var
             y == x * u - m
             next == 147 * (y * y) + 70 * v
  <1>1. u \in Int /\ m \in Int /\ v \in Int /\ v >= 0
    BY DEF Bases
  <1>2. /\ c.unit = 10 * u /\ c.mean = 3 * x * u + 7 * m
        /\ c.var = 3 * (10 * x * u - (3 * x * u + 7 * m)) * (10 * x * u - (3 * x * u + 7 * m)) + 70 * v
    BY DEF Updated
  <1> HIDE DEF u, m, v
  <1>3. y \in Int /\ 10 * x * u - (3 * x * u + 7 * m) = 7 * y
    BY <1>1
  <1> HIDE DEF y
  <1>4. c.var = next
    <2>1. c.var = 3 * (7 * y) * (7 * y) + 70 * v
      BY <1>2, <1>3
    <2>2. 3 * (7 * y) * (7 * y) = 147 * (y * y)
      BY <1>3
    <2>3. QED
      BY <2>1, <2>2
  <1>5. y * y \in Int /\ y * y >= 0
    BY <1>3
  <1>6. next \in Int /\ next >= 0
    BY <1>1, <1>5
  <1>7. Within(x * c.unit - 1 * c.mean, Bounds[1], c.var)
    <2>1. x * c.unit - 1 * c.mean = 7 * y
      BY <1>1, <1>2, <1>3
    <2>2. (7 * y) * (7 * y) = 49 * (y * y)
      BY <1>3
    <2>3. Bounds[1] = 4
      BY DEF Bounds
    <2>4. 10 * (49 * (y * y)) <= 4 * next
      BY <1>1, <1>5
    <2>5. QED
      BY <1>4, <2>1, <2>2, <2>3, <2>4 DEF Within
  <1>8. ASSUME NEW w \in 1..9, NEW t \in Int, Within(t * u - w * m, Bounds[w], v)
        PROVE  Within((t + x) * c.unit - (w + 1) * c.mean, Bounds[w + 1], c.var)
    <2> DEFINE e == t * u - w * m
    <2>1. e \in Int
      BY <1>1
    <2>2. (t + x) * c.unit - (w + 1) * c.mean = 10 * e + (7 - 3 * w) * y
      BY <1>1, <1>2 DEF y
    <2> HIDE DEF e, next
    <2>3. Within(10 * e + (7 - 3 * w) * y, Bounds[w + 1], 147 * (y * y) + 70 * v)
      <3>1. Within(e, Bounds[w], v)
        BY <1>8 DEF e
      <3>2. QED
        BY <1>1, <1>3, <2>1, <3>1, BoundGrows
    <2>4. QED
      BY <1>4, <2>2, <2>3 DEF next
  <1>9. QED
    BY <1>4, <1>6, <1>7, <1>8 DEF u, m, v

\* A baseline is never far from the mean of the last values it is made of.
LEMMA BaselineIsNear ==
    ASSUME NEW n \in Nat \ {0}, NEW series \in [1..n -> Int], NEW base \in [1..n -> Bases],
           Updates(base, series), NEW sums \in [(1..n) \X (1..10) -> Int], Sums(sums, n, series)
    PROVE  \A k \in 1..n : base[k].var >= 0 /\ \A w \in 1..10 : w <= k => Near(base, sums, k, w)
  <1> DEFINE Good == {k \in 1..n : /\ base[k].var >= 0
                                   /\ \A w \in 1..10 : w <= k => Near(base, sums, k, w)}
  <1>1. n \in Int /\ 1 \in Int /\ 1 \in 1..n
    OBVIOUS
  <1>2. \A k \in 1..n : base[k] = IF k = 1 THEN [unit |-> 1, mean |-> series[1], var |-> 0]
                                  ELSE Updated(base[k - 1], series[k])
    BY DEF Updates
  <1>3. 1 \in Good
    <2>1. base[1] = [unit |-> 1, mean |-> series[1], var |-> 0]
      BY <1>1, <1>2
    <2>2. sums[<<1, 1>>] = series[1] /\ series[1] \in Int
      BY <1>1 DEF Sums
    <2>3. sums[<<1, 1>>] * base[1].unit - 1 * base[1].mean = 0
      BY <2>1, <2>2
    <2>4. Near(base, sums, 1, 1)
      BY <2>1, <2>3 DEF Near, Within, Bounds
    <2>5. \A w \in 1..10 : w <= 1 => w = 1
      OBVIOUS
    <2>6. QED
      BY <1>1, <2>1, <2>4, <2>5
  <1>4. ASSUME NEW k \in 1..n, k + 1 \in 1..n, k \in Good PROVE k + 1 \in Good
    <2> DEFINE b == base[k]
               c == base[k + 1]
               x == series[k + 1]
    <2>1. (k + 1) # 1 /\ (k + 1) - 1 = k
      OBVIOUS
    <2>2. c = Updated(b, x) /\ b \in Bases /\ x \in Int
      BY <1>2, <1>4, <2>1
    <2>3. b.var >= 0 /\ \A w \in 1..10 : w <= k => Near(base, sums, k, w)
      BY <1>4
    <2> HIDE DEF Good
    <2>4. /\ c.var >= 0
          /\ Within(x * c.unit - 1 * c.mean, Bounds[1], c.var)
          /\ \A w \in 1..9 : \A t \in Int :
                Within(t * b.unit - w * b.mean, Bounds[w], b.var)
                    => Within((t + x) * c.unit - (w + 1) * c.mean, Bounds[w + 1], c.var)
      <3> HIDE DEF b, c, x
      <3>1. QED
        BY <2>2, <2>3, UpdateStaysNear
    <2>5. ASSUME NEW w \in 1..10, w <= k + 1 PROVE Near(base, sums, k + 1, w)
      <3>1. CASE w = 1
        <4>1. sums[<<k + 1, 1>>] = x
          BY <1>4 DEF Sums
        <4>2. QED
          BY <2>4, <3>1, <4>1 DEF Near
      <3>2. CASE w # 1
        <4> DEFINE j == w - 1
                   t == sums[<<k, j>>]
        <4>1. j \in 1..9 /\ j \in 1..10 /\ j <= k /\ j + 1 = w
          BY <2>5, <3>2
        <4>2. t \in Int /\ sums[<<k + 1, w>>] = t + x
          <5>1. sums[<<k + 1, j + 1>>] = sums[<<k, j>>] + series[k + 1]
            BY <1>4, <4>1 DEF Sums
          <5>2. <<k, j>> \in (1..n) \X (1..10)
            BY <4>1
          <5>3. QED
            BY <4>1, <5>1, <5>2
        <4>3. Within(t * b.unit - j * b.mean, Bounds[j], b.var)
          BY <2>3, <4>1 DEF Near
        <4> HIDE DEF j, t, b, c, x
        <4>4. Within((t + x) * c.unit - (j + 1) * c.mean, Bounds[j + 1], c.var)
          BY <2>4, <4>1, <4>2, <4>3
        <4>5. QED
          BY <4>1, <4>2, <4>4 DEF Near, c
      <3>3. QED
        BY <3>1, <3>2
    <2>6. QED
      BY <1>4, <2>4, <2>5 DEF Good
  <1> HIDE DEF Good
  <1>5. \A k \in 1..n : k \in Good
    BY <1>1, <1>3, <1>4, Onwards
  <1>6. QED
    BY <1>5 DEF Good

\* What is so near is no spike.
LEMMA NearIsNoSpike ==
    ASSUME NEW total \in Int, NEW w \in 1..10, NEW base \in Bases, base.var >= 0,
           Within(total * base.unit - w * base.mean, Bounds[w], base.var)
    PROVE  ZScore(total, w, base) \in 0..2
  <1> DEFINE diff == total * base.unit - w * base.mean
             v == base.var
             reached == {z \in 1..10 : 10 * diff * diff >= z * z * w * w * base.var}
  <1>1. diff \in Int /\ v \in Int /\ v >= 0 /\ 10 * (diff * diff) <= Bounds[w] * v
    BY DEF Bases, Within
  <1>2. Bounds[w] \in Int /\ Bounds[w] < 9 * w * w
    <2>1. w \in {1, 2, 3, 4, 5, 6, 7, 8, 9, 10}
      OBVIOUS
    <2>2. QED
      BY <2>1 DEF Bounds
  <1>3. ZScore(total, w, base) =
            IF v = 0 THEN IF diff = 0 THEN 0 ELSE 10 ELSE Max({0} \cup reached)
    BY DEF ZScore
  <1>4. reached = {z \in 1..10 : 10 * diff * diff >= z * z * w * w * v}
    OBVIOUS
  <1> HIDE DEF diff, v, reached
  <1>5. CASE v = 0
    <2>1. 10 * (diff * diff) <= 0
      BY <1>1, <1>2, <1>5
    <2>2. diff = 0
      BY <1>1, <2>1
    <2>3. QED
      BY <1>3, <1>5, <2>2
  <1>6. CASE v # 0
    <2>1. v > 0
      BY <1>1, <1>6
    <2>2. ASSUME NEW z \in 3..10 PROVE z \notin reached
      <3>1. Bounds[w] * v < (9 * w * w) * v
        BY <1>1, <1>2, <2>1
      <3>2. z * z >= 9 /\ z * z \in Int
        OBVIOUS
      <3>3. w * w * v \in Int /\ w * w * v > 0
        BY <1>1, <2>1
      <3>4. (z * z) * (w * w * v) >= 9 * (w * w * v)
        <4> DEFINE p == z * z
                   q == w * w * v
        <4> HIDE DEF p, q
        <4>1. p * q >= 9 * q
          BY <3>2, <3>3 DEF p, q
        <4>2. QED
          BY <4>1 DEF p, q
      <3>5. /\ z * z * w * w * v = (z * z) * (w * w * v) /\ (9 * w * w) * v = 9 * (w * w * v)
            /\ 10 * diff * diff = 10 * (diff * diff)
        BY <1>1
      <3>6. 10 * diff * diff < z * z * w * w * v
        BY <1>1, <1>2, <3>1, <3>3, <3>4, <3>5
      <3>7. QED
        BY <1>1, <1>4, <3>6
    <2>3. {0} \cup reached \in SUBSET (0..2)
      BY <1>4, <2>2
    <2>4. Max({0} \cup reached) \in 0..2
      BY <2>3, GreatestUpTo
    <2>5. QED
      BY <1>3, <1>6, <2>4
  <1>7. QED
    BY <1>5, <1>6
-------------------------------------------------------------------------------
\* The indices of a sequence at the places it has them, and each once.
Lists(at, S) == at \in Seq(S) /\ \A k, l \in 1..Len(at) : at[k] = at[l] => k = l

\* What is in the order of the start times is still what was there.
LEMMA InTimeLists ==
    ASSUME NEW E, NEW spans \in Seq(E), \A e \in E : e.start \in Int,
           NEW S \in SUBSET DOMAIN spans
    PROVE  Lists(InTime(spans, S), S) /\ Len(InTime(spans, S)) = Cardinality(S)
  <1> DEFINE id == [i \in DOMAIN spans |-> i]
             kept == Pick(id, S)
             key == [k \in DOMAIN kept |-> -spans[kept[k]].start]
             out == SortedDown(kept, key)
  <1>1. id \in Seq(DOMAIN spans) /\ DOMAIN id = DOMAIN spans
    <2>1. DOMAIN spans = 1..Len(spans) /\ Len(spans) \in Nat
      OBVIOUS
    <2>2. QED
      BY <2>1
  <1>2. \A i \in DOMAIN spans : id[i] = i
    OBVIOUS
  <1>3. InTime(spans, S) = out
    BY DEF InTime
  <1> HIDE DEF id, kept
  <1>4. kept \in Seq(DOMAIN spans) /\ Len(kept) = Cardinality(S) /\ \E p : Arranges(p, kept, id, S)
    BY <1>1, PickKeeps DEF kept
  <1>5. PICK p : Arranges(p, kept, id, S)
    BY <1>4
  <1>6. /\ DOMAIN kept = 1..Len(kept)
        /\ \A k \in 1..Len(kept) : p[k] \in S /\ kept[k] = p[k]
        /\ \A k, l \in 1..Len(kept) : p[k] = p[l] => k = l
    <2>1. DOMAIN kept = 1..Len(kept)
      BY <1>4
    <2>2. QED
      BY <1>2, <1>5, <2>1 DEF Arranges, Bijection, Injection, Surjection, IsInjective
  <1>7. \A k \in DOMAIN kept : key[k] \in Int
    <2>1. \A i \in DOMAIN spans : spans[i].start \in Int
      OBVIOUS
    <2>2. QED
      BY <1>6, <2>1
  <1>8. kept \in Seq(S)
    <2>1. Len(kept) \in Nat
      BY <1>4
    <2>2. \A k \in 1..Len(kept) : kept[k] \in S
      BY <1>6
    <2>3. QED
      BY <1>4, <2>2
  <1> HIDE DEF key, out
  <1>9. out \in Seq(S) /\ Len(out) = Len(kept) /\ \E q : Arranges(q, out, kept, DOMAIN kept)
    BY <1>7, <1>8, SortedDownSorts DEF out
  <1>10. PICK q : Arranges(q, out, kept, DOMAIN kept)
    BY <1>9
  <1>11. \A k, l \in 1..Len(out) : out[k] = out[l] => k = l
    <2>1. /\ \A k \in 1..Len(out) : q[k] \in DOMAIN kept /\ out[k] = kept[q[k]]
          /\ \A k, l \in 1..Len(out) : q[k] = q[l] => k = l
      BY <1>10 DEF Arranges, Bijection, Injection, Surjection, IsInjective
    <2>2. QED
      BY <1>6, <2>1
  <1>12. QED
    BY <1>3, <1>4, <1>9, <1>11 DEF Lists

\* The last of a list, which are as many as asked for if there are.
LEMMA LastOfList ==
    ASSUME NEW S, NEW at, Lists(at, S), Len(at) # 0, NEW m \in Nat \ {0}
    PROVE  /\ Lists(LastOf(at, m), S)
           /\ Len(LastOf(at, m)) \in 1..m
           /\ Len(LastOf(at, m)) = m \/ Len(LastOf(at, m)) = Len(at)
           /\ Len(LastOf(at, m)) <= Len(at)
           /\ \A k \in 1..Len(LastOf(at, m)) :
                 LastOf(at, m)[k] = at[Len(at) - Len(LastOf(at, m)) + k]
  <1> DEFINE n == Len(at)
             a == Max({1, n - m + 1})
             out == LastOf(at, m)
  <1>1. n \in Nat /\ n # 0 /\ at \in Seq(S) /\ \A k, l \in 1..n : at[k] = at[l] => k = l
    BY DEF Lists
  <1>2. a \in {1, n - m + 1} /\ a >= 1 /\ a >= n - m + 1
    <2>1. 1 \in Int /\ n - m + 1 \in Int
      BY <1>1
    <2> HIDE DEF n
    <2>2. QED
      BY <2>1, GreaterOf
  <1>3. out = SubSeq(at, a, n)
    BY DEF LastOf
  <1> HIDE DEF a, out
  <1>4. a \in 1..n
    BY <1>1, <1>2
  <1>5. out \in Seq(S) /\ Len(out) = n - a + 1 /\ \A k \in 1..(n - a + 1) : out[k] = at[a + k - 1]
    BY <1>1, <1>3, <1>4
  <1>6. Len(out) \in 1..m /\ (Len(out) = m \/ Len(out) = n) /\ Len(out) <= n
    BY <1>1, <1>2, <1>4, <1>5
  <1>7. \A k \in 1..Len(out) : out[k] = at[n - Len(out) + k] /\ n - Len(out) + k \in 1..n
    BY <1>1, <1>4, <1>5
  <1>8. \A k, l \in 1..Len(out) : out[k] = out[l] => k = l
    <2> TAKE k, l \in 1..Len(out)
    <2> HAVE out[k] = out[l]
    <2>1. n - Len(out) + k = n - Len(out) + l
      BY <1>1, <1>7
    <2>2. QED
      BY <1>1, <1>6, <2>1
  <1>9. QED
    BY <1>5, <1>6, <1>7, <1>8 DEF Lists, out
-------------------------------------------------------------------------------
\* The spans a baseline is made of are spans of its service, and some if it has any.
LEMMA BaselineHasSpans ==
    ASSUME NEW E, NEW spans \in Seq(E), NEW svc, SpansOf(spans, svc) # {}
    PROVE  /\ BaselineSpans(spans, svc) \in SUBSET DOMAIN spans
           /\ Cardinality(BaselineSpans(spans, svc)) \in Nat \ {0}
  <1> DEFINE requests == {i \in SpansOf(spans, svc) : spans[i].request}
  <1>1. SpansOf(spans, svc) \in SUBSET DOMAIN spans
    BY DEF SpansOf
  <1>2. requests \in SUBSET SpansOf(spans, svc)
    OBVIOUS
  <1>3. BaselineSpans(spans, svc) =
            IF Cardinality(requests) < 2 THEN SpansOf(spans, svc) ELSE requests
    BY DEF BaselineSpans
  <1> HIDE DEF requests
  <1>4. /\ Cardinality(SpansOf(spans, svc)) \in 0..Len(spans)
        /\ Cardinality(SpansOf(spans, svc)) # 0
    BY SpansAreCounted
  <1>5. Cardinality(requests) \in 0..Len(spans)
    BY <1>2, SpansAreCounted
  <1>6. Len(spans) \in Nat
    OBVIOUS
  <1>7. QED
    BY <1>1, <1>2, <1>3, <1>4, <1>5, <1>6

\* The indices at the places of an interval.
At(at, from, to) == {at[i] : i \in from..to}

\* The durations of the spans at the places, and the sums of the last w up to each.
Durations(spans, at) == [k \in DOMAIN at |-> spans[at[k]].dur]

PartialSums(spans, at) ==
    [p \in (1..Len(at)) \X (1..10) |-> Total(spans, At(at, p[1] - p[2] + 1, p[1]))]

\* They are numbers, and each sum is one with a duration added.
LEMMA PlacesAdd ==
    ASSUME NEW E, NEW spans \in Seq(E), \A e \in E : e.dur \in Int,
           NEW at, Lists(at, DOMAIN spans)
    PROVE  /\ Durations(spans, at) \in Seq(Int) /\ Len(Durations(spans, at)) = Len(at)
           /\ Durations(spans, at) \in [1..Len(at) -> Int]
           /\ PartialSums(spans, at) \in [(1..Len(at)) \X (1..10) -> Int]
           /\ Sums(PartialSums(spans, at), Len(at), Durations(spans, at))
  <1> DEFINE n == Len(at)
             series == Durations(spans, at)
             sums == PartialSums(spans, at)
  <1>0. /\ series = [k \in DOMAIN at |-> spans[at[k]].dur]
        /\ sums = [p \in (1..n) \X (1..10) |->
                      Total(spans, At(at, p[1] - p[2] + 1, p[1]))]
    BY DEF Durations, PartialSums
  <1> HIDE DEF n, series, sums
  <1>1. /\ n \in Nat /\ DOMAIN at = 1..n /\ \A k \in 1..n : at[k] \in DOMAIN spans
        /\ \A k, l \in 1..n : at[k] = at[l] => k = l
    <2> DEFINE D == DOMAIN spans
    <2> HIDE DEF D
    <2>1. at \in Seq(D) /\ \A k, l \in 1..n : at[k] = at[l] => k = l
      BY DEF Lists, D, n
    <2>2. n \in Nat /\ DOMAIN at = 1..n /\ \A k \in 1..n : at[k] \in D
      BY <2>1 DEF n
    <2>3. QED
      BY <2>1, <2>2 DEF D
  <1>2. /\ Total(spans, {}) = 0
        /\ \A S : Total(spans, S) \in Int
        /\ \A S : \A i \in DOMAIN spans :
              i \notin S => Total(spans, S \cup {i}) = Total(spans, S) + spans[i].dur
    BY TotalGrows
  <1>3. \A k \in 1..n : series[k] = spans[at[k]].dur /\ series[k] \in Int
    <2>1. \A i \in DOMAIN spans : spans[i].dur \in Int
      OBVIOUS
    <2>2. QED
      BY <1>1, <1>0, <2>1
  <1>4. series \in [1..n -> Int]
    BY <1>1, <1>3, <1>0
  <1>5. series \in Seq(Int) /\ Len(series) = n
    BY <1>1, <1>4
  <1>6. sums \in [(1..n) \X (1..10) -> Int]
    BY <1>2, <1>0
  <1>7. ASSUME NEW k \in 1..n PROVE sums[<<k, 1>>] = series[k]
    <2>1. At(at, k - 1 + 1, k) = {} \cup {at[k]}
      BY DEF At
    <2>2. sums[<<k, 1>>] = Total(spans, At(at, k - 1 + 1, k))
      BY <1>0
    <2>3. Total(spans, {} \cup {at[k]}) = 0 + spans[at[k]].dur
      BY <1>1, <1>2
    <2>4. sums[<<k, 1>>] = 0 + spans[at[k]].dur
      BY <2>1, <2>2, <2>3, Zenon
    <2>5. series[k] = spans[at[k]].dur /\ spans[at[k]].dur \in Int
      BY <1>3
    <2>6. \A d \in Int : 0 + d = d
      OBVIOUS
    <2>7. QED
      BY <2>4, <2>5, <2>6, Zenon
  <1>8. ASSUME NEW k \in 1..n, NEW w \in 1..9, k + 1 \in 1..n, w <= k
        PROVE  sums[<<k + 1, w + 1>>] = sums[<<k, w>>] + series[k + 1]
    <2> DEFINE S == At(at, k - w + 1, k)
    <2>1. At(at, (k + 1) - (w + 1) + 1, k + 1) = S \cup {at[k + 1]}
      <3>1. (k + 1) - (w + 1) + 1 = k - w + 1
        OBVIOUS
      <3>2. \A i : i \in (k - w + 1)..(k + 1) <=> i \in (k - w + 1)..k \/ i = k + 1
        BY <1>8
      <3>3. QED
        BY <3>1, <3>2 DEF At
    <2>2. at[k + 1] \notin S
      <3>1. \A i \in (k - w + 1)..k : i \in 1..n /\ i # k + 1
        BY <1>1, <1>8
      <3>2. QED
        BY <1>1, <1>8, <3>1 DEF At
    <2>3. /\ sums[<<k + 1, w + 1>>] = Total(spans, At(at, (k + 1) - (w + 1) + 1, k + 1))
          /\ sums[<<k, w>>] = Total(spans, S)
      BY <1>8, <1>0
    <2> HIDE DEF S
    <2>4. Total(spans, S \cup {at[k + 1]}) = Total(spans, S) + spans[at[k + 1]].dur
      BY <1>1, <1>2, <1>8, <2>2
    <2>5. QED
      BY <1>3, <1>8, <2>1, <2>3, <2>4
  <1>9. Sums(sums, n, series)
    BY <1>7, <1>8 DEF Sums
  <1>10. QED
    BY <1>4, <1>5, <1>6, <1>9 DEF n, series, sums

\* The mean of the recent spans is never three deviations off the baseline, which is made
\* of them.
THEOREM LatencyNeverSpikes ==
    ASSUME NEW E, NEW spans \in Seq(E), \A e \in E : e.dur \in Int /\ e.start \in Int,
           NEW svc, SpansOf(spans, svc) # {}
    PROVE  CurrentZ(spans, svc) \in 0..2
  <1> DEFINE B == BaselineSpans(spans, svc)
             times == InTime(spans, B)
             at == Window(spans, svc)
             n == Len(at)
             last == LastOf(at, 10)
             w == Len(last)
             series == Durations(spans, at)
             sums == PartialSums(spans, at)
             recent == Recent(spans, svc)
  <1>1. B \in SUBSET DOMAIN spans /\ Cardinality(B) \in Nat \ {0}
    BY BaselineHasSpans
  <1>2. at = LastOf(times, 100)
    BY DEF Window
  <1>3. recent = Range(last)
    BY DEF Recent
  <1>4. CurrentZ(spans, svc) = ZScore(Total(spans, recent), Cardinality(recent), Ewma(series))
    BY DEF CurrentZ, ZOf, Baseline, Durations
  <1> HIDE DEF B
  <1>5. Lists(times, B) /\ Len(times) = Cardinality(B)
    BY <1>1, InTimeLists
  <1> HIDE DEF times, at
  <1>6. Lists(at, B) /\ n \in 1..100
    <2>1. Lists(times, B) /\ Len(times) # 0 /\ 100 \in Nat \ {0}
      BY <1>1, <1>5
    <2>2. Lists(LastOf(times, 100), B) /\ Len(LastOf(times, 100)) \in 1..100
      BY <2>1, LastOfList
    <2>3. QED
      BY <1>2, <2>2
  <1> HIDE DEF last
  <1>7. /\ Lists(last, B) /\ w \in 1..10 /\ w <= n
        /\ \A k \in 1..w : last[k] = at[n - w + k]
    <2>1. Lists(at, B) /\ n \in 1..100
      BY <1>6
    <2>2. n # 0 /\ 10 \in Nat \ {0}
      <3> HIDE DEF n
      <3>1. QED
        BY <2>1
    <2>3. /\ Lists(LastOf(at, 10), B) /\ Len(LastOf(at, 10)) \in 1..10
          /\ Len(LastOf(at, 10)) <= Len(at)
          /\ \A k \in 1..Len(LastOf(at, 10)) :
                LastOf(at, 10)[k] = at[Len(at) - Len(LastOf(at, 10)) + k]
      BY <2>1, <2>2, LastOfList
    <2>4. QED
      BY <2>3 DEF last
  <1>8. Lists(at, DOMAIN spans)
    <2>1. at \in Seq(B) /\ \A k, l \in 1..Len(at) : at[k] = at[l] => k = l
      BY <1>6 DEF Lists
    <2>2. at \in Seq(DOMAIN spans)
      BY <1>1, <2>1
    <2>3. QED
      BY <2>1, <2>2 DEF Lists
  <1> HIDE DEF n, w, series, sums
  <1>9. /\ series \in [1..n -> Int] /\ series \in Seq(Int) /\ Len(series) = n
        /\ sums \in [(1..n) \X (1..10) -> Int]
        /\ Sums(sums, n, series)
    <2>1. \A e \in E : e.dur \in Int
      OBVIOUS
    <2>2. QED
      BY <1>8, <2>1, PlacesAdd DEF n, series, sums
  <1>10. series # <<>>
    BY <1>6, <1>9
  <1>11. PICK base \in [1..n -> Bases] : Updates(base, series) /\ Ewma(series) = base[n]
    BY <1>9, <1>10, EwmaIsUpdated
  <1>12. base[n].var >= 0 /\ Near(base, sums, n, w)
    <2>1. n \in Nat \ {0} /\ n \in 1..n
      BY <1>6
    <2>2. \A k \in 1..n : base[k].var >= 0 /\ \A v \in 1..10 : v <= k => Near(base, sums, k, v)
      BY <1>9, <1>11, <2>1, BaselineIsNear
    <2>3. QED
      BY <1>7, <2>1, <2>2
  <1>13. recent = At(at, n - w + 1, n) /\ Cardinality(recent) = w
    <2>1. DOMAIN last = 1..w /\ w \in Nat
      BY <1>7 DEF Lists, w
    <2>2. Range(last) = {last[k] : k \in 1..w}
      BY <2>1 DEF Range
    <2>3. {last[k] : k \in 1..w} = At(at, n - w + 1, n)
      <3>1. \A k \in 1..w : n - w + k \in (n - w + 1)..n
        BY <1>6, <1>7
      <3>2. \A i \in (n - w + 1)..n : i - (n - w) \in 1..w /\ n - w + (i - (n - w)) = i
        BY <1>6, <1>7
      <3>3. \A x \in {last[k] : k \in 1..w} : x \in At(at, n - w + 1, n)
        BY <1>7, <3>1 DEF At
      <3>4. \A i \in (n - w + 1)..n : last[i - (n - w)] = at[i]
        BY <1>7, <3>2
      <3>5. \A x \in At(at, n - w + 1, n) : x \in {last[k] : k \in 1..w}
        BY <3>2, <3>4 DEF At
      <3>6. QED
        BY <3>3, <3>5
    <2>4. Cardinality(recent) = w
      <3> DEFINE T == {last[k] : k \in 1..w}
                 f == [k \in 1..w |-> last[k]]
      <3>1. IsFiniteSet(1..w) /\ Cardinality(1..w) = w
        BY <2>1, FS_Interval
      <3>2. \A k, l \in 1..w : last[k] = last[l] => k = l
        BY <1>7 DEF Lists, w
      <3>3. f \in Bijection(1..w, T)
        BY <3>2 DEF Bijection, Injection, Surjection, IsInjective
      <3> HIDE DEF T, f
      <3>4. Cardinality(T) = w
        BY <3>1, <3>3, FS_Bijection DEF ExistsBijection
      <3>5. QED
        BY <1>3, <2>2, <3>4 DEF T
    <2>5. QED
      BY <1>3, <2>2, <2>3, <2>4
  <1>14. sums[<<n, w>>] = Total(spans, recent) /\ Total(spans, recent) \in Int
    <2>1. <<n, w>> \in (1..n) \X (1..10)
      BY <1>6, <1>7
    <2>2. sums[<<n, w>>] = Total(spans, At(at, n - w + 1, n))
      BY <2>1 DEF sums, PartialSums, n
    <2>3. sums[<<n, w>>] \in Int
      BY <1>9, <2>1
    <2>4. QED
      BY <1>13, <2>2, <2>3
  <1>15. base[n] \in Bases
    BY <1>6, <1>11
  <1> HIDE DEF recent
  <1>16. Within(Total(spans, recent) * base[n].unit - w * base[n].mean, Bounds[w], base[n].var)
    BY <1>12, <1>14 DEF Near
  <1>17. ZScore(Total(spans, recent), w, base[n]) \in 0..2
    BY <1>7, <1>12, <1>14, <1>15, <1>16, NearIsNoSpike
  <1>18. QED
    BY <1>4, <1>11, <1>13, <1>17
-------------------------------------------------------------------------------
\* A quotient of so many and a half is that whole number and more.
LEMMA RoundedIsAtLeast ==
    ASSUME NEW a \in Int, NEW b \in Int, b > 0, NEW q \in Int
    PROVE  Rounded(a, b) >= q <=> 2 * a + b >= q * (2 * b)
  <1> DEFINE x == 2 * a + b
             d == 2 * b
             r == x \div d
  <1>1. x \in Int /\ d \in Int /\ d > 0
    OBVIOUS
  <1>2. Rounded(a, b) = r
    BY DEF Rounded
  <1> HIDE DEF x, d
  <1>3. r \in Int /\ d * r <= x /\ x < d * r + d
    BY <1>1
  <1> HIDE DEF r
  <1>4. r >= q <=> x >= q * d
    <2>1. CASE r >= q
      <3>1. d * r >= d * q
        <4>1. d * (r - q) >= 0
          BY <1>1, <1>3, <2>1
        <4>2. QED
          BY <1>1, <1>3, <4>1
      <3>2. QED
        BY <1>1, <1>3, <2>1, <3>1
    <2>2. CASE r < q
      <3>1. d * (q - r - 1) >= 0
        BY <1>1, <1>3, <2>2
      <3>2. d * (q - r - 1) = d * q - d * r - d /\ d * q = q * d
        BY <1>1, <1>3
      <3>3. QED
        BY <1>1, <1>3, <2>2, <3>1, <3>2
    <2>3. QED
      BY <1>3, <2>1, <2>2
  <1>5. QED
    BY <1>2, <1>4 DEF x, d

\* One span in twenty failed, as the rate is rounded.
Fails(spans, svc) ==
    20000 * Cardinality({i \in SpansOf(spans, svc) : IsError(spans[i])})
        >= 999 * Cardinality(SpansOf(spans, svc))

\* It is the rate from which on a service alerts.
LEMMA FailsAtThreshold ==
    ASSUME NEW E, NEW spans \in Seq(E), NEW svc, SpansOf(spans, svc) # {}
    PROVE  ErrorRate(spans, svc) >= ErrorThreshold <=> Fails(spans, svc)
  <1> DEFINE errors == {i \in SpansOf(spans, svc) : IsError(spans[i])}
             e == Cardinality(errors)
             n == Cardinality(SpansOf(spans, svc))
  <1>1. Len(spans) \in Nat
    OBVIOUS
  <1>2. n \in 0..Len(spans) /\ n # 0
    BY SpansAreCounted
  <1>3. e \in 0..Len(spans)
    <2>1. errors \in SUBSET SpansOf(spans, svc)
      OBVIOUS
    <2> HIDE DEF errors
    <2>2. QED
      BY <2>1, SpansAreCounted
  <1>4. ErrorRate(spans, svc) = Rounded(10000 * e, n)
    BY DEF ErrorRate
  <1>5. Fails(spans, svc) <=> 20000 * e >= 999 * n
    BY DEF Fails
  <1> HIDE DEF e, n
  <1>6. 10000 * e \in Int /\ n \in Int /\ n > 0 /\ 500 \in Int /\ e \in Int
    BY <1>1, <1>2, <1>3
  <1>7. Rounded(10000 * e, n) >= 500 <=> 2 * (10000 * e) + n >= 500 * (2 * n)
    BY <1>6, RoundedIsAtLeast
  <1>8. QED
    BY <1>4, <1>5, <1>6, <1>7 DEF ErrorThreshold

\* A service that is slow, or answers nothing that is known, scores too little to alert.
LEMMA AlertedIffFails ==
    ASSUME NEW E, NEW spans \in Seq(E), \A e \in E : e.dur \in Int /\ e.start \in Int,
           NEW svc, SpansOf(spans, svc) # {}
    PROVE  Alerted(spans, svc) <=> Fails(spans, svc)
  <1> DEFINE rate == ErrorRate(spans, svc)
             low == Min({10000, 2 * ErrorRate(spans, svc)})
             z == CurrentZ(spans, svc)
             signal == LatencySignal(spans, svc, Recent(spans, svc))
             types == AnomalyTypes(spans, svc)
             score == AnomalyScore(spans, svc)
  <1>1. rate \in Int
    BY ErrorRateIsInt
  <1>2. z \in 0..2 /\ signal \in 0..2
    BY LatencyNeverSpikes DEF LatencySignal, CurrentZ
  <1>3. /\ "latency_spike" \in types <=> z >= 3
        /\ "error_rate_high" \in types <=> rate >= 500
    BY DEF AnomalyTypes, ZThreshold, ErrorThreshold
  <1>4. score = 40 * signal + Rounded(45 * low, 1000)
                    + (IF MostlyUnknown(spans, svc) THEN 30 ELSE 0)
    BY DEF AnomalyScore
  <1>5. low \in Int /\ low <= 2 * rate
    <2>1. 2 * rate \in Int /\ 10000 \in Int
      <3> HIDE DEF rate
      <3>1. QED
        BY <1>1
    <2>2. Min({10000, 2 * rate}) \in Int /\ Min({10000, 2 * rate}) <= 2 * rate
      <3> DEFINE a == 10000
                 b == 2 * rate
      <3>1. a \in Int /\ b \in Int
        BY <2>1
      <3> HIDE DEF a, b
      <3>2. Min({a, b}) \in {a, b} /\ Min({a, b}) <= a /\ Min({a, b}) <= b
        BY <3>1, LesserOf
      <3>3. Min({a, b}) \in Int /\ Min({a, b}) <= b
        BY <3>1, <3>2
      <3>4. QED
        BY <3>3 DEF a, b
    <2>3. QED
      BY <2>1, <2>2
  <1>6. Alerted(spans, svc) <=>
            /\ "latency_spike" \in types \/ "error_rate_high" \in types \/ score > 300
            /\ types # {} \/ score > 300
    BY DEF Alerted
  <1> HIDE DEF rate, low, z, signal, types, score
  <1>7. rate < 500 => score <= 300
    <2> HAVE rate < 500
    <2>1. 45 * low \in Int /\ 45 * low <= 44910
      BY <1>1, <1>5
    <2>2. Rounded(45 * low, 1000) \in Int /\ Rounded(45 * low, 1000) < 46
      <3> DEFINE a == 45 * low
      <3> HIDE DEF a
      <3>1. Rounded(a, 1000) \in Int
        BY <2>1, RoundedIsInt DEF a
      <3>2. Rounded(a, 1000) >= 46 <=> 2 * a + 1000 >= 46 * (2 * 1000)
        BY <2>1, RoundedIsAtLeast DEF a
      <3>3. QED
        BY <2>1, <3>1, <3>2 DEF a
    <2>3. QED
      BY <1>2, <1>4, <2>2
  <1>8. rate >= 500 <=> Fails(spans, svc)
    BY FailsAtThreshold DEF rate, ErrorThreshold
  <1>9. CASE rate >= 500
    BY <1>3, <1>6, <1>8, <1>9
  <1>10. CASE rate < 500
    <2>1. ~(z >= 3) /\ ~(rate >= 500) /\ score <= 300 /\ score \in Int
      <3>1. score \in Int
        BY AnomalyScoreIsInt DEF score
      <3>2. QED
        BY <1>1, <1>2, <1>7, <1>10, <3>1
    <2>2. ~(score > 300)
      BY <2>1
    <2>3. QED
      BY <1>3, <1>6, <1>8, <2>1, <2>2
  <1>11. QED
    BY <1>1, <1>9, <1>10

\* Each service of a trace file has spans in it.
LEMMA ServicesHaveSpans ==
    ASSUME NEW E, NEW spans \in Seq(E), NEW svc \in Range(ServicesOf(spans))
    PROVE  SpansOf(spans, svc) # {}
  <1> DEFINE names == [i \in DOMAIN spans |-> spans[i].svc]
             firsts == {i \in DOMAIN names : \A j \in 1..(i - 1) : names[j] # names[i]}
             out == ServicesOf(spans)
             D == {names[i] : i \in DOMAIN spans}
  <1>1. names \in Seq(D) /\ DOMAIN names = DOMAIN spans /\ Len(spans) \in Nat
    OBVIOUS
  <1>2. firsts \in SUBSET DOMAIN names
    OBVIOUS
  <1>3. out = Pick(names, firsts)
    BY DEF ServicesOf, Distinct
  <1>4. \A d \in D : \E i \in DOMAIN spans : d = spans[i].svc
    OBVIOUS
  <1> HIDE DEF names, firsts, out, D
  <1>5. out \in Seq(D)
    BY <1>1, <1>2, <1>3, PickKeeps
  <1>6. \A k \in DOMAIN out : out[k] \in D
    BY <1>5
  <1>7. PICK k \in DOMAIN out : svc = out[k]
    BY DEF Range, out
  <1>8. QED
    BY <1>4, <1>6, <1>7 DEF SpansOf

\* The alerts are of the services that fail, and of all of them.
THEOREM AlertsAreOfFailing ==
    ASSUME NEW Svc, NEW E, NEW spans \in Seq(E),
           \A e \in E : e.svc \in Svc, \A e \in E : e.dur \in Int /\ e.start \in Int
    PROVE  CausesOf(AlertsOf(spans)) = {svc \in Range(ServicesOf(spans)) : Fails(spans, svc)}
  <1> DEFINE services == ServicesOf(spans)
             S == {i \in DOMAIN services : Alerted(spans, services[i])}
             alerted == Pick(services, S)
             alerts == [i \in DOMAIN alerted |-> Alert(spans, alerted[i])]
             key == [i \in DOMAIN alerts |-> alerts[i].score]
             out == AlertsOf(spans)
  <1>1. services \in Seq(Svc)
    BY ServicesAreOf
  <1>2. out = SortedDown(alerts, key)
    BY DEF AlertsOf
  <1>3. \A svc \in Range(services) : Alerted(spans, svc) <=> Fails(spans, svc)
    BY AlertedIffFails, ServicesHaveSpans
  <1> HIDE DEF services
  <1>4. S \in SUBSET DOMAIN services /\ \A i \in DOMAIN services : i \in S <=> Alerted(spans, services[i])
    OBVIOUS
  <1> HIDE DEF S
  <1>5. alerted \in Seq(Svc) /\ \E p : Arranges(p, alerted, services, S)
    BY <1>1, <1>4, PickKeeps
  <1> HIDE DEF alerted
  <1>6. PICK p : Arranges(p, alerted, services, S)
    BY <1>5
  <1>7. /\ DOMAIN alerted = 1..Len(alerted) /\ Len(alerted) \in Nat
        /\ \A k \in DOMAIN alerted : p[k] \in S /\ alerted[k] = services[p[k]]
        /\ \A i \in S : \E k \in DOMAIN alerted : p[k] = i
    <2>1. DOMAIN alerted = 1..Len(alerted) /\ Len(alerted) \in Nat
      BY <1>5
    <2>2. QED
      BY <1>6, <2>1 DEF Arranges, Bijection, Injection, Surjection
  <1>8. \A k \in DOMAIN alerted : alerts[k].svc = alerted[k] /\ alerts[k].score \in Int
    BY AnomalyScoreIsInt DEF Alert
  <1>9. DOMAIN alerts = DOMAIN alerted /\ alerts \in Seq({alerts[k] : k \in DOMAIN alerts})
    BY <1>7
  <1> HIDE DEF alerts
  <1>10. \A k \in DOMAIN alerts : key[k] \in Int
    BY <1>8, <1>9
  <1> HIDE DEF key, out
  <1>11. /\ out \in Seq({alerts[k] : k \in DOMAIN alerts})
         /\ \E q : Arranges(q, out, alerts, DOMAIN alerts)
    BY <1>2, <1>9, <1>10, SortedDownSorts
  <1>12. PICK q : Arranges(q, out, alerts, DOMAIN alerts)
    BY <1>11
  <1>13. /\ \A k \in DOMAIN out : q[k] \in DOMAIN alerted /\ out[k] = alerts[q[k]]
         /\ \A i \in DOMAIN alerted : \E k \in DOMAIN out : q[k] = i
    <2>1. DOMAIN out = 1..Len(out)
      BY <1>11
    <2>2. QED
      BY <1>9, <1>12, <2>1 DEF Arranges, Bijection, Injection, Surjection
  <1>14. \A k \in DOMAIN out : out[k].svc \in Range(services) /\ Fails(spans, out[k].svc)
    <2> TAKE k \in DOMAIN out
    <2>1. q[k] \in DOMAIN alerted /\ out[k].svc = alerted[q[k]]
      BY <1>8, <1>13
    <2>2. p[q[k]] \in S /\ alerted[q[k]] = services[p[q[k]]]
      BY <1>7, <2>1
    <2>3. p[q[k]] \in DOMAIN services /\ Alerted(spans, services[p[q[k]]])
      BY <1>4, <2>2
    <2>4. QED
      BY <1>3, <2>1, <2>2, <2>3 DEF Range
  <1>15. \A svc \in Range(services) : Fails(spans, svc) => \E k \in DOMAIN out : svc = out[k].svc
    <2> TAKE svc \in Range(services)
    <2> HAVE Fails(spans, svc)
    <2>1. PICK i \in DOMAIN services : svc = services[i]
      BY DEF Range
    <2>2. i \in S
      BY <1>3, <1>4, <2>1
    <2>3. PICK j \in DOMAIN alerted : p[j] = i
      BY <1>7, <2>2
    <2>4. PICK k \in DOMAIN out : q[k] = j
      BY <1>13, <2>3
    <2>5. out[k].svc = svc
      BY <1>7, <1>8, <1>13, <2>1, <2>3, <2>4
    <2>6. QED
      BY <2>5
  <1>16. QED
    BY <1>14, <1>15 DEF CausesOf, out, services
-------------------------------------------------------------------------------
\* Whom a service is called by.
Callers(spans, svc) == {e[1] : e \in {f \in CallEdges(spans) : f[2] = svc}}

\* The services of a trace file are those of its spans.
LEMMA ServicesRange ==
    ASSUME NEW E, NEW spans \in Seq(E)
    PROVE  Range(ServicesOf(spans)) = {spans[i].svc : i \in DOMAIN spans}
  <1> DEFINE names == [i \in DOMAIN spans |-> spans[i].svc]
             D == {spans[i].svc : i \in DOMAIN spans}
  <1>1. names \in Seq(D)
    OBVIOUS
  <1>2. Range(names) = D
    BY DEF Range
  <1>3. ServicesOf(spans) = Distinct(names)
    BY DEF ServicesOf
  <1> HIDE DEF names, D
  <1>4. QED
    BY <1>1, <1>2, <1>3, DistinctRange DEF D

\* A span has one parent at most, another span.
LEMMA OneParent ==
    ASSUME NEW E, NEW spans \in Seq(E), NEW i
    PROVE  /\ ParentsOf(spans, i) \in SUBSET DOMAIN spans
           /\ \A j, k \in ParentsOf(spans, i) : j = k
  <1> DEFINE named == {j \in DOMAIN spans : spans[j].id # 0 /\ spans[j].id = spans[i].parent}
  <1>1. named \in SUBSET (0..Len(spans)) /\ Len(spans) \in Nat /\ named \in SUBSET DOMAIN spans
    OBVIOUS
  <1>2. ParentsOf(spans, i) = IF named = {} THEN {} ELSE {Max(named)}
    BY DEF ParentsOf
  <1> HIDE DEF named
  <1>3. named # {} => Max(named) \in named
    BY <1>1, GreatestUpTo
  <1>4. QED
    BY <1>1, <1>2, <1>3

\* The callers that the search asks for are those of the graph.
LEMMA CallersAreOfGraph ==
    ASSUME NEW E, NEW spans \in Seq(E), NEW svc
    PROVE  /\ CallersOf(spans, svc) \in Seq(Callers(spans, svc))
           /\ Range(CallersOf(spans, svc)) = Callers(spans, svc)
  <1> DEFINE Others(i) == {spans[j].svc : j \in ParentsOf(spans, i)} \ {svc}
             S == {i \in SpansOf(spans, svc) : Others(i) # {}}
             id == [i \in DOMAIN spans |-> i]
             calls == Pick(id, S)
             names == [k \in DOMAIN calls |-> CHOOSE p \in Others(calls[k]) : TRUE]
             C == Callers(spans, svc)
  <1>1. id \in Seq(DOMAIN spans) /\ S \in SUBSET DOMAIN id /\ \A i \in S : id[i] = i
    BY DEF SpansOf
  <1>2. CallersOf(spans, svc) = Distinct(names)
    BY DEF CallersOf
  <1>3. ASSUME NEW i \in S
        PROVE  (CHOOSE p \in Others(i) : TRUE) \in C
    <2>1. PICK p \in Others(i) : p = CHOOSE q \in Others(i) : TRUE
      OBVIOUS
    <2>2. PICK j \in ParentsOf(spans, i) : spans[j].svc = p /\ p # svc
      OBVIOUS
    <2>3. i \in DOMAIN spans /\ spans[i].svc = svc /\ i \in SpansOf(spans, svc)
      BY DEF SpansOf
    <2>4. j \in DOMAIN spans
      BY OneParent
    <2> HIDE DEF Others, S
    <2> DEFINE e == <<p, svc>>
    <2>5. i \in CallsOf(spans, e)
      BY <2>2, <2>3 DEF CallsOf
    <2>6. p \in Range(ServicesOf(spans)) /\ svc \in Range(ServicesOf(spans))
      BY <2>2, <2>3, <2>4, ServicesRange
    <2>7. e \in CallEdges(spans)
      BY <2>5, <2>6 DEF CallEdges
    <2>8. e[1] = p /\ e[2] = svc
      OBVIOUS
    <2> HIDE DEF e
    <2>9. QED
      BY <2>1, <2>7, <2>8 DEF Callers
  <1>4. ASSUME NEW p \in C
        PROVE  \E i \in S : p = CHOOSE q \in Others(i) : TRUE
    <2>1. PICK e \in CallEdges(spans) : e[2] = svc /\ e[1] = p
      BY DEF Callers
    <2>2. PICK i \in CallsOf(spans, e) : TRUE
      BY DEF CallEdges
    <2>3. i \in SpansOf(spans, svc) /\ \E j \in ParentsOf(spans, i) : spans[j].svc = p /\ p # svc
      BY <2>1, <2>2 DEF CallsOf
    <2>4. p \in Others(i) /\ \A q \in Others(i) : q = p
      BY <2>3, OneParent
    <2>5. QED
      BY <2>3, <2>4
  <1> HIDE DEF S, id, C
  <1>5. calls \in Seq(DOMAIN spans) /\ Range(calls) = S
    <2>1. calls \in Seq(DOMAIN spans) /\ Range(calls) = {id[i] : i \in S}
      BY <1>1, PickedRange
    <2>2. {id[i] : i \in S} = S
      BY <1>1
    <2>3. QED
      BY <2>1, <2>2
  <1> HIDE DEF calls, Others
  <1>6. \A k \in DOMAIN calls : calls[k] \in S
    BY <1>5 DEF Range
  <1>7. names \in Seq(C)
    <2>1. names \in [DOMAIN calls -> C]
      BY <1>3, <1>6, Zenon
    <2> HIDE DEF names
    <2>2. DOMAIN calls = 1..Len(calls) /\ Len(calls) \in Nat
      BY <1>5
    <2>3. QED
      BY <2>1, <2>2
  <1>8. Range(names) = C
    <2>1. Range(names) = {CHOOSE q \in Others(calls[k]) : TRUE : k \in DOMAIN calls}
      BY DEF Range
    <2>2. \A p \in C : \E k \in DOMAIN calls : p = CHOOSE q \in Others(calls[k]) : TRUE
      BY <1>4, <1>5 DEF Range
    <2>3. QED
      BY <1>3, <1>6, <2>1, <2>2
  <1> HIDE DEF names
  <1>9. QED
    BY <1>2, <1>7, <1>8, DistinctRange DEF C

\* The paths of a search: services of a set, at least the one it starts from.
Chains(Svc) == Seq(Svc) \ {<<>>}

\* The paths one call longer: by a caller that is not on the path.
Grown(spans, path) == {Append(path, c) : c \in Callers(spans, Last(path)) \ Range(path)}

\* Where a path ends, and what appending a service makes of it.
LEMMA AppendedTo ==
    ASSUME NEW Svc, NEW path \in Chains(Svc), NEW c \in Svc
    PROVE  /\ Last(path) \in Range(path) /\ Last(path) \in Svc /\ Range(path) \in SUBSET Svc
           /\ Append(path, c) \in Chains(Svc) /\ Last(Append(path, c)) = c
           /\ Range(Append(path, c)) = Range(path) \cup {c}
  <1> DEFINE out == Append(path, c)
             n == Len(path)
  <1>1. /\ n \in Nat \ {0} /\ DOMAIN path = 1..n /\ \A i \in 1..n : path[i] \in Svc
        /\ out \in Seq(Svc) /\ Len(out) = n + 1 /\ DOMAIN out = 1..(n + 1)
        /\ out[n + 1] = c /\ \A i \in 1..n : out[i] = path[i]
    BY DEF Chains
  <1>2. Last(path) = path[n] /\ Last(out) = out[Len(out)]
    BY DEF Last
  <1> HIDE DEF out, n
  <1>3. out \in Chains(Svc) /\ n \in 1..n
    BY <1>1 DEF Chains
  <1>4. {out[i] : i \in 1..(n + 1)} = {path[i] : i \in 1..n} \cup {c}
    <2>1. 1..(n + 1) = (1..n) \cup {n + 1}
      BY <1>1
    <2>2. {out[i] : i \in 1..(n + 1)} = {out[i] : i \in 1..n} \cup {out[n + 1]}
      BY <2>1
    <2>3. {out[i] : i \in 1..n} = {path[i] : i \in 1..n}
      BY <1>1
    <2>4. QED
      BY <1>1, <2>2, <2>3
  <1>5. Last(path) \in Range(path) /\ Last(path) \in Svc /\ Range(path) \in SUBSET Svc
    BY <1>1, <1>2, <1>3 DEF Range
  <1>6. Range(out) = Range(path) \cup {c}
    BY <1>1, <1>4 DEF Range
  <1>7. Last(out) = c
    BY <1>1, <1>2
  <1>8. QED
    BY <1>3, <1>5, <1>6, <1>7 DEF out

\* A call is between services of the trace file.
LEMMA CallersAreServices ==
    ASSUME NEW Svc, NEW E, NEW spans \in Seq(E), \A e \in E : e.svc \in Svc, NEW svc
    PROVE  Callers(spans, svc) \in SUBSET Svc
  <1>1. Range(ServicesOf(spans)) \in SUBSET Svc
    <2>1. \A i \in DOMAIN spans : spans[i].svc \in Svc
      OBVIOUS
    <2>2. QED
      BY <2>1, ServicesRange
  <1>2. QED
    BY <1>1 DEF Callers, CallEdges

\* Extensions are all the paths one call longer.
LEMMA ExtensionsAreGrown ==
    ASSUME NEW Svc, NEW E, NEW spans \in Seq(E), \A e \in E : e.svc \in Svc,
           NEW path \in Chains(Svc)
    PROVE  /\ Extensions(spans, path) \in Seq(Chains(Svc))
           /\ Range(Extensions(spans, path)) = Grown(spans, path)
           /\ Extensions(spans, path) = <<>> <=> Grown(spans, path) = {}
  <1> DEFINE C == Callers(spans, Last(path))
             callers == CallersOf(spans, Last(path))
             S == {i \in DOMAIN callers : callers[i] \notin Range(path)}
             fresh == Pick(callers, S)
             out == [i \in DOMAIN fresh |-> Append(path, fresh[i])]
  <1>1. callers \in Seq(C) /\ Range(callers) = C
    BY CallersAreOfGraph
  <1>2. C \in SUBSET Svc
    BY CallersAreServices
  <1>3. Extensions(spans, path) = out
    BY DEF Extensions
  <1>4. S \in SUBSET DOMAIN callers
    OBVIOUS
  <1>5. {callers[i] : i \in S} = Range(callers) \ Range(path)
    BY DEF Range
  <1> HIDE DEF callers, S, C
  <1>6. fresh \in Seq(C) /\ Range(fresh) = C \ Range(path)
    BY <1>1, <1>4, <1>5, PickedRange
  <1> HIDE DEF fresh
  <1>7. DOMAIN fresh = 1..Len(fresh) /\ Len(fresh) \in Nat /\ \A i \in DOMAIN fresh : fresh[i] \in C
    BY <1>6
  <1>8. out \in [DOMAIN fresh -> Chains(Svc)] /\ DOMAIN out = DOMAIN fresh
    <2>1. \A c \in Svc : Append(path, c) \in Chains(Svc)
      BY AppendedTo
    <2>2. \A i \in DOMAIN fresh : Append(path, fresh[i]) \in Chains(Svc)
      BY <1>2, <1>7, <2>1
    <2>3. QED
      BY <2>2, Zenon
  <1>9. Range(out) = {Append(path, c) : c \in Range(fresh)}
    BY DEF Range
  <1> HIDE DEF out
  <1>10. out \in Seq(Chains(Svc))
    BY <1>7, <1>8
  <1>11. Range(out) = Grown(spans, path)
    BY <1>6, <1>9 DEF Grown, C
  <1>12. out = <<>> <=> Range(out) = {}
    <2>1. out = <<>> => Range(out) = {}
      BY DEF Range
    <2>2. out # <<>> => 1 \in DOMAIN out
      BY <1>10
    <2>3. QED
      BY <2>1, <2>2 DEF Range
  <1>13. QED
    BY <1>3, <1>10, <1>11, <1>12

\* The paths of the next level.
Lengthened(spans, paths) == FlattenSeq([i \in DOMAIN paths |-> Extensions(spans, paths[i])])

IsLevels(level, spans, start) ==
    level = [k \in 0..MaxDepth |->
                IF k = 0 THEN <<<<start>>>>
                ELSE FlattenSeq([i \in DOMAIN level[k - 1] |-> Extensions(spans, level[k - 1][i])])]

\* What is on the next level.
LEMMA LengthenedRange ==
    ASSUME NEW Svc, NEW E, NEW spans \in Seq(E), \A e \in E : e.svc \in Svc,
           NEW paths \in Seq(Chains(Svc))
    PROVE  /\ Lengthened(spans, paths) \in Seq(Chains(Svc))
           /\ Range(Lengthened(spans, paths)) = UNION {Grown(spans, p) : p \in Range(paths)}
  <1> DEFINE each == [i \in DOMAIN paths |-> Extensions(spans, paths[i])]
  <1>1. /\ DOMAIN paths = 1..Len(paths) /\ Len(paths) \in Nat
        /\ \A i \in DOMAIN paths : paths[i] \in Chains(Svc)
    OBVIOUS
  <1>2. \A p \in Chains(Svc) : /\ Extensions(spans, p) \in Seq(Chains(Svc))
                               /\ Range(Extensions(spans, p)) = Grown(spans, p)
    BY ExtensionsAreGrown
  <1>3. \A i \in DOMAIN paths : /\ Extensions(spans, paths[i]) \in Seq(Chains(Svc))
                                /\ Range(Extensions(spans, paths[i])) = Grown(spans, paths[i])
    BY <1>1, <1>2
  <1>4. each \in [DOMAIN paths -> Seq(Chains(Svc))] /\ DOMAIN each = DOMAIN paths
    BY <1>3, Zenon
  <1>5. \A i \in DOMAIN paths : Range(each[i]) = Grown(spans, paths[i])
    BY <1>3
  <1>6. Lengthened(spans, paths) = FlattenSeq(each)
    BY DEF Lengthened
  <1> HIDE DEF each
  <1>7. each \in Seq(Seq(Chains(Svc)))
    BY <1>1, <1>4
  <1>8. /\ FlattenSeq(each) \in Seq(Chains(Svc))
        /\ Range(FlattenSeq(each)) = UNION {Range(each[i]) : i \in DOMAIN each}
    BY <1>7, FlattenRange
  <1>9. {Range(each[i]) : i \in DOMAIN each} = {Grown(spans, p) : p \in Range(paths)}
    <2>1. {Range(each[i]) : i \in DOMAIN each} = {Grown(spans, paths[i]) : i \in DOMAIN paths}
      BY <1>4, <1>5
    <2>2. Range(paths) = {paths[i] : i \in DOMAIN paths}
      BY DEF Range
    <2>3. QED
      BY <2>1, <2>2
  <1>10. QED
    BY <1>6, <1>8, <1>9

\* Levels of paths: from the service itself, one call more at each.
Grows(level, spans, start, Svc) ==
    /\ \A k \in 0..MaxDepth : level[k] \in Seq(Chains(Svc))
    /\ Range(level[0]) = {<<start>>}
    /\ \A k \in 0..MaxDepth : k + 1 \in 0..MaxDepth =>
          Range(level[k + 1]) = UNION {Grown(spans, p) : p \in Range(level[k])}

\* The levels of a search are such levels.
LEMMA LevelsGrow ==
    ASSUME NEW Svc, NEW E, NEW spans \in Seq(E), \A e \in E : e.svc \in Svc, NEW start \in Svc
    PROVE  Grows(Levels(spans, start), spans, start, Svc)
  <1> DEFINE T == Seq(Chains(Svc))
             first == <<<<start>>>>
             step == [x \in (0..MaxDepth) \X T |-> Lengthened(spans, x[2])]
             level == Levels(spans, start)
  <1>1. MaxDepth \in Nat \ {0}
    BY RootCauseAssumption
  <1>2. first \in T
    BY DEF Chains
  <1>3. \A paths \in T : Lengthened(spans, paths) \in T
    BY LengthenedRange
  <1>4. step \in [(0..MaxDepth) \X T -> T]
    BY <1>3
  <1>5. \A k \in 0..MaxDepth : \A paths \in T : step[<<k, paths>>] = Lengthened(spans, paths)
    OBVIOUS
  <1> HIDE DEF T, first, step
  <1>6. PICK b \in [0..MaxDepth -> T] : Recurs(b, 0, MaxDepth, first, step)
    <2>1. 0 \in Int /\ MaxDepth \in Int /\ 0 <= MaxDepth
      BY <1>1
    <2>2. QED
      BY <1>2, <1>4, <2>1, RecursionIsSound
  <1>7. IsLevels(b, spans, start)
    <2>1. \A k \in 0..MaxDepth : b[k] = IF k = 0 THEN first ELSE Lengthened(spans, b[k - 1])
      <3> TAKE k \in 0..MaxDepth
      <3>1. b[k] = IF k = 0 THEN first ELSE step[<<k, b[k - 1]>>]
        BY <1>6 DEF Recurs
      <3>2. CASE k # 0
        <4>1. k - 1 \in 0..MaxDepth
          BY <1>1, <3>2
        <4>2. QED
          BY <1>5, <3>1, <3>2, <4>1
      <3>3. QED
        BY <3>1, <3>2
    <2>2. b = [k \in 0..MaxDepth |-> b[k]]
      OBVIOUS
    <2>3. b = [k \in 0..MaxDepth |-> IF k = 0 THEN first ELSE Lengthened(spans, b[k - 1])]
      BY <2>1, <2>2
    <2>4. QED
      BY <2>3, Zenon DEF IsLevels, Lengthened, first
  <1>8. IsLevels(level, spans, start)
    <2>1. level = CHOOSE l : IsLevels(l, spans, start)
      BY DEF Levels, IsLevels
    <2> HIDE DEF level
    <2>2. QED
      BY <1>7, <2>1, Zenon
  <1> HIDE DEF level
  <1>9. \A k \in 0..MaxDepth :
            level[k] = IF k = 0 THEN first ELSE Lengthened(spans, level[k - 1])
    BY <1>8, Zenon DEF IsLevels, Lengthened, first
  <1>10. level[0] = first
    BY <1>1, <1>9
  <1>11. ASSUME NEW k \in 0..MaxDepth, k + 1 \in 0..MaxDepth
         PROVE  level[k + 1] = Lengthened(spans, level[k])
    <2>1. k + 1 # 0 /\ (k + 1) - 1 = k
      BY <1>1
    <2>2. QED
      BY <1>9, <1>11, <2>1
  <1>12. \A k \in 0..MaxDepth : level[k] \in T
    <2> DEFINE Good == {k \in 0..MaxDepth : level[k] \in T}
    <2>1. 0 \in Good
      BY <1>1, <1>2, <1>10
    <2>2. ASSUME NEW k \in 0..MaxDepth, k + 1 \in 0..MaxDepth, k \in Good PROVE k + 1 \in Good
      BY <1>3, <1>11, <2>2
    <2> HIDE DEF Good
    <2>3. 0 \in Int /\ MaxDepth \in Int
      BY <1>1
    <2>4. \A k \in 0..MaxDepth : k \in Good
      BY <2>1, <2>2, <2>3, Onwards
    <2>5. QED
      BY <2>4 DEF Good
  <1>13. \A paths \in T :
             Range(Lengthened(spans, paths)) = UNION {Grown(spans, p) : p \in Range(paths)}
    BY LengthenedRange DEF T
  <1>14. Range(first) = {<<start>>}
    BY DEF first, Range
  <1>15. \A k \in 0..MaxDepth : k + 1 \in 0..MaxDepth =>
             Range(level[k + 1]) = UNION {Grown(spans, p) : p \in Range(level[k])}
    BY <1>11, <1>12, <1>13
  <1>16. QED
    BY <1>10, <1>12, <1>14, <1>15 DEF level, T, Grows

\* What the search keeps of its levels: the paths that are complete.
Kept(level, spans) ==
    UNION {{p \in Range(level[k]) : IsComplete(spans, k, p)} : k \in 1..MaxDepth}

\* The search keeps that.
LEMMA CompletePathsRange ==
    ASSUME NEW Svc, NEW E, NEW spans \in Seq(E), \A e \in E : e.svc \in Svc, NEW start \in Svc
    PROVE  /\ CompletePaths(spans, start) \in Seq(Chains(Svc))
           /\ Range(CompletePaths(spans, start)) = Kept(Levels(spans, start), spans)
  <1> DEFINE level == Levels(spans, start)
             S(k) == {i \in DOMAIN level[k] : IsComplete(spans, k, level[k][i])}
             each == [k \in 1..MaxDepth |-> Pick(level[k], S(k))]
             kept(k) == {p \in Range(level[k]) : IsComplete(spans, k, p)}
  <1>1. MaxDepth \in Nat \ {0}
    BY RootCauseAssumption
  <1>2. CompletePaths(spans, start) = FlattenSeq(each)
    BY DEF CompletePaths
  <1>3. \A k \in 1..MaxDepth : level[k] \in Seq(Chains(Svc))
    BY <1>1, LevelsGrow DEF Grows
  <1> HIDE DEF level
  <1>4. ASSUME NEW k \in 1..MaxDepth
        PROVE  Pick(level[k], S(k)) \in Seq(Chains(Svc)) /\ Range(Pick(level[k], S(k))) = kept(k)
    <2>1. S(k) \in SUBSET DOMAIN level[k]
      OBVIOUS
    <2>2. {level[k][i] : i \in S(k)} = kept(k)
      BY DEF Range
    <2> HIDE DEF S, kept
    <2>3. QED
      BY <1>3, <2>1, <2>2, PickedRange
  <1> HIDE DEF S, kept
  <1>5. each \in [1..MaxDepth -> Seq(Chains(Svc))] /\ DOMAIN each = 1..MaxDepth
    BY <1>4, Zenon
  <1>6. \A k \in 1..MaxDepth : Range(each[k]) = kept(k)
    BY <1>4
  <1> HIDE DEF each
  <1>7. each \in Seq(Seq(Chains(Svc)))
    BY <1>1, <1>5
  <1>8. {Range(each[k]) : k \in DOMAIN each} = {kept(k) : k \in 1..MaxDepth}
    BY <1>5, <1>6
  <1>9. /\ FlattenSeq(each) \in Seq(Chains(Svc))
        /\ Range(FlattenSeq(each)) = UNION {kept(k) : k \in 1..MaxDepth}
    BY <1>7, <1>8, FlattenRange
  <1>10. QED
    BY <1>2, <1>9 DEF kept, level, Kept

\* What is reached from a service along the edges of a graph backwards, within so many of them.
Spreads(within, graph, svc, n) ==
    within = [k \in 0..n |->
                 IF k = 0 THEN {svc}
                 ELSE within[k - 1] \cup {e[1] : e \in {f \in graph : f[2] \in within[k - 1]}}]

\* A step further adds the callers.
Widens(within, spans, svc, n) ==
    /\ within[0] = {svc}
    /\ \A k \in 0..n : k + 1 \in 0..n =>
          within[k + 1] = within[k] \cup UNION {Callers(spans, v) : v \in within[k]}

\* That is what Spreads says.
LEMMA SpreadsOn ==
    ASSUME NEW spans, NEW svc, NEW n \in Nat, NEW within, Spreads(within, CallEdges(spans), svc, n)
    PROVE  Widens(within, spans, svc, n)
  <1> DEFINE G == CallEdges(spans)
  <1>1. \A k \in 0..n : within[k] =
            IF k = 0 THEN {svc}
            ELSE within[k - 1] \cup {e[1] : e \in {f \in G : f[2] \in within[k - 1]}}
    BY Zenon DEF Spreads
  <1>2. within[0] = {svc}
    <2> HIDE DEF G
    <2>1. 0 \in 0..n
      OBVIOUS
    <2>2. QED
      BY <1>1, <2>1
  <1>3. ASSUME NEW k \in 0..n, k + 1 \in 0..n
        PROVE  within[k + 1] = within[k] \cup UNION {Callers(spans, v) : v \in within[k]}
    <2>1. k + 1 # 0 /\ (k + 1) - 1 = k
      OBVIOUS
    <2>2. within[k + 1] = within[k] \cup {e[1] : e \in {f \in G : f[2] \in within[k]}}
      BY <1>1, <1>3, <2>1
    <2>3. {e[1] : e \in {f \in G : f[2] \in within[k]}}
              = UNION {{e[1] : e \in {f \in G : f[2] = v}} : v \in within[k]}
      <3> HIDE DEF G
      <3>1. QED
        OBVIOUS
    <2>4. \A v : Callers(spans, v) = {e[1] : e \in {f \in G : f[2] = v}}
      BY DEF Callers
    <2> HIDE DEF G
    <2>5. QED
      BY <2>2, <2>3, <2>4
  <1>4. QED
    BY <1>2, <1>3 DEF Widens

\* The services within some calls are within more.
LEMMA SpreadsGrow ==
    ASSUME NEW spans, NEW svc, NEW n \in Nat, NEW within, Spreads(within, CallEdges(spans), svc, n)
    PROVE  \A k \in 0..n : within[k] \subseteq within[n]
  <1> DEFINE Good == {j \in 0..n : \A k \in 0..j : within[k] \subseteq within[j]}
  <1>1. 0 \in Good
    OBVIOUS
  <1>2. ASSUME NEW j \in 0..n, j + 1 \in 0..n, j \in Good PROVE j + 1 \in Good
    <2>1. within[j] \subseteq within[j + 1]
      <3>1. Widens(within, spans, svc, n)
        BY SpreadsOn
      <3>2. QED
        BY <1>2, <3>1 DEF Widens
    <2>2. \A k \in 0..(j + 1) : k \in 0..j \/ k = j + 1
      OBVIOUS
    <2>3. QED
      BY <1>2, <2>1, <2>2
  <1> HIDE DEF Good
  <1>3. \A j \in 0..n : j \in Good
    BY <1>1, <1>2, Onwards
  <1>4. QED
    BY <1>3 DEF Good

\* A path of the k-th level never leaves what is within k calls.
LEMMA PathsStayWithin ==
    ASSUME NEW Svc, NEW E, NEW spans \in Seq(E), \A e \in E : e.svc \in Svc, NEW start \in Svc,
           NEW within, Spreads(within, CallEdges(spans), start, MaxDepth),
           NEW level, level = Levels(spans, start)
    PROVE  \A k \in 0..MaxDepth : \A p \in Range(level[k]) : Range(p) \subseteq within[k]
  <1>1. MaxDepth \in Nat
    BY RootCauseAssumption
  <1>2. /\ \A k \in 0..MaxDepth : level[k] \in Seq(Chains(Svc))
        /\ Range(level[0]) = {<<start>>}
        /\ \A k \in 0..MaxDepth : k + 1 \in 0..MaxDepth =>
              Range(level[k + 1]) = UNION {Grown(spans, p) : p \in Range(level[k])}
    <2>1. Grows(level, spans, start, Svc)
      BY LevelsGrow
    <2>2. QED
      BY <2>1 DEF Grows
  <1>3. /\ within[0] = {start}
        /\ \A k \in 0..MaxDepth : k + 1 \in 0..MaxDepth =>
              within[k + 1] = within[k] \cup UNION {Callers(spans, v) : v \in within[k]}
    <2>1. Widens(within, spans, start, MaxDepth)
      BY <1>1, SpreadsOn
    <2>2. QED
      BY <2>1 DEF Widens
  <1> DEFINE Good == {k \in 0..MaxDepth : \A p \in Range(level[k]) : Range(p) \subseteq within[k]}
  <1>4. 0 \in Good
    <2>1. Range(<<start>>) = {start}
      BY DEF Range
    <2>2. QED
      BY <1>1, <1>2, <1>3, <2>1
  <1>5. ASSUME NEW k \in 0..MaxDepth, k + 1 \in 0..MaxDepth, k \in Good PROVE k + 1 \in Good
    <2>1. ASSUME NEW q \in Range(level[k + 1]) PROVE Range(q) \subseteq within[k + 1]
      <3>1. PICK p \in Range(level[k]) : q \in Grown(spans, p)
        BY <1>2, <1>5
      <3>2. PICK c \in Callers(spans, Last(p)) : q = Append(p, c)
        BY <3>1 DEF Grown
      <3>3. p \in Chains(Svc)
        BY <1>2 DEF Range
      <3>4. c \in Svc
        BY CallersAreServices
      <3>5. Last(p) \in Range(p) /\ Range(q) = Range(p) \cup {c}
        BY <3>2, <3>3, <3>4, AppendedTo
      <3>6. Range(p) \subseteq within[k]
        BY <1>5
      <3>7. QED
        BY <1>3, <1>5, <3>5, <3>6
    <2>2. QED
      BY <1>5, <2>1
  <1> HIDE DEF Good
  <1>6. \A k \in 0..MaxDepth : k \in Good
    BY <1>1, <1>4, <1>5, Onwards
  <1>7. QED
    BY <1>6 DEF Good

\* Whatever is within k calls ends a path of at most so many: a caller that is on a path
\* already has ended a shorter one.
LEMMA AllWithinEnd ==
    ASSUME NEW Svc, NEW E, NEW spans \in Seq(E), \A e \in E : e.svc \in Svc, NEW start \in Svc,
           NEW within, Spreads(within, CallEdges(spans), start, MaxDepth),
           NEW level, level = Levels(spans, start)
    PROVE  \A k \in 0..MaxDepth : \A v \in within[k] :
              \E l \in 0..k : \E p \in Range(level[l]) : Last(p) = v
  <1> DEFINE Ends(k) == {v \in Svc : \E l \in 0..k : \E p \in Range(level[l]) : Last(p) = v}
  <1>1. MaxDepth \in Nat
    BY RootCauseAssumption
  <1>2. /\ \A k \in 0..MaxDepth : level[k] \in Seq(Chains(Svc))
        /\ Range(level[0]) = {<<start>>}
        /\ \A k \in 0..MaxDepth : k + 1 \in 0..MaxDepth =>
              Range(level[k + 1]) = UNION {Grown(spans, p) : p \in Range(level[k])}
    <2>1. Grows(level, spans, start, Svc)
      BY LevelsGrow
    <2>2. QED
      BY <2>1 DEF Grows
  <1>3. /\ within[0] = {start}
        /\ \A k \in 0..MaxDepth : k + 1 \in 0..MaxDepth =>
              within[k + 1] = within[k] \cup UNION {Callers(spans, v) : v \in within[k]}
    <2>1. Widens(within, spans, start, MaxDepth)
      BY <1>1, SpreadsOn
    <2>2. QED
      BY <2>1 DEF Widens
  <1>4. \A k \in 0..MaxDepth : \A p \in Range(level[k]) : p \in Chains(Svc)
    BY <1>2 DEF Range
  <1>5. Range(<<start>>) = {start} /\ Last(<<start>>) = start
    BY DEF Range, Last
  <1>6. ASSUME NEW k \in 0..MaxDepth, NEW l \in 0..k
        PROVE  Ends(l) \subseteq Ends(k) /\ l \in 0..MaxDepth
    BY <1>1
  <1>7. \A k \in 0..MaxDepth : \A p \in Range(level[k]) : Range(p) \subseteq Ends(k)
    <2> DEFINE Good == {k \in 0..MaxDepth : \A p \in Range(level[k]) : Range(p) \subseteq Ends(k)}
    <2>1. 0 \in Good
      <3>1. start \in Ends(0)
        BY <1>2, <1>5
      <3> HIDE DEF Ends
      <3>2. QED
        BY <1>1, <1>2, <1>5, <3>1
    <2>2. ASSUME NEW k \in 0..MaxDepth, k + 1 \in 0..MaxDepth, k \in Good PROVE k + 1 \in Good
      <3>1. ASSUME NEW q \in Range(level[k + 1]) PROVE Range(q) \subseteq Ends(k + 1)
        <4>1. PICK p \in Range(level[k]) : q \in Grown(spans, p)
          <5>1. Range(level[k + 1]) = UNION {Grown(spans, p) : p \in Range(level[k])}
            BY <1>2, <2>2
          <5>2. QED
            BY <3>1, <5>1
        <4>2. PICK c \in Callers(spans, Last(p)) : q = Append(p, c)
          BY <4>1 DEF Grown
        <4>3. c \in Svc /\ p \in Chains(Svc)
          BY <1>4, CallersAreServices
        <4>4. Last(q) = c /\ Range(q) = Range(p) \cup {c}
          BY <4>2, <4>3, AppendedTo
        <4>5. c \in Ends(k + 1)
          <5>1. k + 1 \in 0..(k + 1)
            OBVIOUS
          <5>2. QED
            BY <4>3, <4>4, <5>1
        <4>6. Ends(k) \subseteq Ends(k + 1)
          <5>1. k \in 0..(k + 1)
            OBVIOUS
          <5>2. QED
            BY <1>6, <2>2, <5>1
        <4>7. Range(p) \subseteq Ends(k)
          BY <2>2
        <4> HIDE DEF Ends
        <4>8. QED
          BY <4>4, <4>5, <4>6, <4>7
      <3> HIDE DEF Ends
      <3>2. QED
        BY <2>2, <3>1
    <2> HIDE DEF Good
    <2>3. \A k \in 0..MaxDepth : k \in Good
      BY <1>1, <2>1, <2>2, Onwards
    <2>4. QED
      BY <2>3 DEF Good
  <1>8. \A k \in 0..MaxDepth : within[k] \subseteq Ends(k)
    <2> DEFINE Good == {k \in 0..MaxDepth : within[k] \subseteq Ends(k)}
    <2>1. 0 \in Good
      <3>1. start \in Ends(0)
        BY <1>2, <1>5
      <3> HIDE DEF Ends
      <3>2. QED
        BY <1>1, <1>3, <3>1
    <2>2. ASSUME NEW k \in 0..MaxDepth, k + 1 \in 0..MaxDepth, k \in Good PROVE k + 1 \in Good
      <3>1. Ends(k) \subseteq Ends(k + 1)
        <4>1. k \in 0..(k + 1)
          OBVIOUS
        <4>2. QED
          BY <1>6, <2>2, <4>1
      <3>2. ASSUME NEW w \in within[k], NEW v \in Callers(spans, w) PROVE v \in Ends(k + 1)
        <4>1. w \in Ends(k)
          BY <2>2
        <4>2. PICK l \in 0..k : \E p \in Range(level[l]) : Last(p) = w
          BY <4>1
        <4>3. PICK p \in Range(level[l]) : Last(p) = w
          BY <4>2
        <4>4. l \in 0..MaxDepth /\ l + 1 \in 0..MaxDepth /\ l + 1 \in 0..(k + 1)
          BY <1>1, <2>2
        <4>5. v \in Svc /\ p \in Chains(Svc)
          BY <1>4, <4>4, CallersAreServices
        <4>6. CASE v \in Range(p)
          <5>1. v \in Ends(l) /\ Ends(l) \subseteq Ends(k)
            BY <1>6, <1>7, <4>4, <4>6
          <5> HIDE DEF Ends
          <5>2. QED
            BY <3>1, <5>1
        <4>7. CASE v \notin Range(p)
          <5>1. Append(p, v) \in Range(level[l + 1])
            <6>1. Range(level[l + 1]) = UNION {Grown(spans, q) : q \in Range(level[l])}
              BY <1>2, <4>4
            <6>2. Append(p, v) \in Grown(spans, p)
              BY <4>3, <4>7 DEF Grown
            <6>3. QED
              BY <4>3, <6>1, <6>2
          <5>2. Last(Append(p, v)) = v
            BY <4>5, AppendedTo
          <5>3. QED
            BY <4>4, <4>5, <5>1, <5>2
        <4>8. QED
          BY <4>6, <4>7
      <3>3. within[k + 1] = within[k] \cup UNION {Callers(spans, v) : v \in within[k]}
        BY <1>3, <2>2
      <3> HIDE DEF Ends
      <3>4. QED
        BY <2>2, <3>1, <3>2, <3>3
    <2> HIDE DEF Good
    <2>3. \A k \in 0..MaxDepth : k \in Good
      BY <1>1, <2>1, <2>2, Onwards
    <2>4. QED
      BY <2>3 DEF Good
  <1>9. QED
    BY <1>8

\* The services on the complete paths, and the one the search starts from.
OnPaths(spans, start) == {start} \cup UNION {Range(q) : q \in Range(CompletePaths(spans, start))}

\* Every path of a level is part of a complete one, or is only where the search starts: it
\* grows until it is as long as paths get, or can grow no more.
LEMMA PathsAreCovered ==
    ASSUME NEW Svc, NEW E, NEW spans \in Seq(E), \A e \in E : e.svc \in Svc, NEW start \in Svc,
           NEW level, level = Levels(spans, start)
    PROVE  \A k \in 0..MaxDepth : \A p \in Range(level[k]) : Range(p) \subseteq OnPaths(spans, start)
  <1> DEFINE D == MaxDepth
             Cover == OnPaths(spans, start)
             Good == {j \in 0..D : \A p \in Range(level[D - j]) : Range(p) \subseteq Cover}
  <1>1. D \in Nat \ {0}
    BY RootCauseAssumption
  <1>2. /\ \A k \in 0..MaxDepth : level[k] \in Seq(Chains(Svc))
        /\ Range(level[0]) = {<<start>>}
        /\ \A k \in 0..MaxDepth : k + 1 \in 0..MaxDepth =>
              Range(level[k + 1]) = UNION {Grown(spans, p) : p \in Range(level[k])}
    <2>1. Grows(level, spans, start, Svc)
      BY LevelsGrow
    <2>2. QED
      BY <2>1 DEF Grows
  <1>3. Range(CompletePaths(spans, start)) =
            UNION {{p \in Range(level[k]) : IsComplete(spans, k, p)} : k \in 1..MaxDepth}
    <2>1. Range(CompletePaths(spans, start)) = Kept(level, spans)
      BY CompletePathsRange
    <2>2. QED
      BY <2>1 DEF Kept
  <1>4. ASSUME NEW k \in 1..MaxDepth, NEW p \in Range(level[k]), IsComplete(spans, k, p)
        PROVE  Range(p) \subseteq Cover
    <2>1. p \in Range(CompletePaths(spans, start))
      BY <1>3, <1>4
    <2>2. QED
      BY <2>1 DEF OnPaths
  <1>5. start \in Cover
    BY DEF OnPaths
  <1>6. \A k \in 0..MaxDepth : \A p \in Range(level[k]) : p \in Chains(Svc)
    BY <1>2 DEF Range
  <1> HIDE DEF Cover
  <1>7. ASSUME NEW k \in 0..D, NEW p \in Range(level[k]), Grown(spans, p) = {}
        PROVE  Range(p) \subseteq Cover
    <2>1. CASE k = 0
      <3>1. p = <<start>> /\ Range(<<start>>) = {start}
        BY <1>2, <1>7, <2>1 DEF Range
      <3>2. QED
        BY <1>5, <3>1
    <2>2. CASE k # 0
      <3>1. k \in 1..MaxDepth
        BY <1>1, <2>2
      <3>2. Extensions(spans, p) = <<>>
        BY <1>6, <1>7, ExtensionsAreGrown
      <3>3. IsComplete(spans, k, p)
        BY <3>2 DEF IsComplete
      <3>4. QED
        BY <1>4, <1>7, <3>1, <3>3
    <2>3. QED
      BY <2>1, <2>2
  <1>8. 0 \in Good
    <2>1. D - 0 = D /\ D \in 1..MaxDepth /\ 0 \in 0..D
      BY <1>1
    <2>2. \A p \in Range(level[D]) : Range(p) \subseteq Cover
      BY <1>4, <2>1 DEF IsComplete
    <2>3. QED
      BY <2>1, <2>2
  <1>9. ASSUME NEW j \in 0..D, j + 1 \in 0..D, j \in Good PROVE j + 1 \in Good
    <2> DEFINE k == D - (j + 1)
    <2>1. k \in 0..D /\ k + 1 \in 0..D /\ k + 1 = D - j
      BY <1>1, <1>9
    <2>2. \A q \in Range(level[k + 1]) : Range(q) \subseteq Cover
      BY <1>9, <2>1
    <2>3. Range(level[k + 1]) = UNION {Grown(spans, p) : p \in Range(level[k])}
      BY <1>2, <2>1
    <2> HIDE DEF k, Good
    <2>4. ASSUME NEW p \in Range(level[k]) PROVE Range(p) \subseteq Cover
      <3>1. CASE Grown(spans, p) = {}
        BY <1>7, <2>1, <2>4, <3>1
      <3>2. CASE Grown(spans, p) # {}
        <4>1. PICK c \in Callers(spans, Last(p)) : Append(p, c) \in Grown(spans, p)
          BY <3>2 DEF Grown
        <4>2. p \in Chains(Svc) /\ c \in Svc
          BY <1>6, <2>1, <2>4, CallersAreServices
        <4>3. Range(Append(p, c)) = Range(p) \cup {c}
          BY <4>2, AppendedTo
        <4>4. Range(Append(p, c)) \subseteq Cover
          BY <2>2, <2>3, <2>4, <4>1
        <4>5. QED
          BY <4>3, <4>4
      <3>3. QED
        BY <3>1, <3>2
    <2>5. QED
      BY <1>9, <2>4 DEF k, Good
  <1> HIDE DEF Good
  <1>10. \A j \in 0..D : j \in Good
    BY <1>1, <1>8, <1>9, Onwards
  <1>11. ASSUME NEW k \in 0..MaxDepth, NEW p \in Range(level[k]) PROVE Range(p) \subseteq Cover
    <2>1. D - k \in 0..D /\ D - (D - k) = k
      BY <1>1
    <2>2. QED
      BY <1>10, <1>11, <2>1 DEF Good
  <1>12. QED
    BY <1>11 DEF Cover

\* Something is reached.
LEMMA SomethingSpreads ==
    ASSUME NEW graph, NEW svc, NEW n \in Nat
    PROVE  \E within : Spreads(within, graph, svc, n)
  <1> DEFINE Wider(S) == S \cup {e[1] : e \in {f \in graph : f[2] \in S}}
             T == SUBSET ({svc} \cup {e[1] : e \in graph})
             first == {svc}
             step == [x \in (0..n) \X T |-> Wider(x[2])]
  <1>1. first \in T /\ \A S \in T : Wider(S) \in T
    OBVIOUS
  <1>2. step \in [(0..n) \X T -> T]
    <2> HIDE DEF Wider, T
    <2>1. QED
      BY <1>1
  <1>3. \A k \in 0..n : \A S \in T : step[<<k, S>>] = Wider(S)
    <2> HIDE DEF Wider, T
    <2>1. QED
      OBVIOUS
  <1> HIDE DEF T, first, step
  <1>4. PICK b \in [0..n -> T] : Recurs(b, 0, n, first, step)
    <2>1. 0 \in Int /\ n \in Int /\ 0 <= n
      OBVIOUS
    <2>2. QED
      BY <1>1, <1>2, <2>1, RecursionIsSound
  <1>5. \A k \in 0..n : b[k] = IF k = 0 THEN first ELSE Wider(b[k - 1])
    <2> HIDE DEF Wider
    <2> TAKE k \in 0..n
    <2>1. b[k] = IF k = 0 THEN first ELSE step[<<k, b[k - 1]>>]
      BY <1>4 DEF Recurs
    <2>2. CASE k # 0
      <3>1. k - 1 \in 0..n
        BY <2>2
      <3>2. QED
        BY <1>3, <2>1, <2>2, <3>1
    <2>3. QED
      BY <2>1, <2>2
  <1>6. b = [k \in 0..n |-> IF k = 0 THEN first ELSE Wider(b[k - 1])]
    <2> HIDE DEF Wider
    <2>1. b = [k \in 0..n |-> b[k]]
      OBVIOUS
    <2>2. QED
      BY <1>5, <2>1
  <1>7. QED
    BY <1>6, Zenon DEF Spreads, first

\* A search visits only services from which a chain of calls, no longer than it follows, leads
\* to the service it starts from; and all of them, unless it is cut.
THEOREM SearchIsExact ==
    ASSUME NEW Svc, NEW E, NEW spans \in Seq(E), \A e \in E : e.svc \in Svc, NEW start \in Svc,
           NEW within, Spreads(within, CallEdges(spans), start, MaxDepth)
    PROVE  /\ Visited(spans, start) \subseteq within[MaxDepth] /\ within[MaxDepth] \subseteq Svc
           /\ Len(CompletePaths(spans, start)) <= MaxPaths =>
                  within[MaxDepth] \subseteq Visited(spans, start)
  <1> DEFINE level == Levels(spans, start)
             complete == CompletePaths(spans, start)
             n == Min({Len(complete), MaxPaths})
             paths == BackwardPaths(spans, start)
  <1>1. MaxDepth \in Nat
    BY RootCauseAssumption
  <1>2. complete \in Seq(Chains(Svc)) /\ Len(complete) \in Nat
    BY CompletePathsRange
  <1>3. /\ n \in Int /\ n <= Len(complete)
        /\ Len(complete) <= MaxPaths => n = Len(complete)
    <2> HIDE DEF complete
    <2>1. MaxPaths \in Int /\ Len(complete) \in Int
      BY <1>2 DEF MaxPaths
    <2>2. n \in {Len(complete), MaxPaths} /\ n <= Len(complete) /\ n <= MaxPaths
      BY <2>1, LesserOf
    <2> HIDE DEF n
    <2>3. QED
      BY <2>1, <2>2
  <1>4. paths = SubSeq(complete, 1, n)
    BY DEF BackwardPaths
  <1> HIDE DEF n, complete, level
  <1>5. Range(paths) \subseteq Range(complete)
    <2>1. \A i \in DOMAIN paths : i \in DOMAIN complete /\ paths[i] = complete[i]
      BY <1>2, <1>3, <1>4
    <2> HIDE DEF paths
    <2>2. QED
      BY <2>1 DEF Range
  <1>6. Len(complete) <= MaxPaths => paths = complete
    <2>1. SubSeq(complete, 1, Len(complete)) = complete
      BY <1>2
    <2>2. QED
      BY <1>3, <1>4, <2>1
  <1> HIDE DEF paths
  <1>7. Visited(spans, start) = {start} \cup UNION {Range(p) : p \in Range(paths)}
    BY DEF Visited, paths
  <1>8. OnPaths(spans, start) = {start} \cup UNION {Range(p) : p \in Range(complete)}
    BY DEF OnPaths, complete
  <1>9. OnPaths(spans, start) \subseteq within[MaxDepth]
    <2>1. start \in within[MaxDepth]
      <3>1. within[0] = {start}
        <4>1. Widens(within, spans, start, MaxDepth)
          BY <1>1, SpreadsOn
        <4>2. QED
          BY <4>1 DEF Widens
      <3>2. 0 \in 0..MaxDepth
        BY <1>1
      <3>3. \A k \in 0..MaxDepth : within[k] \subseteq within[MaxDepth]
        BY <1>1, SpreadsGrow
      <3>4. QED
        BY <3>1, <3>2, <3>3
    <2>2. ASSUME NEW p \in Range(complete) PROVE Range(p) \subseteq within[MaxDepth]
      <3>1. Range(complete) =
                UNION {{q \in Range(level[k]) : IsComplete(spans, k, q)} : k \in 1..MaxDepth}
        <4>1. Range(CompletePaths(spans, start)) = Kept(Levels(spans, start), spans)
          BY CompletePathsRange
        <4>2. QED
          BY <4>1 DEF complete, level, Kept
      <3>2. PICK k \in 1..MaxDepth : p \in Range(level[k])
        BY <2>2, <3>1
      <3>3. k \in 0..MaxDepth
        BY <1>1
      <3>4. Range(p) \subseteq within[k]
        <4>1. level = Levels(spans, start)
          BY DEF level
        <4>2. QED
          BY <3>2, <3>3, <4>1, PathsStayWithin
      <3>5. within[k] \subseteq within[MaxDepth]
        BY <1>1, <3>3, SpreadsGrow
      <3>6. QED
        BY <3>4, <3>5
    <2>3. QED
      BY <1>8, <2>1, <2>2
  <1>10. within[MaxDepth] \subseteq OnPaths(spans, start) \cap Svc
    <2>1. level = Levels(spans, start)
      BY DEF level
    <2>2. \A k \in 0..MaxDepth : \A v \in within[k] :
              \E l \in 0..k : \E p \in Range(level[l]) : Last(p) = v
      BY <2>1, AllWithinEnd
    <2>3. \A k \in 0..MaxDepth : \A p \in Range(level[k]) : Range(p) \subseteq OnPaths(spans, start)
      BY <2>1, PathsAreCovered
    <2>4. ASSUME NEW v \in within[MaxDepth] PROVE v \in OnPaths(spans, start) \cap Svc
      <3>1. MaxDepth \in 0..MaxDepth
        BY <1>1
      <3>2. PICK l \in 0..MaxDepth : \E p \in Range(level[l]) : Last(p) = v
        BY <2>2, <2>4, <3>1
      <3>3. PICK p \in Range(level[l]) : Last(p) = v
        BY <3>2
      <3>4. p \in Chains(Svc)
        BY <2>1, LevelsGrow DEF Grows, Range
      <3>5. Last(p) \in Range(p) /\ Last(p) \in Svc
        BY <3>4, AppendedTo
      <3>6. QED
        BY <2>3, <3>3, <3>5
    <2>5. QED
      BY <2>4
  <1>11. QED
    BY <1>5, <1>6, <1>7, <1>8, <1>9, <1>10 DEF complete
===============================================================================
