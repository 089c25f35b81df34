------------------------------ MODULE SwarmProofs ------------------------------
(***************************************************************************)
(* The swarm, for every set of incidents, services, replies and settings,  *)
(* and every number of attempts and rounds: what its answer and its        *)
(* repair rest on, over every failure in between; its types; and, with     *)
(* what SignalProofs shows of the parsers and the ranking, whom it         *)
(* suspects first and when it finds nothing wrong.                         *)
(***************************************************************************)
EXTENDS Swarm, SignalProofs

BeforeAnalyst == {"observer_agent", "topological_diagnoser"}
BeforeDrill == BeforeAnalyst \cup {"rca_analyst"}
BeforeActuator == BeforeDrill \cup {"drill", "single_shot"}

\* The session and the state have their fields.
Shape ==
    /\ board = [evidence |-> board.evidence, cause |-> board.cause]
    /\ state = [anomaly |-> state.anomaly, observed |-> state.observed,
                suspects |-> state.suspects, root |-> state.root,
                submission |-> state.submission]

\* The graph runs while the thread is in it.
PlaceInv == phase = "graph" <=> node # "END"

\* The cause in the session is written once, by the node that settles the root.
CauseInv ==
    /\ node \in BeforeActuator => board.cause = NoName
    /\ board.cause # NoName => board.cause = state.root

\* What each node of the graph may rely on: suspects come from signals, a root from
\* suspects, and the session shows no signal the observer did not find.
EvidenceInv ==
    /\ board.evidence.signals \subseteq state.observed.signals
    /\ state.anomaly = Anomalous(state.observed.signals)
    /\ state.suspects # <<>> => state.observed.signals # {}
    /\ state.root # NoName => state.suspects # <<>>
    /\ node \in BeforeAnalyst => state.suspects = <<>>
    /\ node = "observer_agent" => board.evidence = NoEvidence
    /\ node \in BeforeDrill => state.root = NoName
    /\ node \in {"drill", "single_shot"} => state.suspects # <<>>

\* What a submission of the actuator rests on.
Founded(submission) ==
    /\ submission.form = "list" /\ submission.name \in Names => state.root # NoName
    /\ submission.form = "exec" => submission.name = "fix" /\ state.root # NoName
    /\ task = "detection" => submission = Plain(IF state.anomaly THEN "Yes" ELSE "No")
    /\ submission.form # "nothing"

\* Behind the graph its report carries the submission of the actuator, and a repair was
\* run only where the agent never had a graph, or at the very end.
ReportInv ==
    /\ report.origin = "graph" /\ phase # "graph" => Founded(report.submission)
    /\ fix # "none" /\ phase # "done" => report.origin = "cluster"
    /\ report.origin = "cluster" => phase \in {"submit", "done"}
    /\ DetectionFollowsEvidence
    /\ BlameHasEvidence
-------------------------------------------------------------------------------
\* No service goes by the name of an error.
LEMMA ServicesHaveNames == ServicesAreNames
  BY SwarmAssumption DEF SwarmAssumption, ServicesAreNames

\* What the steps of the graph do to the session and to the state.
LEMMA ObserverEffect ==
    ASSUME Shape, ObserverAgent
    PROVE  \E parsed :
              /\ state' = [anomaly |-> Anomalous(parsed.signals), observed |-> parsed,
                           suspects |-> state.suspects, root |-> state.root,
                           submission |-> state.submission]
              /\ \/ board' = [evidence |-> parsed, cause |-> board.cause]
                 \/ board' = board
  <1>1. PICK parsed :
            /\ state' = [state EXCEPT !.observed = parsed, !.anomaly = Anomalous(parsed.signals)]
            /\ board' = [board EXCEPT !.evidence = parsed] \/ board' = board
    BY DEF ObserverAgent
  <1>2. QED
    BY <1>1 DEF Shape

\* The diagnoser settles the suspects, of the signals of one answer of the store.
LEMMA DiagnoserEffect ==
    ASSUME Shape, TopologicalDiagnoser
    PROVE  \E e \in Triplets : \E suspects :
              /\ state' = [anomaly |-> state.anomaly, observed |-> state.observed,
                           suspects |-> suspects, root |-> state.root,
                           submission |-> state.submission]
              /\ e.signals = {} => suspects = <<>>
  <1>1. PICK e \in Triplets : \E q \in Nominations(Scored(e)) :
            \/ \E labels : state' = [state EXCEPT !.suspects = NamesOf(Reranked(q, labels))]
            \/ state' = [state EXCEPT !.suspects = NamesOf(q)]
    BY DEF TopologicalDiagnoser
  <1>2. PICK q \in Nominations(Scored(e)) :
            \/ \E labels : state' = [state EXCEPT !.suspects = NamesOf(Reranked(q, labels))]
            \/ state' = [state EXCEPT !.suspects = NamesOf(q)]
    BY <1>1
  <1>3. \E suspects : /\ state' = [state EXCEPT !.suspects = suspects]
                      /\ e.signals = {} => suspects = <<>>
    BY <1>2, NobodyWithoutSignals
  <1>4. QED
    BY <1>3 DEF Shape

\* An analyst that ends settles the root, and writes that root or nothing.
LEMMA AnalystEffect ==
    ASSUME Shape, DrillFinal \/ SingleShot
    PROVE  \E root, cause :
              /\ state' = [anomaly |-> state.anomaly, observed |-> state.observed,
                           suspects |-> state.suspects, root |-> root,
                           submission |-> state.submission]
              /\ board' = [evidence |-> board.evidence, cause |-> cause]
              /\ cause = root \/ cause = board.cause
  <1>1. CASE DrillFinal
    <2>1. PICK root \in Replies, commit \in CommitOutcomes \ {"raised"} :
              /\ state' = [state EXCEPT !.root = root]
              /\ board' = IF commit = "done" THEN [board EXCEPT !.cause = root] ELSE board
      BY <1>1 DEF DrillFinal
    <2>2. state' = [anomaly |-> state.anomaly, observed |-> state.observed,
                    suspects |-> state.suspects, root |-> root, submission |-> state.submission]
      BY <2>1 DEF Shape
    <2>3. \/ board' = [evidence |-> board.evidence, cause |-> root]
          \/ board' = [evidence |-> board.evidence, cause |-> board.cause]
      BY <2>1 DEF Shape
    <2>4. QED
      BY <2>2, <2>3
  <1>2. CASE SingleShot
    <2>1. PICK named \in Replies \cup {NoName}, commit \in CommitOutcomes :
              /\ state' = [state EXCEPT !.root = RootOf(named, commit)]
              /\ board' = IF named # NoName /\ commit = "done"
                          THEN [board EXCEPT !.cause = named] ELSE board
      BY <1>2 DEF SingleShot
    <2> DEFINE root == RootOf(named, commit)
    <2>2. state' = [anomaly |-> state.anomaly, observed |-> state.observed,
                    suspects |-> state.suspects, root |-> root, submission |-> state.submission]
      BY <2>1 DEF Shape
    <2>3. named # NoName /\ commit = "done" => root = named
      BY DEF RootOf
    <2>4. \/ board' = [evidence |-> board.evidence, cause |-> root]
          \/ board' = [evidence |-> board.evidence, cause |-> board.cause]
      BY <2>1, <2>3 DEF Shape
    <2>5. QED
      BY <2>2, <2>4
  <1>3. QED
    BY <1>1, <1>2

\* A submission of the actuator is founded on the root it was given.
LEMMA ActuatorEffect ==
    ASSUME Shape, GuardrailActuator, SwarmAssumption
    PROVE  /\ board' = board
           /\ \E submission :
              /\ state' = [anomaly |-> state.anomaly, observed |-> state.observed,
                           suspects |-> state.suspects, root |-> state.root,
                           submission |-> submission]
              /\ submission.form = "list" /\ submission.name \in Names => state.root # NoName
              /\ submission.form = "exec" => submission.name = "fix" /\ state.root # NoName
              /\ task = "detection" => submission = Plain(IF state.anomaly THEN "Yes" ELSE "No")
              /\ submission.form # "nothing"
  <1>1. PICK submission \in
                IF task = "detection" THEN {Plain(IF state.anomaly THEN "Yes" ELSE "No")}
                ELSE IF state.root = NoName THEN {DefaultSubmission(NoName)}
                ELSE Submissions(state.root) :
            state' = [state EXCEPT !.submission = submission]
    BY DEF GuardrailActuator
  <1>2. state' = [anomaly |-> state.anomaly, observed |-> state.observed,
                  suspects |-> state.suspects, root |-> state.root, submission |-> submission]
    BY <1>1 DEF Shape
  <1>3. NoName \notin Names
    BY DEF SwarmAssumption, NoName, Names, Nobody, Token
  <1>4. CASE task = "detection"
    <2>1. submission = Plain(IF state.anomaly THEN "Yes" ELSE "No")
      BY <1>1, <1>4
    <2>2. submission.form \in {"Yes", "No"}
      BY <2>1 DEF Plain
    <2>3. QED
      BY <1>2, <1>4, <2>1, <2>2 DEF GuardrailActuator
  <1>5. CASE task # "detection" /\ state.root = NoName
    <2>1. submission = DefaultSubmission(NoName)
      BY <1>1, <1>5
    <2>2. submission \in {ListOf(NoName), Plain("class"), Blank}
      BY <2>1 DEF DefaultSubmission
    <2>3. /\ submission.form \in {"list", "class", "blank"}
          /\ submission.form = "list" => submission.name = NoName
      BY <2>2 DEF ListOf, Plain, Blank
    <2>4. QED
      BY <1>2, <1>3, <1>5, <2>3 DEF GuardrailActuator
  <1>6. CASE task # "detection" /\ state.root # NoName
    <2>1. submission \in Submissions(state.root)
      BY <1>1, <1>6
    <2>2. \/ \E n : submission = ListOf(n)
          \/ submission \in {Plain("class"), Blank, Proposed("fix"), Proposed("forbidden")}
      BY <2>1 DEF Submissions, DefaultSubmission
    <2>3. /\ submission.form \in {"list", "class", "blank", "exec"}
          /\ submission.form = "exec" => submission.name = "fix"
      BY <2>2 DEF ListOf, Plain, Blank, Proposed
    <2>4. QED
      BY <1>2, <1>6, <2>3 DEF GuardrailActuator
  <1>7. QED
    BY <1>4, <1>5, <1>6

\* The steps that touch neither the session nor the state.
Elsewhere ==
    \/ Collect \/ CollectNothing \/ PipelineRaises \/ Validate \/ SubmitResults
    \/ RcaAnalyst \/ DrillDown \/ DrillGivenUp \/ GraphCrashes

\* Every other step but a new attempt leaves both as they are.
LEMMA ElsewhereEffect ==
    ASSUME Elsewhere
    PROVE  UNCHANGED <<state, board>>
  BY DEF Elsewhere, Collect, CollectNothing, PipelineRaises, Validate, SubmitResults,
         RcaAnalyst, DrillDown, DrillGivenUp, GraphCrashes, graphVars

\* A new attempt starts with nothing in either.
LEMMA FreshEffect ==
    ASSUME InvokeGraph \/ GraphUnavailable
    PROVE  state' = FreshState /\ board' = FreshBoard
  BY DEF InvokeGraph, GraphUnavailable

\* The steps, by what they do to the session and to the state.
LEMMA NextCases ==
    ASSUME [Next]_vars
    PROVE  \/ InvokeGraph \/ GraphUnavailable \/ ObserverAgent \/ TopologicalDiagnoser
           \/ DrillFinal \/ SingleShot \/ GuardrailActuator
           \/ Elsewhere \/ UNCHANGED vars
  BY DEF Next, Work, GraphStep, Elsewhere, Submitted

\* Every step keeps the fields of both.
LEMMA ShapeKept ==
    ASSUME Shape, [Next]_vars
    PROVE  Shape'
  <1>1. CASE InvokeGraph \/ GraphUnavailable
    BY <1>1, FreshEffect DEF Shape, FreshState, FreshBoard
  <1>2. CASE ObserverAgent
    <2>1. PICK parsed :
              /\ state' = [anomaly |-> Anomalous(parsed.signals), observed |-> parsed,
                           suspects |-> state.suspects, root |-> state.root,
                           submission |-> state.submission]
              /\ \/ board' = [evidence |-> parsed, cause |-> board.cause]
                 \/ board' = board
      BY <1>2, ObserverEffect
    <2>2. QED
      BY <2>1 DEF Shape
  <1>3. CASE TopologicalDiagnoser
    <2>1. board' = board
      BY <1>3 DEF TopologicalDiagnoser
    <2>2. \E suspects :
              state' = [anomaly |-> state.anomaly, observed |-> state.observed,
                        suspects |-> suspects, root |-> state.root,
                        submission |-> state.submission]
      BY <1>3, DiagnoserEffect
    <2>3. QED
      BY <2>1, <2>2 DEF Shape
  <1>4. CASE DrillFinal \/ SingleShot
    BY <1>4, AnalystEffect DEF Shape
  <1>5. CASE GuardrailActuator
    BY <1>5, ActuatorEffect, SwarmAssumption DEF Shape
  <1>6. CASE Elsewhere
    BY <1>6, ElsewhereEffect DEF Shape
  <1>7. CASE UNCHANGED vars
    BY <1>7 DEF Shape, vars, graphVars
  <1>8. QED
    BY <1>1, <1>2, <1>3, <1>4, <1>5, <1>6, <1>7, NextCases

\* The cause in the session is the root: only the analyst writes either, once.
LEMMA CauseKept ==
    ASSUME Shape, CauseInv, [Next]_vars
    PROVE  CauseInv'
  <1>1. CASE InvokeGraph \/ GraphUnavailable
    BY <1>1, FreshEffect DEF CauseInv, FreshBoard
  <1>2. CASE ObserverAgent
    <2>1. PICK parsed :
              /\ state' = [anomaly |-> Anomalous(parsed.signals), observed |-> parsed,
                           suspects |-> state.suspects, root |-> state.root,
                           submission |-> state.submission]
              /\ \/ board' = [evidence |-> parsed, cause |-> board.cause]
                 \/ board' = board
      BY <1>2, ObserverEffect
    <2>2. board'.cause = board.cause /\ state'.root = state.root
      BY <2>1
    <2>3. node = "observer_agent" /\ node' = "topological_diagnoser"
      BY <1>2 DEF ObserverAgent, Goto
    <2>4. QED
      BY <2>2, <2>3 DEF CauseInv, BeforeActuator, BeforeDrill, BeforeAnalyst
  <1>3. CASE TopologicalDiagnoser
    <2>1. board' = board /\ node = "topological_diagnoser"
      BY <1>3 DEF TopologicalDiagnoser
    <2>2. board.cause = NoName
      BY <2>1 DEF CauseInv, BeforeActuator, BeforeDrill, BeforeAnalyst
    <2>3. QED
      BY <2>1, <2>2 DEF CauseInv
  <1>4. CASE DrillFinal \/ SingleShot
    <2>1. node \in BeforeActuator /\ node' = "guardrail_actuator"
      BY <1>4 DEF DrillFinal, SingleShot, Goto, DrillNext, BeforeActuator
    <2>2. board.cause = NoName
      BY <2>1 DEF CauseInv
    <2>3. board'.cause = NoName \/ board'.cause = state'.root
      BY <1>4, <2>2, AnalystEffect
    <2>4. QED
      BY <2>1, <2>3 DEF CauseInv, BeforeActuator, BeforeDrill, BeforeAnalyst
  <1>5. CASE GuardrailActuator
    <2>1. board' = board /\ state'.root = state.root
      BY <1>5, ActuatorEffect, SwarmAssumption
    <2>2. node' = "END"
      BY <1>5 DEF GuardrailActuator, Goto
    <2>3. QED
      BY <2>1, <2>2 DEF CauseInv, BeforeActuator, BeforeDrill, BeforeAnalyst
  <1>6. CASE Elsewhere
    <2>1. node' \in BeforeActuator => node \in BeforeActuator
      BY <1>6 DEF Elsewhere, Collect, CollectNothing, PipelineRaises, Validate, SubmitResults,
                  RcaAnalyst, DrillDown, DrillGivenUp, GraphCrashes, Goto, graphVars,
                  BeforeActuator, BeforeDrill, BeforeAnalyst
    <2>2. QED
      BY <1>6, <2>1, ElsewhereEffect DEF CauseInv
  <1>7. CASE UNCHANGED vars
    BY <1>7 DEF CauseInv, vars, graphVars
  <1>8. QED
    BY <1>1, <1>2, <1>3, <1>4, <1>5, <1>6, <1>7, NextCases

\* The node is END exactly outside the graph.
LEMMA PlaceKept ==
    ASSUME PlaceInv, [Next]_vars
    PROVE  PlaceInv'
  <1>1. CASE InvokeGraph \/ GraphUnavailable
    BY <1>1 DEF PlaceInv, InvokeGraph, GraphUnavailable, AfterGraph
  <1>2. CASE ObserverAgent \/ TopologicalDiagnoser \/ DrillFinal \/ SingleShot \/ GuardrailActuator
    BY <1>2 DEF PlaceInv, ObserverAgent, TopologicalDiagnoser, DrillFinal, DrillNext, SingleShot,
                GuardrailActuator, Goto, AfterGraph
  <1>3. CASE RcaAnalyst \/ DrillDown \/ DrillGivenUp \/ GraphCrashes
    BY <1>3 DEF PlaceInv, RcaAnalyst, DrillDown, DrillGivenUp, GraphCrashes, Goto, AfterGraph
  <1>4. CASE Collect \/ CollectNothing \/ PipelineRaises \/ Validate \/ SubmitResults
    <2>1. phase # "graph" /\ node' = node
      BY <1>4 DEF Collect, CollectNothing, PipelineRaises, Validate, SubmitResults, graphVars
    <2>2. phase' # "graph"
      BY <1>4 DEF Collect, CollectNothing, PipelineRaises, Validate, AfterValidation, SubmitResults
    <2>3. QED
      BY <2>1, <2>2 DEF PlaceInv
  <1>5. CASE UNCHANGED vars
    BY <1>5 DEF PlaceInv, vars, graphVars
  <1>6. QED
    BY <1>1, <1>2, <1>3, <1>4, <1>5, NextCases DEF Elsewhere

\* The chain from signals to suspects to the root survives every step.
LEMMA EvidenceKept ==
    ASSUME Shape, PlaceInv, EvidenceInv, [Next]_vars
    PROVE  EvidenceInv'
  <1>1. CASE InvokeGraph \/ GraphUnavailable
    <2>1. state' = FreshState /\ board' = FreshBoard
      BY <1>1, FreshEffect
    <2>2. node' \notin {"drill", "single_shot"}
      BY <1>1 DEF InvokeGraph, GraphUnavailable, PlaceInv
    <2>3. QED
      BY <2>1, <2>2, FreshIsQuiet DEF EvidenceInv, FreshState, FreshBoard, NoEvidence
  <1>2. CASE ObserverAgent
    <2>1. PICK parsed :
              /\ state' = [anomaly |-> Anomalous(parsed.signals), observed |-> parsed,
                           suspects |-> state.suspects, root |-> state.root,
                           submission |-> state.submission]
              /\ \/ board' = [evidence |-> parsed, cause |-> board.cause]
                 \/ board' = board
      BY <1>2, ObserverEffect
    <2>2. node = "observer_agent" /\ node' = "topological_diagnoser"
      BY <1>2 DEF ObserverAgent, Goto
    <2>3. /\ state.suspects = <<>> /\ state.root = NoName
          /\ board.evidence = NoEvidence
      BY <2>2 DEF EvidenceInv, BeforeAnalyst, BeforeDrill
    <2>4. board'.evidence.signals \subseteq parsed.signals
      BY <2>1, <2>3 DEF NoEvidence
    <2>5. QED
      BY <2>1, <2>2, <2>3, <2>4 DEF EvidenceInv
  <1>3. CASE TopologicalDiagnoser
    <2>1. board' = board /\ node = "topological_diagnoser" /\ node' = "rca_analyst"
      BY <1>3 DEF TopologicalDiagnoser, Goto
    <2>2. PICK e \in Triplets : \E suspects :
              /\ state' = [anomaly |-> state.anomaly, observed |-> state.observed,
                           suspects |-> suspects, root |-> state.root,
                           submission |-> state.submission]
              /\ e.signals = {} => suspects = <<>>
      BY <1>3, DiagnoserEffect
    <2>3. e.signals \subseteq state.observed.signals
      <3>1. e \in {board.evidence, NoEvidence}
        BY DEF Triplets
      <3>2. QED
        BY <3>1 DEF NoEvidence, EvidenceInv
    <2>4. state.root = NoName
      BY <2>1 DEF EvidenceInv, BeforeAnalyst, BeforeDrill
    <2>5. /\ state'.anomaly = state.anomaly /\ state'.observed = state.observed
          /\ state'.root = NoName
          /\ state'.suspects # <<>> => state.observed.signals # {}
      BY <2>2, <2>3, <2>4
    <2>6. QED
      BY <2>1, <2>5 DEF EvidenceInv, BeforeAnalyst
  <1>4. CASE DrillFinal \/ SingleShot
    <2>1. node \in {"drill", "single_shot"} /\ node' = "guardrail_actuator"
      BY <1>4 DEF DrillFinal, SingleShot, Goto, DrillNext
    <2>2. /\ board'.evidence = board.evidence
          /\ state'.anomaly = state.anomaly /\ state'.observed = state.observed
          /\ state'.suspects = state.suspects
      BY <1>4, AnalystEffect
    <2>3. state.suspects # <<>>
      BY <2>1 DEF EvidenceInv
    <2>4. QED
      BY <2>1, <2>2, <2>3 DEF EvidenceInv, BeforeDrill, BeforeAnalyst
  <1>5. CASE GuardrailActuator
    <2>1. /\ board' = board
          /\ state'.anomaly = state.anomaly /\ state'.observed = state.observed
          /\ state'.suspects = state.suspects /\ state'.root = state.root
      BY <1>5, ActuatorEffect, SwarmAssumption
    <2>2. node' = "END"
      BY <1>5 DEF GuardrailActuator, Goto
    <2>3. QED
      BY <2>1, <2>2 DEF EvidenceInv, BeforeDrill, BeforeAnalyst
  <1>6. CASE Elsewhere
    <2>1. /\ UNCHANGED <<state, board>>
          /\ node' # node =>
                \/ node' \notin BeforeDrill \cup {"drill", "single_shot"}
                \/ node' \in {"drill", "single_shot"} /\ state.suspects # <<>>
                \/ node' \in {"drill", "single_shot"} /\ node = "drill"
      BY <1>6, ElsewhereEffect
         DEF Elsewhere, Collect, CollectNothing, PipelineRaises, Validate, SubmitResults,
             RcaAnalyst, DrillDown, DrillGivenUp, GraphCrashes, Goto, graphVars,
             BeforeDrill, BeforeAnalyst
    <2>2. QED
      BY <2>1 DEF EvidenceInv, BeforeDrill, BeforeAnalyst
  <1>7. CASE UNCHANGED vars
    BY <1>7 DEF EvidenceInv, vars, graphVars
  <1>8. QED
    BY <1>1, <1>2, <1>3, <1>4, <1>5, <1>6, <1>7, NextCases

\* The answer that a founded report submits is what the properties promise.
LEMMA AnswerIsFounded ==
    ASSUME Shape, EvidenceInv, SubmitResults,
           report.origin = "graph" => Founded(report.submission),
           fix # "none" => report.origin = "cluster"
    PROVE  DetectionFollowsEvidence' /\ BlameHasEvidence'
  <1> DEFINE submission == report.submission
  <1>1. /\ phase' = "done" /\ task' = task /\ report' = report /\ state' = state
        /\ fix' = IF submission.form = "exec" THEN "run" ELSE fix
    BY DEF SubmitResults, graphVars
  <1>2. SUFFICES ASSUME report.origin = "graph"
                 PROVE  DetectionFollowsEvidence' /\ BlameHasEvidence'
    BY <1>1 DEF DetectionFollowsEvidence, BlameHasEvidence
  <1>3. Founded(submission) /\ fix = "none"
    BY <1>2
  <1>4. answer' = IF submission.form = "exec" THEN Blank ELSE submission
    BY <1>2, <1>3 DEF SubmitResults, Founded
  <1>5. state.root # NoName => state.observed.signals # {} /\ state.suspects # <<>>
    BY DEF EvidenceInv
  <1>6. DetectionFollowsEvidence'
    <2>1. SUFFICES ASSUME task = "detection"
                   PROVE  LET signals == state.observed.signals
                          IN  /\ DecisiveSignals(signals) # {} => answer'.form = "Yes"
                              /\ answer'.form = "Yes" =>
                                    DecisiveSignals(signals) \cup OverFloor(signals) # {}
      BY <1>1 DEF DetectionFollowsEvidence
    <2>2. answer'.form = IF state.anomaly THEN "Yes" ELSE "No"
      BY <1>3, <1>4, <2>1 DEF Founded, Plain
    <2>3. state.anomaly = Anomalous(state.observed.signals)
      BY DEF EvidenceInv
    <2>4. QED
      BY <2>2, <2>3 DEF Anomalous
  <1>7. BlameHasEvidence'
    <2>1. answer'.form = "list" /\ answer'.name \in Names => state.root # NoName
      BY <1>3, <1>4 DEF Founded, Blank, Plain
    <2>2. fix' # "none" => submission.name = "fix" /\ state.root # NoName
      BY <1>1, <1>3 DEF Founded
    <2>3. QED
      BY <1>1, <1>5, <2>1, <2>2 DEF BlameHasEvidence
  <1>8. QED
    BY <1>6, <1>7

\* What the report says stays founded, and nothing is run before the submission.
LEMMA ReportKept ==
    ASSUME Shape, PlaceInv, EvidenceInv, ReportInv, [Next]_vars
    PROVE  ReportInv'
  <1>1. CASE InvokeGraph
    <2>1. phase' = "graph" /\ report'.origin = "graph" /\ fix' = fix /\ phase = "start"
      BY <1>1 DEF InvokeGraph, NoReport
    <2>2. fix = "none"
      BY <2>1 DEF ReportInv
    <2>3. QED
      BY <2>1, <2>2 DEF ReportInv, DetectionFollowsEvidence, BlameHasEvidence
  <1>2. CASE GraphUnavailable \/ PipelineRaises
    <2>1. /\ phase = "start" /\ phase' # "done" /\ fix' = fix
          /\ report'.origin \in {"unavailable", "default"}
      BY <1>2 DEF GraphUnavailable, PipelineRaises, AfterGraph, CrashReport, DefaultReport, NoReport
    <2>2. fix = "none"
      BY <2>1 DEF ReportInv
    <2>3. QED
      BY <2>1, <2>2 DEF ReportInv, DetectionFollowsEvidence, BlameHasEvidence
  <1>3. CASE ObserverAgent \/ TopologicalDiagnoser \/ DrillFinal \/ SingleShot
             \/ RcaAnalyst \/ DrillDown \/ DrillGivenUp
    <2>1. phase = "graph" /\ phase' = "graph" /\ report' = report /\ fix' = fix
      BY <1>3 DEF PlaceInv, ObserverAgent, TopologicalDiagnoser, DrillFinal, DrillNext, SingleShot,
                  RcaAnalyst, DrillDown, DrillGivenUp, Goto
    <2>2. QED
      BY <2>1 DEF ReportInv, DetectionFollowsEvidence, BlameHasEvidence
  <1>4. CASE GuardrailActuator
    <2>1. PICK submission :
              /\ state' = [anomaly |-> state.anomaly, observed |-> state.observed,
                           suspects |-> state.suspects, root |-> state.root,
                           submission |-> submission]
              /\ submission.form = "list" /\ submission.name \in Names => state.root # NoName
              /\ submission.form = "exec" => submission.name = "fix" /\ state.root # NoName
              /\ task = "detection" => submission = Plain(IF state.anomaly THEN "Yes" ELSE "No")
              /\ submission.form # "nothing"
      BY <1>4, ActuatorEffect, SwarmAssumption
    <2>2. /\ phase = "graph" /\ phase' \in {"validate", "submit"}
          /\ report'.origin = "graph" /\ report'.submission = state'.submission
          /\ task' = task /\ fix' = fix
      BY <1>4 DEF PlaceInv, GuardrailActuator, Goto, AfterGraph
    <2>3. fix = "none"
      BY <2>2 DEF ReportInv
    <2>4. Founded(submission)'
      BY <2>1, <2>2 DEF Founded, Plain
    <2>5. report'.submission = submission
      BY <2>1, <2>2
    <2>6. Founded(report.submission)'
      BY <2>4, <2>5 DEF Founded
    <2>7. QED
      BY <2>2, <2>3, <2>6 DEF ReportInv, DetectionFollowsEvidence, BlameHasEvidence
  <1>5. CASE GraphCrashes
    <2>1. /\ phase = "graph" /\ phase' \in {"validate", "submit"}
          /\ report'.origin = "crash" /\ fix' = fix
      BY <1>5 DEF PlaceInv, GraphCrashes, AfterGraph, CrashReport, NoReport
    <2>2. fix = "none"
      BY <2>1 DEF ReportInv
    <2>3. QED
      BY <2>1, <2>2 DEF ReportInv, DetectionFollowsEvidence, BlameHasEvidence
  <1>6. CASE Collect
    <2>1. phase = "collect" /\ phase' = "start" /\ UNCHANGED <<task, state, report, fix>>
      BY <1>6 DEF Collect, graphVars
    <2>2. QED
      BY <2>1 DEF ReportInv, Founded, DetectionFollowsEvidence, BlameHasEvidence
  <1>7. CASE CollectNothing
    <2>1. report'.origin = "cluster" /\ phase' = "submit"
      <3>1. PICK primary, unhealthy :
                report' = [NoReport EXCEPT !.origin = "cluster", !.root = primary,
                                           !.alert = primary # Unknown \/ unhealthy]
        BY <1>7, Zenon DEF CollectNothing
      <3>2. report' = [origin |-> "cluster", alert |-> primary # Unknown \/ unhealthy,
                       root |-> primary, submission |-> Nothing]
        BY <3>1, Zenon DEF NoReport
      <3>3. QED
        BY <1>7, <3>2, Zenon DEF CollectNothing
    <2>2. QED
      BY <2>1 DEF ReportInv, DetectionFollowsEvidence, BlameHasEvidence
  <1>8. CASE Validate
    <2>1. /\ phase = "validate" /\ phase' \in {"start", "submit"}
          /\ UNCHANGED <<task, state, report, fix>>
      BY <1>8 DEF Validate, AfterValidation, graphVars
    <2>2. report.origin # "cluster"
      BY <2>1 DEF ReportInv
    <2>3. QED
      BY <2>1, <2>2 DEF ReportInv, Founded, DetectionFollowsEvidence, BlameHasEvidence
  <1>9. CASE SubmitResults
    <2>1. phase = "submit" /\ phase' = "done" /\ UNCHANGED <<task, state, report>>
      BY <1>9 DEF SubmitResults, graphVars
    <2>2. /\ report.origin = "graph" => Founded(report.submission)
          /\ fix # "none" => report.origin = "cluster"
      BY <2>1 DEF ReportInv
    <2>3. DetectionFollowsEvidence' /\ BlameHasEvidence'
      BY <1>9, <2>2, AnswerIsFounded
    <2>4. QED
      BY <2>1, <2>2, <2>3 DEF ReportInv, Founded
  <1>10. CASE UNCHANGED vars
    BY <1>10 DEF ReportInv, Founded, DetectionFollowsEvidence, BlameHasEvidence, vars, graphVars
  <1>11. QED
    BY <1>1, <1>2, <1>3, <1>4, <1>5, <1>6, <1>7, <1>8, <1>9, <1>10, NextCases DEF Elsewhere
-------------------------------------------------------------------------------
SwarmInv == Shape /\ PlaceInv /\ CauseInv /\ EvidenceInv /\ ReportInv

\* The inductive invariant of the swarm.
THEOREM SwarmInvariant == Spec => []SwarmInv
  <1>1. Init => SwarmInv
    <2>1. SUFFICES ASSUME Init PROVE SwarmInv
      OBVIOUS
    <2>2. /\ phase = "collect" /\ node = "END" /\ fix = "none"
          /\ state = FreshState /\ board = FreshBoard /\ report = NoReport
      BY <2>1 DEF Init
    <2>3. Shape /\ PlaceInv /\ CauseInv
      BY <2>2 DEF Shape, PlaceInv, CauseInv, FreshState, FreshBoard
    <2>4. EvidenceInv
      BY <2>2, FreshIsQuiet
         DEF EvidenceInv, FreshState, FreshBoard, NoEvidence, BeforeAnalyst, BeforeDrill
    <2>5. ReportInv
      BY <2>2 DEF ReportInv, NoReport, DetectionFollowsEvidence, BlameHasEvidence
    <2>6. QED
      BY <2>3, <2>4, <2>5 DEF SwarmInv
  <1>2. SwarmInv /\ [Next]_vars => SwarmInv'
    BY ShapeKept, PlaceKept, CauseKept, EvidenceKept, ReportKept DEF SwarmInv
  <1>3. QED
    BY <1>1, <1>2, PTL DEF Spec

\* The cause an analyst left in the session is the root the actuator acts on, over
\* both modes of the analyst and every failed commit.
THEOREM BoardAgreesWithBlame == Spec => []CauseOnBoardIsRoot
  <1>1. SwarmInv => CauseOnBoardIsRoot
    BY DEF SwarmInv, CauseInv, CauseOnBoardIsRoot
  <1>2. QED
    BY <1>1, SwarmInvariant, PTL

\* A detection answered by the graph follows the signals the observer parsed,
\* whatever the store, the labels of the re-ranking and the replies do in between.
THEOREM DetectionIsTheEvidence == Spec => []DetectionFollowsEvidence
  <1>1. SwarmInv => DetectionFollowsEvidence
    BY DEF SwarmInv, ReportInv
  <1>2. QED
    BY <1>1, SwarmInvariant, PTL

\* A service is blamed, and a repair run, only on a signal the observer found and the
\* diagnoser read back; a repair has a root cause and has passed the pattern check.
THEOREM BlameRestsOnEvidence == Spec => []BlameHasEvidence
  <1>1. SwarmInv => BlameHasEvidence
    BY DEF SwarmInv, ReportInv
  <1>2. QED
    BY <1>1, SwarmInvariant, PTL
-------------------------------------------------------------------------------
\* The types, with what they rest on: the telemetry the attempts share, and a bound of
\* the attempts that the next one keeps.
TypeInv ==
    /\ TypeOK
    /\ Collectable(seen)
    /\ phase = "collect" => attempt = 0
    /\ phase = "start" => attempt < MaxRetryAttempts
    /\ node # "END" => phase = "graph"

\* The answers there are.
LEMMA AnswersAreAnswers ==
    /\ \A form \in {"nothing", "Yes", "No", "class", "blank"} : Plain(form) \in Answer
    /\ \A n \in Names \cup {NoName, Unknown} : ListOf(n) \in Answer
    /\ Blank \in Answer /\ Nothing \in Answer
    /\ \A c \in {"fix", "forbidden"} : Proposed(c) \in Answer
  BY DEF Answer, Plain, ListOf, Blank, Nothing, Proposed

\* It starts so.
LEMMA InitTypes ==
    ASSUME SwarmAssumption, Init
    PROVE  TypeInv
  <1>1. NoEvidence \in Evidence
    BY DEF NoEvidence, Evidence
  <1>2. Nothing \in Answer
    BY AnswersAreAnswers
  <1>3. FreshState \in State
    BY <1>1, <1>2 DEF FreshState, State
  <1>4. FreshBoard \in Board
    BY <1>1 DEF FreshBoard, Board
  <1>5. NoReport \in Report
    BY <1>2 DEF NoReport, Report, Nothing
  <1>6. Typed(seen) /\ Collectable(seen)
    BY DEF Init, SwarmAssumption, Collectable
  <1>7. /\ setting \in [drill : BOOLEAN, rerank : BOOLEAN, store : Stores]
        /\ attempt \in 0..MaxRetryAttempts /\ round \in 0..MaxRounds
    BY DEF Init, SwarmAssumption
  <1>8. phase \in Phases /\ node \in NodeNames /\ task \in Tasks /\ fix \in {"none", "run"}
    BY DEF Init, Phases, NodeNames
  <1>9. TypeOK
    BY <1>2, <1>3, <1>4, <1>5, <1>6, <1>7, <1>8 DEF Init, TypeOK
  <1>10. QED
    BY <1>6, <1>9 DEF Init, TypeInv

\* The reports that are made without the graph.
LEMMA ReportsAreReports ==
    /\ \A origin \in {"graph", "crash", "unavailable", "default"} :
          [NoReport EXCEPT !.origin = origin] \in Report
    /\ CrashReport \in Report /\ DefaultReport \in Report
    /\ [CrashReport EXCEPT !.origin = "unavailable"] \in Report
    /\ \A root \in Services \cup {Unknown}, alert \in BOOLEAN :
          [NoReport EXCEPT !.origin = "cluster", !.root = root, !.alert = alert] \in Report
  <1>1. Nothing \in Answer
    BY AnswersAreAnswers
  <1>2. QED
    BY <1>1 DEF Report, NoReport, CrashReport, DefaultReport, Names

\* A fresh attempt has the types.
LEMMA FreshIsTyped == FreshState \in State /\ FreshBoard \in Board
  <1>1. NoEvidence \in Evidence
    BY DEF NoEvidence, Evidence
  <1>2. Nothing \in Answer
    BY AnswersAreAnswers
  <1>3. QED
    BY <1>1, <1>2 DEF FreshState, State, FreshBoard, Board

\* Part of what may be collected may be.
LEMMA CollectedIsCollectable ==
    ASSUME Collectable(seen), NEW sources \in SUBSET Telemetry
    PROVE  Collectable(Collected(sources)) /\ Collectable(NoTelemetry)
  <1> DEFINE got == Only(seen, sources)
             kept == {x \in got["logs"] : x.section \in Discovered(got) \ Infra}
             all == Collected(sources)
  <1>1. \A source \in Telemetry : got[source] \in {seen[source], {}}
    BY DEF Only
  <1>2. DOMAIN got = Telemetry
    BY DEF Only
  <1>3. /\ \A source \in Telemetry \ {"logs"} : all[source] = got[source]
        /\ all["logs"] = kept
    BY <1>2 DEF Collected, Telemetry
  <1>4. \A source \in Telemetry : all[source] \subseteq seen[source] /\ IsFiniteSet(seen[source])
    <2> HIDE DEF all, got
    <2>1. kept \subseteq got["logs"]
      OBVIOUS
    <2> HIDE DEF kept
    <2>2. QED
      BY <1>1, <1>3, <2>1 DEF Collectable
  <1> HIDE DEF all, got
  <1>5. \A source \in Telemetry : IsFiniteSet(all[source])
    BY <1>4, FS_Subset
  <1>6. Typed(all)
    BY <1>4 DEF Typed, Collectable, Telemetry
  <1>7. Collectable(NoTelemetry)
    BY FS_EmptySet DEF Collectable, NoTelemetry, Typed, Telemetry
  <1>8. QED
    BY <1>5, <1>6, <1>7 DEF Collectable, all

\* A node that ends normally keeps the types, if it leaves state and session with theirs.
LEMMA NodeKeepsTypes ==
    ASSUME TypeInv, node # "END", NEW next \in NodeNames, Goto(next),
           round' \in 0..MaxRounds, state' \in State, board' \in Board
    PROVE  TypeInv'
  <1>1. phase = "graph"
    BY DEF TypeInv
  <1>2. /\ phase' = (IF next = "END" THEN AfterGraph ELSE "graph")
        /\ node' = next
        /\ UNCHANGED <<task, setting, seen, attempt, answer, fix>>
    BY <1>1 DEF Goto
  <1>3. phase' \in {"graph", "validate", "submit"} /\ (next # "END" => phase' = "graph")
    BY <1>2 DEF AfterGraph
  <1>4. report' \in Report
    <2>1. report \in Report
      BY DEF TypeInv, TypeOK
    <2>2. /\ state'.anomaly \in BOOLEAN /\ state'.submission \in Answer
          /\ state'.root \in Names \cup {NoName}
      BY DEF State
    <2>3. [origin |-> "graph", alert |-> state'.anomaly,
           root |-> IF state'.root = NoName THEN Unknown ELSE state'.root,
           submission |-> state'.submission] \in Report
      BY <2>2 DEF Report
    <2>4. QED
      BY <2>1, <2>3 DEF Goto
  <1>5. TypeOK'
    BY <1>2, <1>3, <1>4 DEF TypeInv, TypeOK, Phases, Typed
  <1>6. Collectable(seen)'
    BY <1>2 DEF TypeInv, Collectable, Typed
  <1>7. QED
    BY <1>2, <1>3, <1>5, <1>6 DEF TypeInv

\* The suspects are names of candidates.
LEMMA SuspectsAreNames ==
    ASSUME DiagnosisAssumption, SwarmAssumption, NEW e \in Evidence,
           NEW q \in Nominations(Scored(e)), NEW out,
           \/ out = q
           \/ \E labels \in [DOMAIN q -> DOMAIN Multiplier] : out = Reranked(q, labels)
    PROVE  NamesOf(out) \in Seq(Names)
  <1>1. CASE e.signals = {}
    <2>1. NamesOf(out) = <<>>
      BY <1>1, NobodyWithoutSignals
    <2>2. QED
      BY <2>1
  <1>2. CASE DOMAIN q = {}
    <2>1. DOMAIN out = {}
      BY <1>2, NoneSorted DEF Reranked
    <2>2. NamesOf(out) = <<>>
      BY <2>1 DEF NamesOf
    <2>3. QED
      BY <2>2
  <1>3. CASE DOMAIN q # {}
    <2>1. q \in Seq(Scored(e)) /\ \A i \in DOMAIN q : q[i].score = ScoreOf(e, q[i].name)
      BY <1>3, FirstHasScore, ServicesHaveNames
    <2>2. out \in Seq(Scored(e))
      <3>1. ASSUME NEW labels \in [DOMAIN q -> DOMAIN Multiplier], out = Reranked(q, labels)
            PROVE  out \in Seq(Scored(e))
        <4> DEFINE key == [i \in DOMAIN q |-> q[i].score * Multiplier[labels[i]]]
        <4>1. out = SortedDown(q, key)
          BY <3>1 DEF Reranked
        <4>2. \A i \in DOMAIN q : key[i] \in Int
          <5>1. \A l \in DOMAIN Multiplier : Multiplier[l] \in Int
            BY DEF Multiplier
          <5>2. \A i \in DOMAIN q : q[i].score \in Int
            BY <2>1, ScoreIsPositive, ServicesHaveNames
          <5>3. \A i \in DOMAIN q : q[i].score * Multiplier[labels[i]] \in Int
            BY <5>1, <5>2
          <5>4. QED
            BY <5>3
        <4> HIDE DEF key
        <4>3. QED
          BY <2>1, <4>1, <4>2, SortedDownSorts
      <3>2. QED
        BY <2>1, <3>1
    <2>3. \A c \in Scored(e) : c.name \in Names
      BY DEF Scored, Candidates, Names
    <2>4. QED
      BY <2>2, <2>3 DEF NamesOf
  <1>4. QED
    BY <1>2, <1>3

\* The steps of the graph keep the types.
LEMMA GraphKeepsTypes ==
    ASSUME ObserverAssumption, DiagnosisAssumption, SwarmAssumption,
           TypeInv, EvidenceInv, GraphStep
    PROVE  TypeInv'
  <1>1. /\ state \in State /\ board \in Board /\ round \in 0..MaxRounds /\ Collectable(seen)
        /\ report \in Report /\ MaxRounds \in Nat
    BY DEF TypeInv, TypeOK, SwarmAssumption
  <1>2. CASE ObserverAgent
    <2>1. PICK sources \in SUBSET Telemetry :
            /\ state' = [state EXCEPT !.observed = Parsed(seen, Found(seen), sources),
                                 !.anomaly = Anomalous(Parsed(seen, Found(seen), sources).signals)]
            /\ \/ board' = [board EXCEPT !.evidence = Parsed(seen, Found(seen), sources)]
               \/ board' = board
      BY <1>2 DEF ObserverAgent
    <2>2. Parsed(seen, Found(seen), sources) \in Evidence
      BY <1>1, ParsedIsEvidence
    <2> DEFINE parsed == Parsed(seen, Found(seen), sources)
    <2>3. Anomalous(parsed.signals) \in BOOLEAN
      BY DEF Anomalous
    <2> HIDE DEF parsed
    <2>4. state' = [state EXCEPT !.observed = parsed, !.anomaly = Anomalous(parsed.signals)]
      BY <2>1 DEF parsed
    <2>5. state' \in State
      BY <1>1, <2>2, <2>3, <2>4 DEF State, parsed
    <2>6. board' \in Board
      BY <1>1, <2>1, <2>2 DEF Board
    <2>7. QED
      BY <1>1, <1>2, <2>5, <2>6, NodeKeepsTypes DEF ObserverAgent, NodeNames
  <1>3. CASE TopologicalDiagnoser
    <2>1. PICK e \in Triplets : \E q \in Nominations(Scored(e)) :
            \/ \E labels \in [DOMAIN q -> DOMAIN Multiplier] :
                  state' = [state EXCEPT !.suspects = NamesOf(Reranked(q, labels))]
            \/ state' = [state EXCEPT !.suspects = NamesOf(q)]
      BY <1>3 DEF TopologicalDiagnoser
    <2>2. e \in Evidence
      <3>1. NoEvidence \in Evidence /\ board.evidence \in Evidence
        BY <1>1 DEF NoEvidence, Evidence, Board
      <3>2. QED
        BY <3>1 DEF Triplets
    <2>3. \E suspects \in Seq(Names) : state' = [state EXCEPT !.suspects = suspects]
      BY <2>1, <2>2, SuspectsAreNames
    <2>4. state' \in State
      BY <1>1, <2>3 DEF State
    <2>5. QED
      BY <1>1, <1>3, <2>4, NodeKeepsTypes DEF TopologicalDiagnoser, NodeNames
  <1>4. CASE RcaAnalyst
    <2>1. PICK next \in NodeNames : Goto(next)
      BY <1>4 DEF RcaAnalyst, NodeNames
    <2>2. QED
      BY <1>1, <1>4, <2>1, NodeKeepsTypes DEF RcaAnalyst
  <1>5. CASE DrillFinal
    <2>1. PICK root \in Replies : /\ state' = [state EXCEPT !.root = root]
                                  /\ board' = [board EXCEPT !.cause = root] \/ board' = board
      BY <1>5 DEF DrillFinal
    <2>2. root \in Names
      BY DEF SwarmAssumption, Names
    <2>3. state' \in State /\ board' \in Board
      BY <1>1, <2>1, <2>2 DEF State, Board
    <2>4. QED
      BY <1>1, <1>5, <2>3, NodeKeepsTypes DEF DrillFinal, DrillNext, NodeNames
  <1>6. CASE DrillDown
    <2>1. round' \in 0..MaxRounds
      BY <1>1, <1>6 DEF DrillDown
    <2>2. QED
      BY <1>1, <1>6, <2>1, NodeKeepsTypes DEF DrillDown, NodeNames
  <1>7. CASE DrillGivenUp
    BY <1>1, <1>7, NodeKeepsTypes DEF DrillGivenUp, NodeNames
  <1>8. CASE SingleShot
    <2>1. PICK named \in Replies \cup {NoName} : \E commit \in CommitOutcomes :
              /\ state' = [state EXCEPT !.root = RootOf(named, commit)]
              /\ board' = IF named # NoName /\ commit = "done"
                          THEN [board EXCEPT !.cause = named] ELSE board
      BY <1>8 DEF SingleShot
    <2>2. named \in Names \cup {NoName}
      BY DEF SwarmAssumption, Names
    <2>3. state.suspects \in Seq(Names) /\ state.suspects # <<>>
      BY <1>1, <1>8 DEF State, EvidenceInv, SingleShot
    <2>4. state.suspects[1] \in Names
      BY <2>3
    <2>5. \A commit : RootOf(named, commit) \in Names \cup {NoName}
      BY <2>2, <2>4 DEF RootOf
    <2>6. state' \in State
      BY <1>1, <2>1, <2>5 DEF State
    <2>7. board' \in Board
      BY <1>1, <2>1, <2>2 DEF Board
    <2>8. QED
      BY <1>1, <1>8, <2>6, <2>7, NodeKeepsTypes DEF SingleShot, NodeNames
  <1>9. CASE GuardrailActuator
    <2>1. PICK submission \in
              IF task = "detection" THEN {Plain(IF state.anomaly THEN "Yes" ELSE "No")}
              ELSE IF state.root = NoName THEN {DefaultSubmission(NoName)}
              ELSE Submissions(state.root) :
            state' = [state EXCEPT !.submission = submission]
      BY <1>9 DEF GuardrailActuator
    <2>2. state.root \in Names \cup {NoName}
      BY <1>1 DEF State
    <2>3. \A n \in Names \cup {NoName} : DefaultSubmission(n) \in Answer
      BY AnswersAreAnswers DEF DefaultSubmission
    <2>4. \A n \in Replies : ListOf(n) \in Answer
      BY AnswersAreAnswers DEF SwarmAssumption, Names
    <2>5. Submissions(state.root) \subseteq Answer
      BY <2>2, <2>3, <2>4, AnswersAreAnswers DEF Submissions
    <2>6. submission \in Answer
      BY <2>1, <2>3, <2>5, AnswersAreAnswers
    <2>7. state' \in State
      BY <1>1, <2>1, <2>6 DEF State
    <2>8. QED
      BY <1>1, <1>9, <2>7, NodeKeepsTypes DEF GuardrailActuator, NodeNames
  <1>10. CASE GraphCrashes
    <2>1. phase = "graph" /\ phase' \in {"validate", "submit"} /\ node' = "END"
      BY <1>10 DEF GraphCrashes, TypeInv, AfterGraph
    <2>2. report' \in Report
      BY <1>10, ReportsAreReports DEF GraphCrashes
    <2>3. QED
      BY <1>10, <2>1, <2>2 DEF GraphCrashes, TypeInv, TypeOK, Phases, NodeNames, Collectable, Typed
  <1>11. QED
    BY <1>2, <1>3, <1>4, <1>5, <1>6, <1>7, <1>8, <1>9, <1>10 DEF GraphStep

\* So do the steps before the graph and after it.
LEMMA AgentKeepsTypes ==
    ASSUME SwarmAssumption, TypeInv,
           \/ Collect \/ CollectNothing \/ InvokeGraph \/ GraphUnavailable \/ PipelineRaises
           \/ Validate \/ SubmitResults
    PROVE  TypeInv'
  <1>1. /\ MaxRetryAttempts \in Nat /\ MaxRounds \in Nat /\ attempt \in 0..MaxRetryAttempts
        /\ Collectable(seen) /\ report \in Report
    BY DEF TypeInv, TypeOK, SwarmAssumption
  <1>2. phase # "graph" => node = "END"
    BY DEF TypeInv
  <1>3. CASE Collect
    <2>1. PICK sources \in SUBSET Telemetry : seen' = Collected(sources)
      BY <1>3 DEF Collect
    <2>2. Collectable(seen')
      BY <1>1, <2>1, CollectedIsCollectable
    <2>3. Typed(seen)' /\ Collectable(seen)'
      BY <2>2 DEF Collectable, Typed
    <2>4. attempt' = 0 /\ 0 < MaxRetryAttempts
      BY <1>1, <1>3 DEF Collect, TypeInv, SwarmAssumption
    <2>5. QED
      BY <1>2, <1>3, <2>3, <2>4 DEF Collect, TypeInv, TypeOK, Phases, graphVars
  <1>4. CASE CollectNothing
    <2>1. Collectable(NoTelemetry)
      BY <1>1, CollectedIsCollectable
    <2>2. Typed(seen)' /\ Collectable(seen)'
      BY <1>4, <2>1 DEF CollectNothing, Collectable, Typed
    <2>3. report' \in Report
      <3>1. PICK primary \in Deployed \cup {Unknown}, unhealthy \in BOOLEAN :
                report' = [NoReport EXCEPT !.origin = "cluster", !.root = primary,
                                           !.alert = primary # Unknown \/ unhealthy]
        BY <1>4, Zenon DEF CollectNothing
      <3>2. primary \in Services \cup {Unknown} /\ (primary # Unknown \/ unhealthy) \in BOOLEAN
        BY DEF SwarmAssumption
      <3> DEFINE alert == primary # Unknown \/ unhealthy
      <3>3. report' = [NoReport EXCEPT !.origin = "cluster", !.root = primary, !.alert = alert]
        BY <3>1
      <3> HIDE DEF alert
      <3>4. alert \in BOOLEAN
        BY <3>2 DEF alert
      <3>5. QED
        BY <3>2, <3>3, <3>4, ReportsAreReports
    <2>4. fix' \in {"none", "run"}
      BY <1>4 DEF CollectNothing, TypeInv, TypeOK
    <2>5. QED
      BY <1>2, <1>4, <2>2, <2>3, <2>4 DEF CollectNothing, TypeInv, TypeOK, Phases, graphVars
  <1>5. CASE InvokeGraph
    <2>1. state' \in State /\ board' \in Board
      BY <1>5, FreshIsTyped DEF InvokeGraph
    <2>2. report' \in Report
      BY <1>5, ReportsAreReports DEF InvokeGraph
    <2>3. attempt' \in 0..MaxRetryAttempts /\ round' \in 0..MaxRounds
      BY <1>1, <1>5 DEF InvokeGraph, TypeInv
    <2>4. QED
      BY <1>5, <2>1, <2>2, <2>3
         DEF InvokeGraph, TypeInv, TypeOK, Phases, NodeNames, Collectable, Typed
  <1>6. CASE GraphUnavailable
    <2>1. state' \in State /\ board' \in Board
      BY <1>6, FreshIsTyped DEF GraphUnavailable
    <2>2. report' \in Report
      BY <1>6, ReportsAreReports DEF GraphUnavailable
    <2>3. attempt' \in 0..MaxRetryAttempts /\ phase' \in {"validate", "submit"}
      BY <1>1, <1>6 DEF GraphUnavailable, AfterGraph, TypeInv
    <2>4. node = "END"
      BY <1>2, <1>6 DEF GraphUnavailable
    <2>5. QED
      BY <1>6, <2>1, <2>2, <2>3, <2>4
         DEF GraphUnavailable, TypeInv, TypeOK, Phases, Collectable, Typed
  <1>7. CASE PipelineRaises
    <2>1. report' \in Report
      BY <1>7, ReportsAreReports DEF PipelineRaises
    <2>2. node = "END"
      BY <1>2, <1>7 DEF PipelineRaises
    <2>3. QED
      BY <1>7, <2>1, <2>2
         DEF PipelineRaises, TypeInv, TypeOK, Phases, Collectable, Typed, graphVars
  <1>8. CASE Validate
    <2>1. /\ phase' \in {"submit", "start"} /\ node = "END"
          /\ phase' = "start" => attempt < MaxRetryAttempts
      BY <1>1, <1>2, <1>8 DEF Validate, AfterValidation
    <2>2. QED
      BY <1>8, <2>1 DEF Validate, TypeInv, TypeOK, Phases, Collectable, Typed, graphVars
  <1>9. CASE SubmitResults
    <2>1. /\ report.root \in Names \cup {Unknown} /\ report.submission \in Answer
      BY <1>1 DEF Report
    <2>2. \A alert \in BOOLEAN : Plain(IF alert THEN "Yes" ELSE "No") \in Answer
      BY AnswersAreAnswers
    <2>3. ReportAnswer \in Answer
      BY <1>1, <2>1, <2>2, AnswersAreAnswers DEF ReportAnswer, Report
    <2>4. DefaultAnswer \in Answer
      BY AnswersAreAnswers DEF DefaultAnswer
    <2>5. answer' \in Answer
      BY <1>9, <2>1, <2>3, <2>4, AnswersAreAnswers DEF SubmitResults
    <2>6. fix' \in {"none", "run"} /\ node = "END"
      BY <1>2, <1>9 DEF SubmitResults, TypeInv, TypeOK
    <2>7. QED
      BY <1>9, <2>5, <2>6 DEF SubmitResults, TypeInv, TypeOK, Phases, Collectable, Typed, graphVars
  <1>10. QED
    BY <1>3, <1>4, <1>5, <1>6, <1>7, <1>8, <1>9

\* The types hold throughout, with the invariant of the answer next to them.
LEMMA TypesAreInvariant == Spec => []TypeInv
  <1>1. Init => TypeInv
    BY InitTypes, SwarmAssumption
  <1>2. TypeInv /\ SwarmInv /\ [Next]_vars => TypeInv'
    <2>1. SUFFICES ASSUME TypeInv, SwarmInv, [Next]_vars PROVE TypeInv'
      OBVIOUS
    <2>2. CASE GraphStep
      BY <2>1, <2>2, GraphKeepsTypes, ObserverAssumption, DiagnosisAssumption, SwarmAssumption
         DEF SwarmInv
    <2>3. CASE UNCHANGED vars
      BY <2>1, <2>3 DEF vars, graphVars, TypeInv, TypeOK, Collectable, Typed
    <2>4. QED
      BY <2>1, <2>2, <2>3, AgentKeepsTypes, SwarmAssumption DEF Next, Work, Submitted
  <1>3. QED
    BY <1>1, <1>2, SwarmInvariant, PTL DEF Spec

\* Types: every signal, suspect, root, report and answer is one of those the code
\* makes, and neither the attempts nor the rounds pass their bound.
THEOREM SwarmTypes == Spec => []TypeOK
  <1>1. TypeInv => TypeOK
    BY DEF TypeInv
  <1>2. QED
    BY <1>1, TypesAreInvariant, PTL

-------------------------------------------------------------------------------
\* A step leaves the suspects and the signals on the board, or clears the suspects, or
\* ranks them by those signals; and the setting is what it was.
LEMMA RankingEffect ==
    ASSUME SwarmInv, [Next]_vars
    PROVE  /\ setting' = setting
           /\ \/ state'.suspects = state.suspects /\ board'.evidence = board.evidence
              \/ state'.suspects = <<>>
              \/ \E q \in Nominations(Scored(board.evidence)) : \E out :
                    /\ state'.suspects = NamesOf(out) /\ board'.evidence = board.evidence
                    /\ \/ out = q
                       \/ /\ setting.rerank
                          /\ \E labels \in [DOMAIN q -> DOMAIN Multiplier] : out = Reranked(q, labels)
  <1>1. Shape /\ EvidenceInv
    BY DEF SwarmInv
  <1>2. setting' = setting
    BY DEF Next, Work, GraphStep, Submitted, Collect, CollectNothing, PipelineRaises, InvokeGraph,
           GraphUnavailable, Validate, SubmitResults, ObserverAgent, TopologicalDiagnoser, RcaAnalyst,
           DrillFinal, DrillDown, DrillGivenUp, SingleShot, GuardrailActuator, GraphCrashes, Goto,
           vars
  <1>3. CASE InvokeGraph \/ GraphUnavailable
    BY <1>2, <1>3, FreshEffect DEF FreshState
  <1>4. CASE ObserverAgent
    <2>1. state'.suspects = state.suspects
      BY <1>1, <1>4, ObserverEffect
    <2>2. node = "observer_agent"
      BY <1>4 DEF ObserverAgent
    <2>3. QED
      BY <1>1, <1>2, <2>1, <2>2 DEF EvidenceInv, BeforeAnalyst
  <1>5. CASE TopologicalDiagnoser
    <2>1. PICK e \in Triplets : \E q \in Nominations(Scored(e)) :
              IF setting.rerank /\ task # "detection"
              THEN \E labels \in [DOMAIN q -> DOMAIN Multiplier] :
                      state' = [state EXCEPT !.suspects = NamesOf(Reranked(q, labels))]
              ELSE state' = [state EXCEPT !.suspects = NamesOf(q)]
      BY <1>5 DEF TopologicalDiagnoser
    <2>2. PICK q \in Nominations(Scored(e)) :
              IF setting.rerank /\ task # "detection"
              THEN \E labels \in [DOMAIN q -> DOMAIN Multiplier] :
                      state' = [state EXCEPT !.suspects = NamesOf(Reranked(q, labels))]
              ELSE state' = [state EXCEPT !.suspects = NamesOf(q)]
      BY <2>1
    <2>3. PICK out :
              /\ state' = [state EXCEPT !.suspects = NamesOf(out)]
              /\ \/ out = q
                 \/ /\ setting.rerank
                    /\ \E labels \in [DOMAIN q -> DOMAIN Multiplier] : out = Reranked(q, labels)
      BY <2>2
    <2>4. state'.suspects = NamesOf(out) /\ board' = board
      BY <1>1, <1>5, <2>3 DEF Shape, TopologicalDiagnoser
    <2>5. CASE e = board.evidence
      BY <1>2, <2>3, <2>4, <2>5
    <2>6. CASE e = NoEvidence
      <3>1. NamesOf(out) = <<>>
        <4>1. e.signals = {}
          BY <2>6 DEF NoEvidence
        <4>2. QED
          BY <2>3, <4>1, NobodyWithoutSignals
      <3>2. QED
        BY <1>2, <2>4, <3>1
    <2>7. QED
      BY <2>5, <2>6 DEF Triplets
  <1>6. CASE DrillFinal \/ SingleShot
    BY <1>1, <1>2, <1>6, AnalystEffect
  <1>7. CASE GuardrailActuator
    BY <1>1, <1>2, <1>7, ActuatorEffect, SwarmAssumption
  <1>8. CASE Elsewhere
    BY <1>2, <1>8, ElsewhereEffect
  <1>9. CASE UNCHANGED vars
    BY <1>2, <1>9 DEF vars, graphVars
  <1>10. QED
    BY <1>3, <1>4, <1>5, <1>6, <1>7, <1>8, <1>9, NextCases

\* The first suspect has a signal of its own on the board, whatever labels the model
\* gave: the scores of those without are 0, and no multiplier makes more of it.
THEOREM FirstSuspectHasSignal == Spec => []FirstSuspectIsAnomalous
  <1>1. Init => FirstSuspectIsAnomalous
    BY DEF Init, FreshState, FirstSuspectIsAnomalous
  <1>2. TypeInv /\ SwarmInv /\ FirstSuspectIsAnomalous /\ [Next]_vars => FirstSuspectIsAnomalous'
    <2>1. SUFFICES ASSUME TypeInv, SwarmInv, FirstSuspectIsAnomalous, [Next]_vars,
                          state'.suspects # <<>>
                   PROVE  state'.suspects[1] \in Flagged(board'.evidence.signals)
      BY DEF FirstSuspectIsAnomalous
    <2>2. CASE state'.suspects = state.suspects /\ board'.evidence = board.evidence
      BY <2>1, <2>2 DEF FirstSuspectIsAnomalous
    <2>3. ASSUME NEW q \in Nominations(Scored(board.evidence)), NEW out,
                 state'.suspects = NamesOf(out), board'.evidence = board.evidence,
                 \/ out = q
                 \/ \E labels \in [DOMAIN q -> DOMAIN Multiplier] : out = Reranked(q, labels)
          PROVE  state'.suspects[1] \in Flagged(board'.evidence.signals)
      <3>1. board.evidence \in Evidence /\ NamesOf(out) # <<>>
        BY <2>1, <2>3 DEF TypeInv, TypeOK, Board
      <3>2. NamesOf(out)[1] \in Flagged(board.evidence.signals)
        BY <2>3, <3>1, FirstIsFlagged, DiagnosisAssumption, ServicesHaveNames
      <3>3. QED
        BY <2>3, <3>2
    <2>4. QED
      BY <2>1, <2>2, <2>3, RankingEffect
  <1>3. QED
    BY <1>1, <1>2, SwarmInvariant, TypesAreInvariant, PTL DEF Spec

\* The order of two suspects, by what the board shows of them.
Behind(e, suspects) ==
    \A i, j \in DOMAIN suspects :
        /\ <<suspects[i], suspects[j]>> \in e.calls
        /\ suspects[j] \in Flagged(e.signals) /\ ~CallsAnomalous(e, suspects[j])
        /\ Role[suspects[i]] = Role[suspects[j]] /\ Shown(e, suspects[i]) = Shown(e, suspects[j])
        => j < i

\* Of two services of one role with the same signals, the one that calls the other is
\* ranked behind it, unless that one calls an anomalous service as well: the factor of
\* a caller is all that tells their scores apart.
THEOREM CalleesComeFirst == Spec => []CalleeBeforeCaller
  <1>1. CalleeBeforeCaller <=> (~setting.rerank => Behind(board.evidence, state.suspects))
    BY DEF CalleeBeforeCaller, Behind, Shown
  <1>2. Init => CalleeBeforeCaller
    <2>1. Init => state.suspects = <<>>
      BY DEF Init, FreshState
    <2>2. QED
      BY <1>1, <2>1 DEF Behind
  <1>3. TypeInv /\ SwarmInv /\ CalleeBeforeCaller /\ [Next]_vars => CalleeBeforeCaller'
    <2>1. SUFFICES ASSUME TypeInv, SwarmInv, CalleeBeforeCaller, [Next]_vars, ~setting.rerank
                   PROVE  Behind(board'.evidence, state'.suspects)
      <3>1. CalleeBeforeCaller' <=> (~setting'.rerank => Behind(board'.evidence, state'.suspects))
        BY DEF CalleeBeforeCaller, Behind, Shown
      <3>2. QED
        BY <3>1, RankingEffect
    <2>2. CASE state'.suspects = state.suspects /\ board'.evidence = board.evidence
      BY <1>1, <2>1, <2>2
    <2>3. CASE state'.suspects = <<>>
      BY <2>3 DEF Behind
    <2>4. ASSUME NEW q \in Nominations(Scored(board.evidence)),
                 state'.suspects = NamesOf(q), board'.evidence = board.evidence
          PROVE  Behind(board'.evidence, state'.suspects)
      <3>1. board.evidence \in Evidence
        BY <2>1 DEF TypeInv, TypeOK, Board
      <3>2. DOMAIN state'.suspects = DOMAIN q /\ \A i \in DOMAIN q : state'.suspects[i] = q[i].name
        BY <2>4 DEF NamesOf
      <3>3. \A i, j \in DOMAIN q :
                /\ <<q[i].name, q[j].name>> \in board.evidence.calls
                /\ q[j].name \in Flagged(board.evidence.signals)
                /\ ~CallsAnomalous(board.evidence, q[j].name)
                /\ Role[q[i].name] = Role[q[j].name]
                /\ Shown(board.evidence, q[i].name) = Shown(board.evidence, q[j].name)
                => j < i
        BY <3>1, CallerIsBehind, DiagnosisAssumption, ServicesHaveNames
      <3>4. QED
        BY <2>4, <3>2, <3>3 DEF Behind
    <2>5. QED
      BY <2>1, <2>2, <2>3, <2>4, RankingEffect
  <1>4. QED
    BY <1>2, <1>3, SwarmInvariant, TypesAreInvariant, PTL DEF Spec
\* Telemetry without a fault gives no signal, whichever of its parsers fail.
LEMMA NoFaultIsQuiet ==
    ASSUME ObserverAssumption, NEW t, Collectable(t), NoFault(t), NEW sources \in SUBSET Telemetry
    PROVE  Parsed(t, Found(t), sources).signals = {}
  <1> DEFINE found == Found(t)
  <1>1. /\ t["traces"] \in SUBSET Span /\ IsFiniteSet(t["traces"])
        /\ t["pods"] \in SUBSET Pod
        /\ t["metrics"] \in SUBSET Series /\ IsFiniteSet(t["metrics"])
    BY DEF Collectable, Typed, Telemetry
  <1>2. found["traces"] = {}
    <2>1. /\ \A x \in t["traces"] : ~x.error
          /\ \A x, y \in t["traces"] : x.duration < 2 * y.duration
      BY <1>1 DEF NoFault
    <2>2. Latencies(t["traces"]) = {}
      BY <1>1, <2>1, NoneIsSlow
    <2>3. Counted("HTTP_ERROR", [x \in {y \in t["traces"] : y.error} |-> SpanOwner(x)]) = {}
      <3>1. {y \in t["traces"] : y.error} = {}
        BY <2>1
      <3>2. QED
        BY <3>1, NothingCounted
    <2>4. QED
      BY <2>2, <2>3 DEF Found, ParseTraces
  <1>3. found["pods"] = {}
    <2>1. \A y \in t["pods"] : ~BadPod(y)
      <3> TAKE y \in t["pods"]
      <3>1. y.status = "healthy" /\ y.up > 0 /\ y.restarts < RestartActiveFloor
        BY DEF NoFault
      <3>2. y.up \in Nat /\ y.restarts \in Nat
        BY <1>1 DEF Pod
      <3>3. QED
        BY <3>1, <3>2 DEF BadPod, RestartActiveFloor
    <2>2. {y \in t["pods"] : BadPod(y) /\ y.service \notin Infra} = {}
      BY <2>1
    <2>3. QED
      BY <2>2, NothingCounted DEF Found, ParseKubectl
  <1>4. found["metrics"] = {}
    <2>1. \A x, y \in t["metrics"] : \A i \in DOMAIN x.values, j \in DOMAIN y.values :
              x.metric = y.metric => x.values[i] < 2 * y.values[j]
      BY DEF NoFault
    <2>2. \A x \in t["metrics"] : \A i, j \in DOMAIN x.values : x.values[i] = x.values[j]
      BY DEF NoFault
    <2>3. CrossSectionalOutliers(t["metrics"]) = {} /\ TemporalOutliers(t["metrics"]) = {}
      BY <1>1, <2>1, <2>2, NoneIsOutlying, NoneHasShifted
    <2>4. QED
      BY <2>3 DEF Found, ParseMetrics
  <1>5. found["logs"] = {}
    <2> DEFINE lines == t["logs"]
               read == {x \in lines : LineOwner(x) \notin Infra}
    <2>1. \A x \in lines : x.words = {} /\ x.refused = Nobody
      BY DEF NoFault
    <2>2. /\ \A word : {x \in read : word \in x.words} = {}
          /\ {y \in {x \in read : x.refused # Nobody} : Callee(y) \notin Infra} = {}
      BY <2>1
    <2>3. ParseLogs(lines) = {}
      BY <2>2, NothingCounted DEF ParseLogs
    <2>4. QED
      BY <2>3 DEF Found
  <1>6. \A source \in Telemetry : found[source] = {}
    BY <1>2, <1>3, <1>4, <1>5 DEF Telemetry
  <1> HIDE DEF found
  <1>7. UNION {found[source] : source \in sources} = {}
    BY <1>6
  <1>8. QED
    BY <1>7 DEF Parsed, found

\* Without a fault no signal is found, no report raises an alert but that of the cluster,
\* and what is reported without the graph holds no submission.
QuietInv ==
    /\ phase = "collect" => report = NoReport /\ state.observed.signals = {}
    /\ report.origin = "cluster" => seen = NoTelemetry
    /\ NoFault(seen) => state.observed.signals = {}
    /\ NoFault(seen) => report.origin = "cluster" \/ ~report.alert
    /\ report.origin # "graph" \/ phase = "graph" => report.submission.form = "nothing"
    /\ NoFaultIsNo

\* The report made without the graph.
Bare(origin) == [origin |-> origin, alert |-> FALSE, root |-> Unknown, submission |-> Nothing]

\* Those the agent makes are such.
LEMMA BareReports ==
    /\ NoReport = Bare("nobody") /\ CrashReport = Bare("crash") /\ DefaultReport = Bare("default")
    /\ [NoReport EXCEPT !.origin = "graph"] = Bare("graph")
    /\ [CrashReport EXCEPT !.origin = "unavailable"] = Bare("unavailable")
  <1>1. NoReport = Bare("nobody")
    BY DEF NoReport, Bare
  <1>2. \A a, b : [Bare(a) EXCEPT !.origin = b] = Bare(b)
    <2>1. \A f, u, n, a, b :
              [[origin |-> a, alert |-> f, root |-> u, submission |-> n] EXCEPT !.origin = b]
              = [origin |-> b, alert |-> f, root |-> u, submission |-> n]
      OBVIOUS
    <2>2. QED
      BY <2>1, Zenon DEF Bare
  <1>3. /\ CrashReport = Bare("crash") /\ DefaultReport = Bare("default")
        /\ [NoReport EXCEPT !.origin = "graph"] = Bare("graph")
    BY <1>1, <1>2 DEF CrashReport, DefaultReport
  <1>4. [CrashReport EXCEPT !.origin = "unavailable"] = Bare("unavailable")
    BY <1>2, <1>3
  <1>5. QED
    BY <1>1, <1>3, <1>4

\* The answer to an attempt that found nothing is No.
LEMMA QuietAnswer ==
    ASSUME SwarmInv, QuietInv, SubmitResults, task = "detection", report.origin # "default",
           NoFault(seen), seen # NoTelemetry
    PROVE  answer'.form = "No"
  <1>1. phase = "submit" /\ report.origin # "cluster" /\ ~report.alert
    BY DEF SubmitResults, QuietInv
  <1>2. CASE report.origin = "graph"
    <2>1. state.anomaly = FALSE
      <3>1. state.observed.signals = {} /\ state.anomaly = Anomalous(state.observed.signals)
        BY DEF QuietInv, SwarmInv, EvidenceInv
      <3>2. QED
        BY <3>1, FreshIsQuiet
    <2>2. Founded(report.submission)
      BY <1>1, <1>2 DEF SwarmInv, ReportInv
    <2>3. report.submission = Plain("No")
      BY <2>1, <2>2 DEF Founded
    <2>4. report.submission.form = "No"
      BY <2>3 DEF Plain
    <2>5. answer' = report.submission
      BY <1>2, <2>4 DEF SubmitResults
    <2>6. QED
      BY <2>4, <2>5
  <1>3. CASE report.origin # "graph"
    <2>1. report.submission.form = "nothing"
      BY <1>3 DEF QuietInv
    <2>2. answer' = ReportAnswer
      BY <2>1 DEF SubmitResults
    <2>3. ReportAnswer = Plain("No")
      BY <1>1 DEF ReportAnswer
    <2>4. QED
      BY <2>2, <2>3 DEF Plain
  <1>4. QED
    BY <1>2, <1>3

\* It is kept by every step.
LEMMA QuietKept ==
    ASSUME ObserverAssumption, SwarmAssumption, TypeInv, SwarmInv, QuietInv, [Next]_vars
    PROVE  QuietInv'
  <1>1. Shape /\ PlaceInv /\ EvidenceInv /\ Collectable(seen) /\ (node # "END" => phase = "graph")
    BY DEF SwarmInv, TypeInv
  <1>2. seen' = seen => (NoFault(seen)' <=> NoFault(seen))
    BY DEF NoFault
  <1>3. CASE Collect
    <2>1. /\ phase = "collect" /\ phase' = "start" /\ UNCHANGED <<state, report>>
      BY <1>3 DEF Collect, graphVars
    <2>2. report = Bare("nobody") /\ state.observed.signals = {}
      BY <2>1, BareReports DEF QuietInv
    <2>3. /\ report.origin = "nobody" /\ report.alert = FALSE
          /\ report.submission.form = "nothing"
      BY <2>2 DEF Bare, Nothing, Plain
    <2>4. QED
      BY <2>1, <2>2, <2>3 DEF QuietInv, NoFaultIsNo
  <1>4. CASE CollectNothing
    <2>1. /\ phase = "collect" /\ phase' = "submit" /\ seen' = NoTelemetry /\ state' = state
      BY <1>4 DEF CollectNothing, graphVars
    <2>2. report'.origin = "cluster" /\ report'.submission.form = "nothing"
      <3>1. PICK primary, unhealthy :
                report' = [NoReport EXCEPT !.origin = "cluster", !.root = primary,
                                           !.alert = primary # Unknown \/ unhealthy]
        BY <1>4, Zenon DEF CollectNothing
      <3>2. report' = [origin |-> "cluster", alert |-> primary # Unknown \/ unhealthy,
                       root |-> primary, submission |-> Nothing]
        BY <3>1, Zenon DEF NoReport
      <3>3. report'.origin = "cluster" /\ report'.submission = Nothing
        BY <3>2, Zenon
      <3>4. Nothing.form = "nothing"
        BY DEF Nothing, Plain
      <3>5. QED
        BY <3>3, <3>4
    <2>3. state.observed.signals = {}
      BY <2>1 DEF QuietInv
    <2>4. QED
      BY <2>1, <2>2, <2>3 DEF QuietInv, NoFaultIsNo
  <1>5. CASE InvokeGraph \/ GraphUnavailable
    <2>1. /\ phase' \in {"graph", "validate", "submit"} /\ seen' = seen /\ state' = FreshState
          /\ report' \in {Bare("graph"), Bare("unavailable")}
          /\ report'.origin = "graph" => phase' = "graph"
      <3>1. CASE InvokeGraph
        BY <3>1, BareReports DEF InvokeGraph
      <3>2. CASE GraphUnavailable
        BY <3>2, BareReports DEF GraphUnavailable, AfterGraph, Bare
      <3>3. QED
        BY <1>5, <3>1, <3>2
    <2>2. /\ report'.origin \in {"graph", "unavailable"} /\ report'.alert = FALSE
          /\ report'.submission.form = "nothing"
      BY <2>1 DEF Bare, Nothing, Plain
    <2>3. state'.observed.signals = {}
      BY <2>1 DEF FreshState, NoEvidence
    <2>4. QED
      BY <2>1, <2>2, <2>3 DEF QuietInv, NoFaultIsNo
  <1>6. CASE PipelineRaises
    <2>1. /\ phase' = "submit" /\ seen' = seen /\ state' = state /\ report' = Bare("default")
      BY <1>6, BareReports DEF PipelineRaises, graphVars
    <2>2. /\ report'.origin = "default" /\ report'.alert = FALSE
          /\ report'.submission.form = "nothing"
      BY <2>1 DEF Bare, Nothing, Plain
    <2>3. QED
      BY <1>2, <2>1, <2>2 DEF QuietInv, NoFaultIsNo
  <1>7. CASE ObserverAgent
    <2>1. PICK sources \in SUBSET Telemetry :
              state' = [state EXCEPT !.observed = Parsed(seen, Found(seen), sources),
                                     !.anomaly = Anomalous(Parsed(seen, Found(seen), sources).signals)]
      BY <1>7 DEF ObserverAgent
    <2>2. state'.observed = Parsed(seen, Found(seen), sources)
      BY <1>1, <2>1 DEF Shape
    <2>3. NoFault(seen) => state'.observed.signals = {}
      BY <1>1, <2>2, NoFaultIsQuiet
    <2>4. phase = "graph" /\ phase' = "graph" /\ report' = report /\ seen' = seen
      BY <1>1, <1>7 DEF ObserverAgent, Goto
    <2>5. QED
      BY <1>2, <2>3, <2>4 DEF QuietInv, NoFaultIsNo
  <1>8. CASE TopologicalDiagnoser \/ DrillFinal \/ SingleShot \/ RcaAnalyst \/ DrillDown \/ DrillGivenUp
    <2>1. phase = "graph" /\ phase' = "graph" /\ report' = report /\ seen' = seen
      BY <1>1, <1>8 DEF TopologicalDiagnoser, DrillFinal, DrillNext, SingleShot, RcaAnalyst,
                        DrillDown, DrillGivenUp, Goto
    <2>2. state'.observed = state.observed
      <3>1. CASE TopologicalDiagnoser
        BY <1>1, <3>1, DiagnoserEffect
      <3>2. CASE DrillFinal \/ SingleShot
        BY <1>1, <3>2, AnalystEffect
      <3>3. CASE RcaAnalyst \/ DrillDown \/ DrillGivenUp
        BY <3>3 DEF RcaAnalyst, DrillDown, DrillGivenUp
      <3>4. QED
        BY <1>8, <3>1, <3>2, <3>3
    <2>3. QED
      BY <1>2, <2>1, <2>2 DEF QuietInv, NoFaultIsNo
  <1>9. CASE GuardrailActuator
    <2>1. state'.observed = state.observed /\ state'.anomaly = state.anomaly
      BY <1>1, <1>9, ActuatorEffect, SwarmAssumption
    <2>2. /\ phase' \in {"validate", "submit"} /\ seen' = seen
          /\ report'.origin = "graph" /\ report'.alert = state'.anomaly
      BY <1>9 DEF GuardrailActuator, Goto, AfterGraph
    <2>3. NoFault(seen) => state.anomaly = FALSE
      BY <1>1, FreshIsQuiet DEF QuietInv, EvidenceInv
    <2>4. QED
      BY <1>2, <2>1, <2>2, <2>3 DEF QuietInv, NoFaultIsNo
  <1>10. CASE GraphCrashes
    <2>1. /\ phase' \in {"validate", "submit"} /\ seen' = seen /\ state' = state
          /\ report' = Bare("crash")
      BY <1>10, BareReports DEF GraphCrashes, AfterGraph
    <2>2. /\ report'.origin = "crash" /\ report'.alert = FALSE
          /\ report'.submission.form = "nothing"
      BY <2>1 DEF Bare, Nothing, Plain
    <2>3. QED
      BY <1>2, <2>1, <2>2 DEF QuietInv, NoFaultIsNo
  <1>11. CASE Validate
    <2>1. /\ phase = "validate" /\ phase' \in {"start", "submit"}
          /\ UNCHANGED <<seen, state, report>>
      BY <1>11 DEF Validate, AfterValidation, graphVars
    <2>2. QED
      BY <1>2, <2>1 DEF QuietInv, NoFaultIsNo
  <1>12. CASE SubmitResults
    <2>1. /\ phase = "submit" /\ phase' = "done" /\ UNCHANGED <<task, seen, state, report>>
      BY <1>12 DEF SubmitResults, graphVars
    <2>2. NoFaultIsNo'
      BY <1>2, <1>12, <2>1, QuietAnswer DEF NoFaultIsNo
    <2>3. QED
      BY <1>2, <2>1, <2>2 DEF QuietInv
  <1>13. CASE UNCHANGED vars
    BY <1>2, <1>13 DEF QuietInv, NoFaultIsNo, vars, graphVars
  <1>14. QED
    BY <1>3, <1>4, <1>5, <1>6, <1>7, <1>8, <1>9, <1>10, <1>11, <1>12, <1>13, NextCases DEF Elsewhere

\* Telemetry without an error, a refusal or a change is answered No, however far apart
\* its services are short of twice the usual, whatever the store and the model do, in
\* the graph and where it cannot run.
THEOREM QuietIsAnsweredNo == Spec => []NoFaultIsNo
  <1>1. Init => QuietInv
    <2>1. SUFFICES ASSUME Init PROVE QuietInv
      OBVIOUS
    <2>2. phase = "collect" /\ report = NoReport /\ state = FreshState
      BY <2>1 DEF Init
    <2>3. /\ report.origin = "nobody" /\ report.alert = FALSE
          /\ report.submission.form = "nothing" /\ state.observed.signals = {}
      BY <2>2 DEF NoReport, Nothing, Plain, FreshState, NoEvidence
    <2>4. QED
      BY <2>2, <2>3 DEF QuietInv, NoFaultIsNo
  <1>2. TypeInv /\ SwarmInv /\ QuietInv /\ [Next]_vars => QuietInv'
    BY QuietKept, ObserverAssumption, SwarmAssumption
  <1>3. QuietInv => NoFaultIsNo
    BY DEF QuietInv
  <1>4. QED
    BY <1>1, <1>2, <1>3, SwarmInvariant, TypesAreInvariant, PTL DEF Spec
===============================================================================
