--------------------------- MODULE AgentBridgeProofs ---------------------------
(***************************************************************************)
(* The rendezvous of AgentBridge, for every MaxSteps, QueryBudget and set  *)
(* of environment outcomes: BridgeInv is inductive, it implies the safety  *)
(* properties, and under it every step is a step of Exchange or none.      *)
(***************************************************************************)
EXTENDS AgentBridge, TLAPS

\* The two threads start from a state that satisfies the invariant.
LEMMA InitInv == Init => BridgeInv
  <1> SUFFICES ASSUME Init PROVE BridgeInv
    OBVIOUS
  <1> USE DEF Init
  <1>1. TypeOK
    <2>1. NoCommand \in Command
      BY DEF NoCommand, Command
    <2>2. steps \in 0..MaxSteps /\ queries \in 0..QueryBudget
      BY BridgeAssumption
    <2>3. stop_event \in BOOLEAN
      OBVIOUS
    <2>4. returned \in Seq(Command)
      OBVIOUS
    <2>5. QED
      BY <2>1, <2>2, <2>3, <2>4
         DEF TypeOK, GeneratorStates, ThreadStates, InSend, MainStates, Completed
  <1>2. TurnInv /\ PlaceInv
    BY DEF TurnInv, PlaceInv, InSend
  <1>3. SlotInv /\ SubmitInv
    BY DEF SlotInv, SubmitInv, Pending, Delivered
  <1>4. AnswersItsObservation /\ SubmitIsLast
    BY DEF AnswersItsObservation, SubmitIsLast
  <1>5. QED
    BY <1>1, <1>2, <1>3, <1>4 DEF BridgeInv

\* The steps of the agent thread inside the generator keep the invariant.
LEMMA GeneratorKeepsInv ==
    BridgeInv /\ (CheckStop \/ AcquirePrompt \/ PromptTimeout \/ YieldPrompt \/ ReleaseCommand)
        => BridgeInv'
  <1> SUFFICES ASSUME BridgeInv,
                      CheckStop \/ AcquirePrompt \/ PromptTimeout \/ YieldPrompt \/ ReleaseCommand
               PROVE  BridgeInv'
    OBVIOUS
  <1> USE BridgeAssumption
      DEF BridgeInv, TypeOK, TurnInv, PlaceInv, SlotInv, SubmitInv, Pending, Delivered,
          AnswersItsObservation, SubmitIsLast, GeneratorStates, ThreadStates, InSend, MainStates,
          shared, mainVars
  <1>1. CASE CheckStop
    BY <1>1 DEF CheckStop, SendReturns, Completed
  <1>2. CASE AcquirePrompt
    BY <1>2 DEF AcquirePrompt
  <1>3. CASE PromptTimeout
    BY <1>3 DEF PromptTimeout
  <1>4. CASE YieldPrompt
    BY <1>4 DEF YieldPrompt, SendReturns
  <1>5. CASE ReleaseCommand
    BY <1>5 DEF ReleaseCommand
  <1>6. QED
    BY <1>1, <1>2, <1>3, <1>4, <1>5

\* The steps of _run keep the invariant.
LEMMA RunKeepsInv ==
    BridgeInv /\ (Prime \/ Query \/ SubmitResults \/ SubmitDefault \/ SkipSubmit \/ SetStop)
        => BridgeInv'
  <1> SUFFICES ASSUME BridgeInv,
                      Prime \/ Query \/ SubmitResults \/ SubmitDefault \/ SkipSubmit \/ SetStop
               PROVE  BridgeInv'
    OBVIOUS
  <1> USE BridgeAssumption
      DEF BridgeInv, TypeOK, TurnInv, PlaceInv, SlotInv, SubmitInv, Pending, Delivered,
          AnswersItsObservation, SubmitIsLast, GeneratorStates, ThreadStates, InSend, MainStates,
          shared, mainVars
  <1>1. ASSUME NEW kind \in {"query", "submit"}, Send(kind), queries' \in 0..QueryBudget
        PROVE  BridgeInv'
    <2>1. CASE generator = "yielded"
      <3>1. command_message' \in Command
        BY <1>1, <2>1 DEF Send, Command
      <3>2. QED
        BY <1>1, <2>1, <3>1 DEF Send
    <2>2. CASE generator = "closed"
      BY <1>1, <2>2 DEF Send, Completed
    <2>3. QED
      BY <1>1, <2>1, <2>2 DEF Send
  <1>2. CASE Prime
    BY <1>2 DEF Prime
  <1>3. CASE Query
    <2>1. queries' \in 0..QueryBudget
      BY <1>3 DEF Query
    <2>2. QED
      BY <1>1, <1>3, <2>1 DEF Query
  <1>4. CASE SubmitResults \/ SubmitDefault
    BY <1>1, <1>4 DEF SubmitResults, SubmitDefault
  <1>5. CASE SkipSubmit
    BY <1>5 DEF SkipSubmit
  <1>6. CASE SetStop
    BY <1>6 DEF SetStop
  <1>7. QED
    BY <1>2, <1>3, <1>4, <1>5, <1>6

\* The steps of the orchestrator's thread keep the invariant.
LEMMA MainKeepsInv == BridgeInv /\ MainStep => BridgeInv'
  <1> SUFFICES ASSUME BridgeInv, MainStep
               PROVE  BridgeInv'
    OBVIOUS
  <1> USE BridgeAssumption
      DEF BridgeInv, TypeOK, TurnInv, PlaceInv, SlotInv, SubmitInv, Pending, Delivered,
          AnswersItsObservation, SubmitIsLast, GeneratorStates, ThreadStates, InSend, MainStates,
          shared, agentVars
  <1>1. CASE Run
    BY <1>1 DEF Run
  <1>2. CASE PostObservation
    BY <1>2 DEF PostObservation
  <1>3. CASE ReleasePrompt
    BY <1>3 DEF ReleasePrompt
  <1>4. CASE AcquireCommand
    BY <1>4 DEF AcquireCommand
  <1>5. CASE ReturnCommand
    BY <1>5 DEF ReturnCommand
  <1>6. CASE Environment
    BY <1>6 DEF Environment
  <1>7. CASE EndProblem
    BY <1>7 DEF EndProblem
  <1>8. CASE Finalize
    BY <1>8 DEF Finalize
  <1>9. CASE JoinEnded \/ JoinTimeout
    BY <1>9 DEF JoinEnded, JoinTimeout
  <1>10. QED
    BY <1>1, <1>2, <1>3, <1>4, <1>5, <1>6, <1>7, <1>8, <1>9 DEF MainStep

\* The invariant is about the variables alone.
LEMMA StutterKeepsInv == BridgeInv /\ UNCHANGED vars => BridgeInv'
  BY DEF BridgeInv, TypeOK, TurnInv, PlaceInv, SlotInv, SubmitInv, Pending, Delivered,
         AnswersItsObservation, SubmitIsLast, vars, shared, agentVars, mainVars

\* BridgeInv holds in every reachable state: the two threads hand a single turn
\* back and forth, and the slots hold what the turn's holder is about to read.
THEOREM BridgeInvariant == Spec => []BridgeInv
  <1>1. BridgeInv /\ [Next]_vars => BridgeInv'
    BY GeneratorKeepsInv, RunKeepsInv, MainKeepsInv, StutterKeepsInv
       DEF Next, ThreadStep, Finished
  <1>2. QED
    BY InitInv, <1>1, PTL DEF Spec

\* Every command that get_action returns answers the observation of its own call.
THEOREM ExchangeIsSynchronous == Spec => []AnswersItsObservation
  <1>1. BridgeInv => AnswersItsObservation
    BY DEF BridgeInv
  <1>2. QED
    BY <1>1, BridgeInvariant, PTL

\* An episode delivers one submission at most, and nothing after it.
THEOREM OneSubmission == Spec => []SubmitIsLast
  <1>1. BridgeInv => SubmitIsLast
    BY DEF BridgeInv
  <1>2. QED
    BY <1>1, BridgeInvariant, PTL

\* The state of both threads has its type; steps and queries stay within bounds.
THEOREM BridgeType == Spec => []TypeOK
  <1>1. BridgeInv => TypeOK
    BY DEF BridgeInv
  <1>2. QED
    BY <1>1, BridgeInvariant, PTL

\* There is one permit at most, and it is with one of the two semaphores.
THEOREM TurnIsNeverLost == Spec => []OneTurn
  <1>1. BridgeInv => OneTurn
    BY DEF BridgeInv, TurnInv, TypeOK, OneTurn
  <1>2. QED
    BY <1>1, BridgeInvariant, PTL

\* A command under way has its caller waiting, in whatever state finalize leaves the thread.
THEOREM NoCommandIsLost == Spec => []NoLostCommand
  <1>1. BridgeInv => NoLostCommand
    BY DEF BridgeInv, TurnInv, TypeOK, NoLostCommand
  <1>2. QED
    BY <1>1, BridgeInvariant, PTL

\* Whoever waits for a command has a thread that can still send it, unless the
\* submission was turned down.
THEOREM NoCallerIsOrphaned == Spec => []NoOrphanedCaller
  <1>1. BridgeInv => NoOrphanedCaller
    BY DEF BridgeInv, SubmitInv, NoOrphanedCaller
  <1>2. QED
    BY <1>1, BridgeInvariant, PTL

\* The threads implement the synchronous exchange.
THEOREM BridgeImplementsExchange == Spec => ImplementsExchange
  <1>1. Init => Abstract!Init
    BY DEF Init, Abstract!Init
  <1>2. BridgeInv /\ [Next]_vars => [Abstract!Next]_(Abstract!vars)
    <2> SUFFICES ASSUME BridgeInv, [Next]_vars
                 PROVE  [Abstract!Next]_(Abstract!vars)
      OBVIOUS
    <2> USE DEF Abstract!vars, BridgeInv, TypeOK, SlotInv
    <2>1. CASE ThreadStep
      BY <2>1 DEF ThreadStep, CheckStop, AcquirePrompt, PromptTimeout, YieldPrompt, ReleaseCommand,
                  Prime, Query, Send, SubmitResults, SubmitDefault, SkipSubmit, SetStop, mainVars
    <2>2. CASE ReleasePrompt
      <3>1. Abstract!Ask
        BY <2>2 DEF ReleasePrompt, Abstract!Ask
      <3>2. QED
        BY <3>1 DEF Abstract!Next
    <2>3. CASE ReturnCommand
      <3>1. ~Abstract!HasSubmitted
        BY <2>3 DEF ReturnCommand, SubmitInv, Pending, Delivered, Abstract!HasSubmitted
      <3>2. /\ command_message.kind \in Abstract!Kinds
            /\ command_message = [basis |-> steps, kind |-> command_message.kind]
        BY <2>3 DEF ReturnCommand, Pending, Command, Abstract!Kinds
      <3>3. Abstract!Answer
        BY <2>3, <3>1, <3>2 DEF ReturnCommand, Abstract!Answer
      <3>4. QED
        BY <3>3 DEF Abstract!Next
    <2>4. CASE Run \/ PostObservation \/ AcquireCommand \/ Environment \/ EndProblem
                  \/ Finalize \/ JoinEnded \/ JoinTimeout
      BY <2>4 DEF Run, PostObservation, AcquireCommand, Environment, EndProblem, Finalize,
                  JoinEnded, JoinTimeout
    <2>5. CASE Finished \/ UNCHANGED vars
      BY <2>5 DEF Finished, vars, mainVars
    <2>6. QED
      BY <2>1, <2>2, <2>3, <2>4, <2>5 DEF Next, MainStep
  <1>3. QED
    BY <1>1, <1>2, BridgeInvariant, PTL DEF Spec, ImplementsExchange, Abstract!Spec
===============================================================================
