------------------------------ MODULE AgentBridge ------------------------------
(***************************************************************************)
(* The rendezvous between the AIOpsLab orchestrator (the main thread, in   *)
(* get_action and finalize) and the daemon thread of GraphRCAAgent or      *)
(* SwarmGraphRCAAgent (in _run and in the generator _communicator).        *)
(*                                                                         *)
(* The two threads share two semaphores, two message slots and an event.   *)
(* Every access to one of them is a step of its own.  An observation is    *)
(* the number of the get_action call that brought it; a command carries    *)
(* the observation its sender last received.                               *)
(***************************************************************************)
EXTENDS Naturals, Sequences

CONSTANTS
    MaxSteps,      \* start_problem(max_steps)
    QueryBudget,   \* the most telemetry queries one episode sends
    EnvOutcomes    \* what the environment may answer to a submission

ASSUME BridgeAssumption ==
    /\ MaxSteps \in Nat
    /\ QueryBudget \in Nat
    /\ EnvOutcomes \subseteq {"accepted", "rejected", "raised"}

VARIABLES
    prompt_semaphore, command_semaphore,
    prompt_message, command_message,
    stop_event,
    generator,   \* where the body of _communicator stands
    thread,      \* where _run stands
    response,    \* what the last generator.send returned
    queries,     \* how many queries _run has sent
    main,        \* where the orchestrator's thread stands
    steps,       \* how many get_action calls it has made
    returned     \* the commands get_action has returned, in order

shared == <<prompt_semaphore, command_semaphore, prompt_message,
            command_message, stop_event>>
agentVars == <<generator, thread, response, queries>>
mainVars == <<main, steps, returned>>
vars == <<shared, agentVars, mainVars>>

\* "The evaluation has already been completed.", or no text yet: no observation.
Completed == 0

GeneratorStates == {"new", "check", "acquire", "acquired", "yielded", "resumed", "closed"}
InSend == {"priming", "querying", "submitting"}
ThreadStates == InSend \cup {"created", "prime", "working", "submitted", "ended"}
MainStates == {"create", "idle", "posted", "waiting", "resumed", "env",
               "finalize", "joining", "done", "raised"}

Command == [basis : Nat, kind : {"query", "submit"}]
NoCommand == [basis |-> 0, kind |-> "query"]

Init == /\ prompt_semaphore = 0
        /\ command_semaphore = 0
        /\ prompt_message = 0
        /\ command_message = NoCommand
        /\ stop_event = FALSE
        /\ generator = "new"
        /\ thread = "created"
        /\ response = Completed
        /\ queries = 0
        /\ main = "create"
        /\ steps = 0
        /\ returned = <<>>
-------------------------------------------------------------------------------
(* The agent thread, inside the generator.                                 *)

\* Mutated: _run goes on after the submission.
SendReturnsToWork(v) ==
    /\ response' = v
    /\ thread' = "working"

\* generator.send(...) comes back to _run with the value v.
SendReturns(v) ==
    /\ response' = v
    /\ thread' = IF thread = "submitting" THEN "submitted" ELSE "working"

\* Mutated: the loop waits for a prompt whatever the event says.
CheckStopIgnoresEvent ==
    /\ thread \in InSend
    /\ generator = "check"
    /\ generator' = "acquire"
    /\ UNCHANGED <<shared, response, thread, queries, mainVars>>

\* The head of the acquire loop.  A stopped generator yields the completed text for ever.
CheckStop ==
    /\ thread \in InSend
    /\ generator = "check"
    /\ \/ /\ stop_event
          /\ generator' = "closed"
          /\ SendReturns(Completed)
       \/ /\ ~stop_event
          /\ generator' = "acquire"
          /\ UNCHANGED <<response, thread>>
    /\ UNCHANGED <<shared, queries, mainVars>>

\* Mutated: the prompt is looked at, its permit left in place.
AcquirePromptKeepsPermit ==
    /\ thread \in InSend
    /\ generator = "acquire"
    /\ prompt_semaphore > 0
    /\ generator' = "acquired"
    /\ UNCHANGED <<shared, response, thread, queries, mainVars>>

\* Mutated: a permit is taken whether there is one or not.
AcquirePromptUnchecked ==
    /\ thread \in InSend
    /\ generator = "acquire"
    /\ prompt_semaphore' = prompt_semaphore - 1
    /\ generator' = "acquired"
    /\ UNCHANGED <<command_semaphore, prompt_message, command_message, stop_event,
                   response, thread, queries, mainVars>>

\* prompt_semaphore.acquire(timeout=3) succeeds.
AcquirePrompt ==
    /\ thread \in InSend
    /\ generator = "acquire"
    /\ prompt_semaphore > 0
    /\ prompt_semaphore' = prompt_semaphore - 1
    /\ generator' = "acquired"
    /\ UNCHANGED <<command_semaphore, prompt_message, command_message, stop_event,
                   response, thread, queries, mainVars>>

\* Mutated: a timeout is taken for a prompt.
TimeoutTakenForPrompt ==
    /\ thread \in InSend
    /\ generator = "acquire"
    /\ prompt_semaphore = 0
    /\ generator' = "acquired"
    /\ UNCHANGED <<shared, response, thread, queries, mainVars>>

\* It times out: back to the head of the loop.
PromptTimeout ==
    /\ thread \in InSend
    /\ generator = "acquire"
    /\ prompt_semaphore = 0
    /\ generator' = "check"
    /\ UNCHANGED <<shared, response, thread, queries, mainVars>>

YieldPrompt ==
    /\ thread \in InSend
    /\ generator = "acquired"
    /\ generator' = "yielded"
    /\ SendReturns(prompt_message)
    /\ UNCHANGED <<shared, queries, mainVars>>

\* Mutated: the command is stored but never signalled.
ReleaseCommandForgotten ==
    /\ thread \in InSend
    /\ generator = "resumed"
    /\ generator' = "check"
    /\ UNCHANGED <<shared, response, thread, queries, mainVars>>

ReleaseCommand ==
    /\ thread \in InSend
    /\ generator = "resumed"
    /\ command_semaphore' = command_semaphore + 1
    /\ generator' = "check"
    /\ UNCHANGED <<prompt_semaphore, prompt_message, command_message, stop_event,
                   response, thread, queries, mainVars>>
-------------------------------------------------------------------------------
(* The agent thread, in _run.                                              *)

\* generator.send(None): the body of the generator starts.
Prime ==
    /\ thread = "prime"
    /\ thread' = "priming"
    /\ generator' = "check"
    /\ UNCHANGED <<shared, response, queries, mainVars>>

\* self.send(message): a suspended generator takes the message, a closed one ignores it.
Send(kind) ==
    /\ thread = "working"
    /\ \/ /\ generator = "yielded"
          /\ command_message' = [basis |-> response, kind |-> kind]
          /\ generator' = "resumed"
          /\ thread' = IF kind = "submit" THEN "submitting" ELSE "querying"
          /\ UNCHANGED response
       \/ /\ generator = "closed"
          /\ response' = Completed
          /\ thread' = IF kind = "submit" THEN "submitted" ELSE "working"
          /\ UNCHANGED <<command_message, generator>>
    /\ UNCHANGED <<prompt_semaphore, command_semaphore, prompt_message, stop_event, mainVars>>

\* get_traces, read_traces; the swarm also get_metrics and get_logs.
Query ==
    /\ queries < QueryBudget
    /\ queries' = queries + 1
    /\ Send("query")

\* _submit_results looks at stop_event first; _submit_default does not.
SubmitResults ==
    /\ ~stop_event
    /\ Send("submit")
    /\ UNCHANGED queries

SubmitDefault ==
    /\ Send("submit")
    /\ UNCHANGED queries

\* Mutated: _run gives up without a submission.
SkipSubmitAlways ==
    /\ thread = "working"
    /\ thread' = "ended"
    /\ UNCHANGED <<shared, generator, response, queries, mainVars>>

SkipSubmit ==
    /\ thread = "working"
    /\ stop_event
    /\ thread' = "ended"
    /\ UNCHANGED <<shared, generator, response, queries, mainVars>>

\* The last statement of either submit method; _run returns.
SetStop ==
    /\ thread = "submitted"
    /\ stop_event' = TRUE
    /\ thread' = "ended"
    /\ UNCHANGED <<prompt_semaphore, command_semaphore, prompt_message, command_message,
                   generator, response, queries, mainVars>>

ThreadStep == \/ CheckStop \/ AcquirePrompt \/ PromptTimeout \/ YieldPrompt \/ ReleaseCommand
              \/ Prime \/ Query \/ SubmitResults \/ SubmitDefault \/ SkipSubmit \/ SetStop
-------------------------------------------------------------------------------
(* The orchestrator's thread.                                              *)

\* agent.run()
Run ==
    /\ main = "create"
    /\ main' = "idle"
    /\ thread' = "prime"
    /\ UNCHANGED <<shared, generator, response, queries, steps, returned>>

\* Mutated: the prompt is signalled without the observation.
PostOldObservation ==
    /\ main = "idle"
    /\ steps < MaxSteps
    /\ steps' = steps + 1
    /\ main' = "posted"
    /\ UNCHANGED <<shared, agentVars, returned>>

PostObservation ==
    /\ main = "idle"
    /\ steps < MaxSteps
    /\ steps' = steps + 1
    /\ prompt_message' = steps + 1
    /\ main' = "posted"
    /\ UNCHANGED <<prompt_semaphore, command_semaphore, command_message, stop_event,
                   agentVars, returned>>

ReleasePrompt ==
    /\ main = "posted"
    /\ prompt_semaphore' = prompt_semaphore + 1
    /\ main' = "waiting"
    /\ UNCHANGED <<command_semaphore, prompt_message, command_message, stop_event,
                   agentVars, steps, returned>>

\* Mutated: acquire with a timeout whose result is not looked at.
AcquireCommandTimesOut ==
    /\ main = "waiting"
    /\ command_semaphore' = IF command_semaphore > 0 THEN command_semaphore - 1 ELSE 0
    /\ main' = "resumed"
    /\ UNCHANGED <<prompt_semaphore, prompt_message, command_message, stop_event,
                   agentVars, steps, returned>>

\* command_semaphore.acquire() has no timeout.
AcquireCommand ==
    /\ main = "waiting"
    /\ command_semaphore > 0
    /\ command_semaphore' = command_semaphore - 1
    /\ main' = "resumed"
    /\ UNCHANGED <<prompt_semaphore, prompt_message, command_message, stop_event,
                   agentVars, steps, returned>>

ReturnCommand ==
    /\ main = "resumed"
    /\ returned' = Append(returned, command_message)
    /\ main' = "env"
    /\ UNCHANGED <<shared, agentVars, steps>>

\* External: a query gets an answer, a submission is accepted, or turned down
\* with an error text as the next observation, or the problem raises.
Environment ==
    /\ main = "env"
    /\ \/ /\ returned[steps].kind = "query"
          /\ main' = "idle"
       \/ /\ returned[steps].kind = "submit"
          /\ \/ "accepted" \in EnvOutcomes /\ main' = "finalize"
             \/ "rejected" \in EnvOutcomes /\ main' = "idle"
             \/ "raised" \in EnvOutcomes /\ main' = "raised"
    /\ UNCHANGED <<shared, agentVars, steps, returned>>

\* start_problem runs out of steps; the driver of run_all_tasks makes none.
EndProblem ==
    /\ main = "idle"
    /\ steps \in {0, MaxSteps}
    /\ main' = "finalize"
    /\ UNCHANGED <<shared, agentVars, steps, returned>>

Finalize ==
    /\ main = "finalize"
    /\ stop_event' = TRUE
    /\ main' = "joining"
    /\ UNCHANGED <<prompt_semaphore, command_semaphore, prompt_message, command_message,
                   agentVars, steps, returned>>

\* agent_thread.join(timeout=10) returns when the thread has ended, or without it.
JoinEnded ==
    /\ main = "joining"
    /\ thread = "ended"
    /\ main' = "done"
    /\ UNCHANGED <<shared, agentVars, steps, returned>>

JoinTimeout ==
    /\ main = "joining"
    /\ thread # "ended"
    /\ main' = "done"
    /\ UNCHANGED <<shared, agentVars, steps, returned>>

MainStep == \/ Run \/ PostObservation \/ ReleasePrompt \/ AcquireCommand \/ ReturnCommand
            \/ Environment \/ EndProblem \/ Finalize \/ JoinEnded \/ JoinTimeout

\* Both threads are through (the daemon thread dies with a process that raised).
Finished ==
    /\ \/ main = "done" /\ thread = "ended"
       \/ main = "raised"
    /\ UNCHANGED vars

Next == ThreadStep \/ MainStep \/ Finished

Spec == Init /\ [][Next]_vars

\* Both threads are scheduled, and the work of _run between two sends ends.
FairSpec == Spec /\ WF_vars(ThreadStep) /\ WF_vars(MainStep)
-------------------------------------------------------------------------------
TypeOK ==
    /\ prompt_semaphore \in Nat
    /\ command_semaphore \in Nat
    /\ prompt_message \in Nat
    /\ command_message \in Command
    /\ stop_event \in BOOLEAN
    /\ generator \in GeneratorStates
    /\ thread \in ThreadStates
    /\ response \in Nat
    /\ queries \in 0..QueryBudget
    /\ main \in MainStates
    /\ steps \in 0..MaxSteps
    /\ returned \in Seq(Command)

\* At most one permit exists at any time: the two semaphores hand one turn
\* back and forth between get_action and the generator, and a permit is never
\* left over for a later call to take at once.
OneTurn == prompt_semaphore + command_semaphore <= 1

\* The k-th command that get_action returns was computed by the agent thread
\* after it had received the k-th observation: no command of an earlier turn,
\* and none the thread computed from the completed text.
AnswersItsObservation ==
    \A k \in DOMAIN returned : returned[k].basis = k

\* When the orchestrator finalizes, no command is on its way to it: a command
\* that _run hands to the generator always finds its get_action waiting.
NoLostCommand ==
    (generator = "resumed" \/ command_semaphore > 0) => main = "waiting"

\* An episode delivers one submission at most, whichever of the two submit
\* methods sends it, and nothing after it: ImplementsExchange says no less.
SubmitIsLast ==
    \A k \in DOMAIN returned : returned[k].kind = "submit" => k = Len(returned)

\* A submission has reached the orchestrator.
Delivered == \E k \in DOMAIN returned : returned[k].kind = "submit"

\* A get_action that waits for a command has a thread that can still send one,
\* unless the environment turned down the submission and asked again.
NoOrphanedCaller == main = "waiting" /\ thread = "ended" => Delivered

\* Until the submission get_action always comes back with a command.
GetActionReturns == main = "posted" /\ ~Delivered ~> main = "env"

\* Once the event is set the agent thread winds up, wherever it stands.
StoppedThreadEnds == stop_event ~> thread = "ended"

\* The threads implement the synchronous exchange: the prompt permit asks, the
\* return of get_action answers.
Abstract == INSTANCE Exchange WITH
    asked <- IF main = "posted" THEN steps - 1 ELSE steps,
    log <- returned

ImplementsExchange == Abstract!Spec
-------------------------------------------------------------------------------
(* Why the rendezvous works.                                               *)

\* A command is between _run and the caller of get_action.
Pending == generator = "resumed" \/ command_semaphore = 1 \/ main = "resumed"

\* The turn is held by exactly one of: a permit, the agent thread, or get_action.
TurnInv ==
    /\ main # "waiting" =>
          /\ prompt_semaphore = 0
          /\ command_semaphore = 0
          /\ generator \in {"new", "check", "acquire", "closed"}
    /\ main = "waiting" =>
          \/ prompt_semaphore = 1 /\ command_semaphore = 0
                /\ generator \in {"new", "check", "acquire"}
          \/ prompt_semaphore = 0 /\ command_semaphore = 0
                /\ generator \in {"acquired", "yielded", "resumed"}
          \/ prompt_semaphore = 0 /\ command_semaphore = 1
                /\ generator \in {"check", "acquire"}

\* The generator runs on the agent thread, so each tells where the other stands.
PlaceInv ==
    /\ main = "create" <=> thread = "created"
    /\ generator = "new" <=> thread \in {"created", "prime"}
    /\ generator \in {"check", "acquire", "acquired", "resumed"} <=> thread \in InSend
    /\ generator = "closed" => main \in {"joining", "done"}
    /\ stop_event => main \in {"joining", "done"} \/ thread = "ended"

\* What the two message slots hold while someone is to read them.
SlotInv ==
    /\ main \in {"posted", "waiting", "resumed"} => steps = Len(returned) + 1
    /\ main \notin {"posted", "waiting", "resumed"} => steps = Len(returned)
    /\ main \in {"posted", "waiting"} => prompt_message = steps
    /\ generator = "yielded" => response = steps
    /\ Pending => command_message.basis = steps

\* A submission on its way, or delivered, is the last thing the thread sends.
SubmitInv ==
    /\ Pending => /\ thread \in {"querying", "submitting"}
                  /\ command_message.kind = "submit" <=> thread = "submitting"
                  /\ ~Delivered
    /\ Delivered => thread \in {"submitting", "submitted", "ended"}
    /\ thread = "submitting" => Pending \/ Delivered
    /\ thread \in {"submitted", "ended"} => Delivered \/ main \in {"joining", "done"}

\* The inductive invariant: the turn, the places and the slots together give
\* every property of the exchange.
BridgeInv ==
    /\ TypeOK
    /\ TurnInv
    /\ PlaceInv
    /\ SlotInv
    /\ SubmitInv
    /\ AnswersItsObservation
    /\ SubmitIsLast
===============================================================================
