------------------------------- MODULE Exchange -------------------------------
(***************************************************************************)
(* What the threaded agent promises to the AIOpsLab orchestrator: a        *)
(* synchronous exchange.  The orchestrator asks (an observation goes in),  *)
(* the agent answers that observation (one command comes out), and nothing *)
(* follows the answer that submits.                                        *)
(***************************************************************************)
EXTENDS Naturals, Sequences

VARIABLES
    asked,   \* how many observations the orchestrator has handed over
    log      \* the commands the orchestrator has received, in order

vars == <<asked, log>>

Kinds == {"query", "submit"}

\* A command is known by the observation it was computed from.
Command == [basis : Nat, kind : Kinds]

HasSubmitted == \E k \in DOMAIN log : log[k].kind = "submit"

Init == /\ asked = 0
        /\ log = <<>>

Ask == /\ asked = Len(log)
       /\ asked' = asked + 1
       /\ UNCHANGED log

Answer == /\ asked = Len(log) + 1
          /\ ~HasSubmitted
          /\ \E kind \in Kinds : log' = Append(log, [basis |-> asked, kind |-> kind])
          /\ UNCHANGED asked

Next == Ask \/ Answer

Spec == Init /\ [][Next]_vars
===============================================================================
