------------------------------- MODULE MCBridge -------------------------------
(* AgentBridge with the small values the run uses.                         *)
EXTENDS AgentBridge

MCMaxSteps == 5
MCQueryBudget == 5
AnyOutcome == {"accepted", "rejected", "raised"}
===============================================================================
