------------------------------- MODULE MCRouter -------------------------------
(* V5Router with the values the runs use.                                  *)
EXTENDS V5Router

AllTasks == Tasks
Diagnosis == {"detection", "localization", "analysis"}
Mitigation == {"mitigation"}

\* Every kind of fault, alone and in the pairs that interact.
Environments == {{}, {"slm", "reject"}, {"raise"}, {"read"}, {"slm", "raise"}}
NoFaults == {{}}
ReadFails == {{"read"}}

NoStray == {}
PlanFacts == {"MITIGATION_ACTION"}
===============================================================================
