CONSTANTS
    TaskTypes <- Diagnosis
    FaultSets <- NoFaults
    Stray <- NoStray
    Reentrant = FALSE
    MaxInternalIters = 8
SPECIFICATION Spec
INVARIANTS
    GetActionReturnsBlock
