CONSTANTS
    TaskTypes <- Diagnosis
    FaultSets <- ReadFails
    Stray <- NoStray
    Reentrant = TRUE
    MaxInternalIters = 8
SPECIFICATION Spec
INVARIANTS
    SubmitIsEarned
