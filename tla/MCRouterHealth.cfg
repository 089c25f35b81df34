CONSTANTS
    TaskTypes <- Mitigation
    FaultSets <- NoFaults
    Stray <- NoStray
    Reentrant = TRUE
    MaxInternalIters = 8
SPECIFICATION FairSpec
PROPERTIES
    HealthTextArrives
