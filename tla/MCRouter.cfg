CONSTANTS
    TaskTypes <- AllTasks
    FaultSets <- Environments
    Stray <- PlanFacts
    Reentrant = TRUE
    MaxInternalIters = 8
SPECIFICATION FairSpec
INVARIANTS
    TypeOK
    EvidenceBeforeSubmit
    RollbackNeverAsked
    FetchOrder
    AnomalyFromMetrics
    LocalizationFromTraces
PROPERTIES
    NoWastedFetch
    GuardFailBlocks
    EpisodeEnds
