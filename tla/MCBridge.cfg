\* A submission that is turned down leaves get_action waiting for ever.
CHECK_DEADLOCK FALSE
CONSTANTS
    MaxSteps <- MCMaxSteps
    QueryBudget <- MCQueryBudget
    EnvOutcomes <- AnyOutcome
SPECIFICATION FairSpec
INVARIANTS
    TypeOK
    OneTurn
    AnswersItsObservation
    NoLostCommand
    NoOrphanedCaller
PROPERTIES
    GetActionReturns
    StoppedThreadEnds
    ImplementsExchange
