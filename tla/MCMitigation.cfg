CONSTANTS
    restart = restart
    scale = scale
    Remedies <- MCRemedies
    MaxAlerts = 2
    MaxRetryAttempts = 3
SPECIFICATION FairSpec
INVARIANTS
    TypeOK
    NoRegressionSeen
    RemediesNeedDiagnosis
    SubmitEarned
    ErrorSurvives
PROPERTIES
    MitigationEnds
