CONSTANTS
    restart = restart
    scale = scale
    Remedies <- MCRemedies
    MaxAlerts = 2
    MaxRetryAttempts = 3
SPECIFICATION Spec
INVARIANTS
    RegressionIsRolledBack
