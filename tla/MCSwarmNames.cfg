CONSTANTS
    timeline = timeline
    home = home
    user = user
    store = store
    ads = ads
    jaeger = jaeger
    Services <- MCServices
    Role <- MCRole
    Canonical <- MCCanonical
    Deployed <- MCDeployed
    Infra <- MCInfra
    Incidents <- MCIncidents
    Replies <- MCReplies
    Settings <- MCSettings
    TopK = 3
    MaxRetryAttempts = 2
    MaxRounds = 3
SPECIFICATION Spec
INVARIANT
    NamesArePreserved
