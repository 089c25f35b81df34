CONSTANTS
    Remedies <- MCRemedies
    MaxAlerts = 4
    MaxDepth = 2
    CausalSpans = 7
    Paths <- MCDirs
    NoPath = "none"
    RecallLimit = 2
    Traces <- MCTraces
    Given <- MCGiven
    Dirs <- MCDirs
    Orders <- MCOrders
    Strategies <- MCStrategies
    Replies <- MCReplies
    MaxQueries = 2
SPECIFICATION FairSpec
PROPERTIES
    EveryWorkerCollected
