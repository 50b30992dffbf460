CONSTANTS
    AggregationEnabled = FALSE
    DepGranularity = "per-file"
    MaxLabels = 3
    Workers = {1, 2}
    Files = {f1}
    FileSize = 2
    Requests <- LiveRequests
    MaxChurn = 0
    MaxFailures = 0
SPECIFICATION FairSpec
INVARIANT QuietMeansAnswered
PROPERTY AnsweredOrAbandoned
