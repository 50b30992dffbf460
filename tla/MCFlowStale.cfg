CONSTANTS
    AggregationEnabled = TRUE
    DepGranularity = "per-file"
    MaxLabels = 4
    Workers = {1, 2}
    Files = {f1}
    FileSize = 1
    Requests <- OneByte
    MaxChurn = 0
    MaxFailures = 0
SPECIFICATION HSpec
INVARIANT NoStaleRead
