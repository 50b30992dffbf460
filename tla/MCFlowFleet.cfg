CONSTANTS
    AggregationEnabled = TRUE
    DepGranularity = "per-file"
    MaxLabels = 2
    Workers = {1, 2}
    Files = {f1}
    FileSize = 2
    Requests <- MixedRequests
    MaxChurn = 2
    MaxFailures = 0
SPECIFICATION Spec
INVARIANTS
    TypeOK
    
    PackPresent
PROPERTIES
    ImplementsService
