CONSTANTS
    AggregationEnabled = TRUE
    DepGranularity = "per-file"
    MaxLabels = 3
    Workers = {1, 2}
    Files = {f1}
    FileSize = 2
    Requests <- ByteRequests
    MaxChurn = 0
    MaxFailures = 1
SPECIFICATION Spec
INVARIANTS
    BlobPresent
    MergedIsWhole
    CatalogTruthful
    LocationBacked
PROPERTIES
    ImplementsService
