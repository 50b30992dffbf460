CONSTANTS
    AggregationEnabled = TRUE
    DepGranularity = "per-file"
    BatchSize = 4
    Labels <- RangeLabels
    f1 = f1
    f2 = f2
SPECIFICATION ShuffleSpec
INVARIANTS
    ExactlyOnce
    MergeIsExact
    HazardsTogether
    
    SupertasksNeeded
CHECK_DEADLOCK FALSE
