SPECIFICATION Spec
CONSTANTS
    WorkerIds = {1, 2, 3}
    WorkerName <- Names
    Traits <- ThreeTraits
    Loads = {10}
    Weights <- Profiles
    Profile = "default"
    Policies = {"round-robin", "random", "constraint", "minmax"}
    Params <- Shapes
    Intents = {"None", "Checkpoint", "Embedding", "KVCache", "Cache", "Intermediate"}
    Batches = {4, 51}
    MaxLabels = 1
    MaxChanges = 1
    MaxClock = 2
INVARIANTS OriginKept  BestAvailable RoundRobinFair BucketsCurrent
