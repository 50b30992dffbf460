CONSTANTS
    Static = {1}
    FirstElasticId = 2
    MaxCommissions = 1
    MinWorkers = 1
    MaxWorkers = 3
    PressureThreshold = 1
    MaxMessages = 1
    MaxChurn = 2
SPECIFICATION ElasticSpec
INVARIANTS
    RemovedStaysOut
    TimerIsSuspension
    RegistryComplete
    MinimumKept
