SPECIFICATION Spec
CONSTANTS
    LabelMinSize = 2
    ReadPolicy = "read-through"
    NoFile = NoFile
    Files = {f1}
    Fds = {3, 4}
    Threads = {t1}
    Timer = Timer
    Size = 2
    Extents <- RecordExtents
    ReadExtents <- WholeFile
    Lengths = {0}
    MaxOpens = 1
    MaxWrites = 2
    MaxFaults = 1
    OpenModes = {{"creat"}}
    MAX_SESSION_RETRIES = 3
INVARIANTS  CacheBounded  
PROPERTY EventuallyStored
CHECK_DEADLOCK FALSE
