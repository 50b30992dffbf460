SPECIFICATION Spec
CONSTANTS
    LabelMinSize = 4
    ReadPolicy = "read-through"
    NoFile = NoFile
    Files = {f1}
    Fds = {3}
    Threads = {t1}
    Timer = Timer
    Size = 2
    Extents <- NestedExtents
    ReadExtents <- OneByte
    Lengths = {0}
    MaxOpens = 1
    MaxWrites = 2
    MaxFaults = 0
    OpenModes = {{"creat"}}
    MAX_SESSION_RETRIES = 3
INVARIANT ReadsLatest
CHECK_DEADLOCK FALSE
