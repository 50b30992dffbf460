CONSTANTS
    Threads = {t1, t2}
    MaxPending = 1
    MaxMessages = 3
    MaxSubscriptions = 2
SYMMETRY ThreadSymmetry
SPECIFICATION ChannelSpec
INVARIANTS
    BackpressureBounded
    DrainCompletes
    DataArrives
    OrderedPerPublisher
