SPECIFICATION Spec
CONSTANTS
    Threads = {t1, t2}
    kMaxSequence = 2
    MaxLead = 1
    MaxIds = 3
INVARIANT AscendUnlessRaced
PROPERTY CallReturns
CHECK_DEADLOCK FALSE
