SPECIFICATION Spec
CONSTANTS
    p1 = p1
    p2 = p2
    t1 = t1
    t2 = t2
    t3 = t3
    a = a
    b = b
    Processes = {p1, p2}
    Threads = {t1, t2, t3}
    ProcessOf <- OneAndTwo
    AppsOf <- CallsFor
    Apps = {a, b}
    Owner = a
    MaxPuts = 2
    MaxPartial = 1
    Ttl = TRUE
SYMMETRY Symmetry
INVARIANTS   NoEmptyGet AccessHeld
