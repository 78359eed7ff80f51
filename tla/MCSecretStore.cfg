SPECIFICATION Spec
CONSTANTS
    h1 = h1
    h2 = h2
    b1 = b1
    b2 = b2
    b3 = b3
    Procs = {p1}
    Helpers = {h1, h2}
    Backends = {b1, b2, b3}
    BackendOf <- Apart
    Keys = {k1, k2, k3}
    Names = {n1}
    Values = {v1, v2}
    BadRecords = {junk}
    SyncFails = FALSE
SYMMETRY Symmetry
INVARIANT KeyKept
PROPERTY StorePromise
