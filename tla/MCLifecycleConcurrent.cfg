SPECIFICATION Spec
CONSTANTS
    w1 = w1
    w2 = w2
    h1 = h1
    h2 = h2
    j1 = j1
    NoWorker = NoWorker
    d1 = d1
    Disputes = {d1}
    Workers = {w1}
    Handlers = {h1, h2}
    Jobs = {j1}
    Requests = {"assign", "submit", "approve", "reject",
                "dispute", "resolve"}
    MaxJobRefunds = 1
    ServerSigning = TRUE
    Faults = TRUE
    ReadFaults = TRUE
SYMMETRY LifecycleSymmetry
CHECK_DEADLOCK FALSE
INVARIANTS
    AcceptedIsPaid
