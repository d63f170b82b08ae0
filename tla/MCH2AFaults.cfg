SPECIFICATION Spec
CONSTANTS
    w1 = w1
    w2 = w2
    h1 = h1
    h2 = h2
    j1 = j1
    NoWorker = NoWorker
    Workers = {w1, w2}
    Handlers = {h1}
    Jobs = {j1}
    MaxSigned = 1
    Requests = {"assign", "submit", "approve", "reject", "revise",
                "cancel"}
    MaxJobRefunds = 2
    ServerSigning = TRUE
    Faults = TRUE
    ReadFaults = TRUE
SYMMETRY H2ASymmetry
CHECK_DEADLOCK FALSE
INVARIANTS
    TypeOK
    AcceptedIsPaid
    
PROPERTIES
    RejectedNeverPaid
