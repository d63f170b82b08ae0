SPECIFICATION FairSpec
CONSTANTS
    w1 = w1
    w2 = w2
    h1 = h1
    h2 = h2
    j1 = j1
    NoWorker = NoWorker
    d1 = d1
    Disputes = {d1}
    Workers = {w1, w2}
    Handlers = {h1}
    Jobs = {j1}
    Requests = {"assign", "submit", "approve", "reject", "moreInfo",
                "cancel", "dispute", "resolve"}
    MaxJobRefunds = 2
    ServerSigning = TRUE
    Faults = FALSE
    ReadFaults = TRUE
CHECK_DEADLOCK FALSE
INVARIANTS
    RejectedUnpaid
    
    
PROPERTIES
    OverdueClosed
    CompletedStays
