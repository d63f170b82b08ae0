SPECIFICATION FairSpec
CONSTANTS
    l1 = l1
    l2 = l2
    h1 = h1
    N = 2
    Loops = {l1}
    Handlers = {h1}
    Batch = 1
    MaxRetries = 2
    MaxAsked = 1
    MaxExcuses = 1
    Overlap = FALSE
    Fase1 = FALSE
CHECK_DEADLOCK FALSE
INVARIANTS
    TypeOK
    RecordedIsPaid
    PaidAgainOnlyAfterFault
PROPERTIES
    HeadServed
