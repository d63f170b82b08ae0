SPECIFICATION Spec
CONSTANTS
    c1 = c1
    c2 = c2
    r1 = r1
    r2 = r2
    Callers = {c1}
    Reconcilers = {r1}
    Kinds = {"mcpApprove"}
    InfoChoices = {TRUE}
    DbFaults = FALSE
    ServerSigning = TRUE
    MaxClaimTries = 3
    MaxSends = 3
    MaxJobRefunds = 3
INVARIANTS
    WorkerPaidOnce
