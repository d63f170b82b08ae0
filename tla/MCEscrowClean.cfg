SPECIFICATION Spec
CONSTANTS
    c1 = c1
    c2 = c2
    r1 = r1
    r2 = r2
    Callers = {c1, c2}
    Reconcilers = {r1}
    Kinds = {"settle", "h2aApprove", "mcpApprove", "cancel", "arbiterFail",
             "mcpCancel", "expire"}
    InfoChoices = {TRUE}
    DbFaults = FALSE
    ServerSigning = TRUE
    MaxClaimTries = 3
    MaxSends = 3
    MaxJobRefunds = 3
SYMMETRY CallerSymmetry
INVARIANTS
    ClosedLeftEscrow
PROPERTIES
    ClosedFinal
    ContractKept
