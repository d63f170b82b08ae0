SPECIFICATION Spec
CONSTANTS
    s1 = s1
    s2 = s2
    a1 = a1
    a2 = a2
    e1 = e1
    pass = pass
    fail = fail
    Submits = {s1}
    Arbiters = {a1}
    Appends = {e1}
    MaxMessages = 2
    MaxEvidence = 1
    MaxReceives = 3
    Verdicts = {pass, fail}
    Results = {TRUE}
    MaxFaults = 1
CHECK_DEADLOCK FALSE
INVARIANTS
    GivenUpIsRecorded
