SPECIFICATION FairSpec
CONSTANTS
    s1 = s1
    s2 = s2
    a1 = a1
    a2 = a2
    e1 = e1
    pass = pass
    fail = fail
    Submits = {s1}
    Arbiters = {a1, a2}
    Appends = {e1}
    MaxMessages = 2
    MaxEvidence = 2
    MaxReceives = 2
    Verdicts = {pass, fail}
    Results = {TRUE}
    MaxFaults = 1
CHECK_DEADLOCK FALSE
INVARIANTS
    TypeOK
    CheckOfEvidence
    FailsClosed
PROPERTIES
    VerdictFinal
    CompleteIsJudged
    RunEnds
