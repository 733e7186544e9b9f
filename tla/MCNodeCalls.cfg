SPECIFICATION FairSpec
CONSTANTS
    p1 = p1
    p2 = p2
    n1 = n1
    n2 = n2
    Providers = {p1, p2}
    Kind <- MCKind
    Flaky = {p1}
    Lists <- MCLists
    Callers = {n1, n2}
    Mode <- MCMode
    Threshold = 2
    MaxRetry = 1
    MaxRounds = 2
    StreamLen = 2
    Faults = {"cancel", "deadline", "eof"}
INVARIANT NothingSpliced
INVARIANT HealthyStaysClosed
INVARIANT CircuitIsJustified
PROPERTY NodesEnd
