SPECIFICATION FairSpec
CONSTANTS
    a = a  b = b  c = c  d = d  g = g
    Nodes = {b, c}
    Edges <- Pair
    Approvals = {}
    NodeRetry <- OneRetry
    TaskRetry = 1
    Faults = {"fail", "panic", "crash", "deadline", "sigterm", "cancel", "remote", "db"}
    MaxRuns = 2
    MaxDecisions = 1
PROPERTY RunsEnd
