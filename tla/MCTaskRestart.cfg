SPECIFICATION Spec
CONSTANTS
    a = a  b = b  c = c  d = d  g = g
    Nodes = {a, b, c}
    Edges <- Chain
    Approvals = {}
    NodeRetry <- NoRetry
    TaskRetry = 1
    Faults = {"sigterm"}
    MaxRuns = 3
    MaxDecisions = 1
INVARIANT SucceededMeansAllNodes
