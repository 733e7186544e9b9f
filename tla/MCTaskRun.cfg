SPECIFICATION Spec
CONSTANTS
    a = a  b = b  c = c  d = d  g = g
    Nodes = {a, b, c, d, g}
    Edges <- Gated
    Approvals = {g}
    NodeRetry <- AllRetry
    TaskRetry = 1
    Faults = {"fail", "crash", "full"}
    MaxRuns = 3
    MaxDecisions = 1
INVARIANT LoopAccounts
INVARIANT DependencyOrder
INVARIANT SucceededMeansAllNodes
INVARIANT NoDanglingNode
PROPERTY NoNodeRedone
