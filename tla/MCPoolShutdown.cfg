SPECIFICATION FairSpec
CONSTANTS
    Workers = {w1, w2}
    Jobs = {j1, j2, j3}
    QueueCap = 1
    Idle = Idle
    Gone = Gone
CHECK_DEADLOCK FALSE
INVARIANT NoSendOnClosed
INVARIANT GracefulDrain
PROPERTY NobodyHangs
