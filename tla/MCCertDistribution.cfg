SPECIFICATION FairSpec
CONSTANTS
    r1 = r1
    r2 = r2
    w1 = w1
    Replicas = {r1, r2}
    Workers = {w1}
    Ops = {}
    MaxVersion = 2
    MaxFailures = 2
INVARIANTS TypeOK
PROPERTIES Converges LeaderElected
CHECK_DEADLOCK FALSE
