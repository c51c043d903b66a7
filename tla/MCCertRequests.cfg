SPECIFICATION Spec
CONSTANTS
    r1 = r1
    r2 = r2
    w1 = w1
    Replicas = {r1, r2}
    Workers = {w1}
    Ops <- AllOps
    MaxVersion = 2
    MaxFailures = 1
SYMMETRY Interchangeable
INVARIANTS RecordedWasPushed 
CHECK_DEADLOCK FALSE
