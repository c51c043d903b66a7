SPECIFICATION Spec
CONSTANTS
    w1 = w1
    w2 = w2
    Workers = {w1, w2}
    Ops <- AllOps
    MaxRev = 2
    MaxFailures = 0
SYMMETRY Interchangeable
INVARIANTS ServedConfigWasApproved
PROPERTIES ImplementsRoute
CHECK_DEADLOCK FALSE
