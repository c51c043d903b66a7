SPECIFICATION Spec
CONSTANTS
    w1 = w1
    w2 = w2
    Workers = {w1}
    Ops <- AllOps
    MaxRev = 3
    MaxFailures = 1
INVARIANTS OnePending PendingApprovalMatchesStatus ApprovedConfigKept
PROPERTIES DeletedRouteLeavesNothing
CHECK_DEADLOCK FALSE
