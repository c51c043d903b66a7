CONSTANTS
    ann = ann
    bob = bob
    r1 = r1
    r2 = r2
    r3 = r3
    Users <- MCUsers
    Submitter = ann
    SelfApprovalAllowed = TRUE
    Admins = {bob}
    Cancellers = {}
    Stages <- OneStage
    MinApprovers <- OneMinApprovers
    Permitted <- OnePermitted
    Team <- OneTeam
    Calls <- MCCalls
    Requests <- TwoRequests
    MaxFailures = 0
SPECIFICATION Spec
INVARIANT OneDecision
CHECK_DEADLOCK FALSE
