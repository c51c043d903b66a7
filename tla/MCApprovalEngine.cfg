CONSTANTS
    ann = ann
    bob = bob
    r1 = r1
    r2 = r2
    r3 = r3
    Users <- MCUsers
    Submitter = ann
    SelfApprovalAllowed = TRUE
    Admins = {}
    Cancellers = {}
    Stages <- MCStages
    MinApprovers <- MCMinApprovers
    Permitted <- MCPermitted
    Team <- MCTeam
    Calls <- MCCalls
    Requests <- MCRequests
    MaxFailures = 1
SPECIFICATION FairSpec
INVARIANTS TypeOK ApprovedOnlyByQuorum StagesInOrder NoLostCompletion
PROPERTIES DecisionNotReverted FullyApprovedIsCompleted ImplementsContract
CHECK_DEADLOCK FALSE
