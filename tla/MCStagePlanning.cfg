CONSTANTS
    ann = ann
    t1 = t1
    t2 = t2
    sub = sub
    adm1 = adm1
    adm2 = adm2
    Workers <- MCWorkers
    Submitters <- MCSubmitters
    Teams <- MCTeams
    Actions = {"update"}
    MaxPolicies = 3
    Permissions <- MCPermissions
    Words <- MCWords
    Requested <- MCRequested
    MaxFailed = 1
    MaxMoves = 1
    NoTeam = NoTeam
SYMMETRY Symmetry
SPECIFICATION PlanSpec
INVARIANTS GateIsAPolicys ScopesHonoured 
CHECK_DEADLOCK FALSE
