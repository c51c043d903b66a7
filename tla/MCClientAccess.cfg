SPECIFICATION Spec
CONSTANTS
    w1 = w1
    c1 = c1
    c2 = c2
    r1 = r1
    r2 = r2
    Workers = {w1}
    Clients = {c1}
    Routes = {r1}
    Configs <- SomeConfigs
    Credentials = {"apiKey", "jwt", "mtls", "ip", "header", "methods"}
    Ops <- AllOps
    MaxVersion = 2
    MaxApprovals = 2
    MaxFailures = 1
INVARIANTS   ServedClientWasGranted 
CHECK_DEADLOCK FALSE
