SPECIFICATION Spec
CONSTANTS
    w1 = w1
    w2 = w2
    d1 = d1
    d2 = d2
    Workers = {w1, w2}
    Domains = {d1, d2}
    HostOf <- SameHost
    Credentials = {"c"}
    Zones = {"z"}
    Outside = {}
    Apex = {}
    Types = {"A", "CNAME"}
    Requested = {"auto", "CNAME"}
    Addresses = {"ip", "lb"}
    TypeOf <- AddressType
    MaxRequests = 3
    MaxRows = 2
    MaxMoves = 2
    MaxFailures = 1
INVARIANTS  ReadyWasWritten WrittenRecordHasRow OneOwnerPerName
SYMMETRY Symmetric
CHECK_DEADLOCK FALSE
