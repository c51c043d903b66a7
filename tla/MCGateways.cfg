SPECIFICATION Spec
CONSTANTS
    w1 = w1
    w2 = w2
    s1 = s1
    s2 = s2
    r1 = r1
    Workers = {w1, w2}
    Domains = {"d"}
    Streams = {s1, s2}
    Existing = {s1}
    Routes = {r1}
    StreamOf <- OfFirst
    TransportOf <- Transports
    Names = {"web", "alt"}
    Ports = {1, 2, 3}
    Reserved = {3}
    ListenerSets <- SomeListeners
    ClaimSets <- SomeClaims
    MaxRequests = 3
    MaxFailures = 1
    MaxRestarts = 1
INVARIANTS ClaimsDisjoint  SettledStreamIsLive
 
SYMMETRY Symmetric
CHECK_DEADLOCK FALSE
