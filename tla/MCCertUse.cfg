SPECIFICATION Spec
CONSTANTS
    i1 = i1
    s1 = s1
    c1 = c1
    d1 = d1
    k1 = k1
    k2 = k2
    u1 = u1
    p1 = p1
    Workers = {w1, w2}
    Issuers = {i1}
    Certs = {s1, c1}
    Domains = {d1}
    Clients = {k1, k2}
    Users = {u1}
    Projects = {p1}
    KindOf <- MCKindOf
    IssuerOf <- MCIssuerOf
    ProjectOf <- MCProjectOf
    UsageOf <- MCUsageOf
    ModeOf <- MCModeOf
    HomeOf <- MCHomeOf
    AccessOf <- MCAccessOf
    MaxGrants = 2
    MaxRequests = 3
    MaxFailures = 1
SYMMETRY Symmetry
INVARIANTS
    ExportsWereApproved
    ServedCertificateExists
    IssuerServesItsCertificates
    
CHECK_DEADLOCK FALSE
