------------------------------ MODULE MCCertUse ------------------------------
\* Instance of CertUse for TLC: an issuer with a server and a client certificate
\* of one project, one domain, two clients and one user.
EXTENDS CertUse, TLC
CONSTANTS i1, s1, c1, d1, k1, k2, u1, p1

MCKindOf == i1 :> "ca"
MCIssuerOf == [c \in {s1, c1} |-> i1]
MCProjectOf == [c \in {s1, c1} |-> p1]
MCUsageOf == s1 :> "server" @@ c1 :> "client"
MCModeOf == [c \in {s1, c1} |-> "managed"]
MCHomeOf == d1 :> p1
MCAccessOf == [k \in {k1, k2} |-> {p1}]
Symmetry == Permutations(Workers) \cup Permutations(Clients)
==============================================================================
