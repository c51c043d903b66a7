---------------------------- MODULE CertUseProofs ----------------------------
(***************************************************************************)
(* Theorems about CertUse, for any issuers, certificates, domains, clients *)
(* and users and any number of requests, grants and failures.              *)
(***************************************************************************)
EXTENDS CertUse, FiniteSetTheorems, TLAPS

IssuerLabels == {"insertIssuer", "nameIssuer", "applyKeys", "applyIssuer", "saveIssuer"}
CertLabels == {"insertCert", "nameCert", "applyCert", "saveCert", "deleteCertRow", "deleteCrd"}
Labels == {"idle", "deleteObjects", "deleteIssuerRow", "deleteGrant", "consume", "readBundle",
           "saveDomain", "applyGateway", "saveClient"} \cup IssuerLabels \cup CertLabels
Ops == {"idle", "createIssuer", "deleteIssuer", "revoke", "createCert", "approveCert", "status",
        "deleteCert", "export", "attachDomain", "detachDomain", "updateDomain", "attachClient",
        "detachClient", "updateClient"}
Rows == [status : {None, "pending", "issuing", "ready", "error"}, named : BOOLEAN]
Locals == [op : Ops, at : Labels, id : Issuers \cup Certs \cup Domains \cup Clients \cup Users \cup {None},
           row : Rows, project : Projects \cup {None}, cert : Certs \cup {None},
           other : Certs \cup Issuers \cup {None, Byo}, grant : 0..MaxGrants]
Grants == [cert : Certs \cup {None}, user : Users \cup {None},
           state : {None, "usable", "used", "expired", "gone"}]

StateTyped ==
    /\ issuer \in [Issuers -> Rows] /\ objects \in [Issuers -> SUBSET Parts]
    /\ cert \in [Certs -> Rows]
    /\ domain \in [Domains -> [cert : Certs \cup {None}, secret : Certs \cup {Byo}]]
    /\ live \in [Domains -> Certs \cup {Byo}]
    /\ client \in [Clients -> [cert : Certs \cup {None}, ca : Issuers \cup {None, Byo}]]
    /\ grant \in [1..MaxGrants -> Grants]
    /\ approved \in [Certs \X Users -> Nat] /\ downloads \in [Certs \X Users -> Nat]
    /\ loc \in [Workers -> Locals]

\* What a worker holds at each of its steps.
InPlace(l) ==
    /\ l.at = "idle" => l = Idle
    /\ l.at \in IssuerLabels => l.id \in Issuers /\ l.op = "createIssuer"
    /\ l.at \in IssuerLabels \ {"saveIssuer"} => l.row.status = "pending"
    /\ l.at \in {"deleteObjects", "deleteIssuerRow"} => l.id \in Issuers /\ l.op = "deleteIssuer"
    /\ l.at = "deleteGrant" => l.id \in Issuers /\ l.op = "revoke"
    /\ l.at \in CertLabels => l.id \in Certs /\ l.op \notin {"revoke", "deleteIssuer"}
    /\ l.at \in {"insertCert", "nameCert"} => l.op = "createCert" /\ l.row.status = "pending"
    /\ l.at = "insertCert" => ~l.row.named
    /\ l.at = "saveCert" => l.row.status \in {"issuing", "ready", "error"}
    /\ l.at \in {"consume", "readBundle"} => l.id \in Users /\ l.cert \in Certs
    /\ l.at = "consume" <=> l.grant # 0
    /\ l.at \in {"saveDomain", "applyGateway"} => l.id \in Domains /\ l.other \in Certs \cup {Byo}
    /\ l.at = "saveClient" => l.id \in Clients /\ l.other \in Issuers \cup {None, Byo}

---------------------------------------------------------------------------
\* Exports.  A grant is open while it is usable or locked by a download.
Locked(g) == \E w \in Workers : At(w, "consume") /\ loc[w].grant = g
Open(c, u) == {g \in 1..MaxGrants : grant[g].cert = c /\ grant[g].user = u
                                      /\ (grant[g].state = "usable" \/ Locked(g))}
Readers(c, u) == {w \in Workers : At(w, "readBundle") /\ loc[w].cert = c /\ loc[w].id = u}
GrantsLocked ==
    \A w \in Workers : At(w, "consume") =>
        /\ grant[loc[w].grant].cert = loc[w].cert /\ grant[loc[w].grant].user = loc[w].id
        /\ \A v \in Workers : loc[v].grant = loc[w].grant => v = w
ExportsCounted ==
    \A c \in Certs, u \in Users :
        downloads[<<c, u>>] + Cardinality(Open(c, u)) + Cardinality(Readers(c, u)) <= approved[<<c, u>>]
ExportInv == GrantsLocked /\ ExportsCounted

---------------------------------------------------------------------------
\* Requests on an id did not overlap: one worker at most is busy with it.
Alone ==
    \A v, w \in Workers : ~At(v, "idle") /\ ~At(w, "idle") /\ loc[v].id = loc[w].id
                            /\ loc[w].id \notin blurred => v = w

\* Issuers.  A request that counted certificates has counted right.
Counted(l) ==
    /\ l.at \in {"deleteObjects", "deleteIssuerRow"} => CountByIssuer(l.id) = {}
    /\ l.at = "deleteGrant" => \A c \in CountByIssuer(l.id) : ProjectOf[c] # l.project
\* The parts of an issuer that a create has applied are there.
Applied(l) ==
    /\ l.at = "applyIssuer" => "keys" \in objects[l.id]
    /\ l.at = "saveIssuer" /\ l.row.status = "ready" => objects[l.id] = Parts
CountsHold == \A w \in Workers : loc[w].id \notin blurred => Counted(loc[w])
PartsApplied == \A w \in Workers : loc[w].id \notin blurred => Applied(loc[w])
\* An issuer that is ready is whole until its row is about to go, and a project
\* keeps the grant that its certificates need.
ReadyIsWhole ==
    \A i \in Issuers \ blurred :
        issuer[i].status = "ready" /\ ~(\E w \in Workers : At(w, "deleteIssuerRow") /\ loc[w].id = i) =>
            objects[i] = Parts
CertsGranted ==
    \A c \in Certs : cert[c] # NoRow /\ {c, IssuerOf[c]} \cap blurred = {} =>
        <<IssuerOf[c], ProjectOf[c]>> \in granted
IssuerInv == CountsHold /\ PartsApplied /\ ReadyIsWhole /\ CertsGranted

---------------------------------------------------------------------------
\* Certificates.  Only what was inserted has a row, an object or a key.
Inserted ==
    /\ crd \subseteq born /\ leaf \subseteq born
    /\ \A c \in Certs : cert[c] # NoRow => c \in born
    /\ \A w \in Workers : loc[w].at \in {"nameCert", "applyCert", "saveCert"} => loc[w].id \in born

\* What is ready has its key, and only the request that inserted a certificate
\* writes pending, before anybody else can see its names.
ReadyHasKey ==
    /\ \A c \in Certs : cert[c].status = "ready" => c \in leaf
    /\ \A w \in Workers : At(w, "saveCert") /\ loc[w].row.status = "ready" => loc[w].id \in leaf
NamedOnce ==
    \A w \in Workers : At(w, "nameCert") =>
        /\ ~cert[loc[w].id].named /\ cert[loc[w].id].status \in {None, "pending"}
        /\ \A v \in Workers \ {w} :
              loc[v].at \in {"nameCert", "applyCert", "saveCert"} => loc[v].id # loc[w].id

\* Attached, or about to be: such a certificate was ready and is not pending.
Chosen(c) == \/ AttachedTo(c)
             \/ \E w \in Workers : loc[w].at \in {"saveDomain", "applyGateway", "saveClient"} /\ loc[w].cert = c
ChosenWasReady ==
    \A c \in Certs : Chosen(c) =>
        /\ c \in leaf /\ cert[c].status # "pending"
        /\ \A w \in Workers : ~(At(w, "nameCert") /\ loc[w].id = c)
ForeignKeys == \A c \in Certs : AttachedTo(c) => cert[c] # NoRow

\* A key that was issued has its object as long as the row is there.
KeyHasObject ==
    /\ \A c \in Certs \ blurred : cert[c] # NoRow /\ c \in leaf => c \in crd
    /\ \A w \in Workers : At(w, "deleteCrd") /\ loc[w].id \notin blurred => cert[loc[w].id] = NoRow

\* The Gateway of a domain says what the row does, unless it is being applied.
Applying(w, d) == At(w, "applyGateway") /\ loc[w].id = d
LiveFollowsRow ==
    \A d \in Domains \ blurred :
        /\ (\A w \in Workers : ~Applying(w, d)) => live[d] = TlsSecret(domain[d].cert, domain[d].secret)
        /\ \A w \in Workers : Applying(w, d) =>
              domain[d].cert = loc[w].cert /\ domain[d].secret = loc[w].other

CertInv == /\ Inserted /\ ReadyHasKey /\ NamedOnce /\ ChosenWasReady /\ ForeignKeys
           /\ KeyHasObject /\ LiveFollowsRow

TypedInv == StateTyped /\ \A w \in Workers : InPlace(loc[w])
CertUseInv == TypedInv /\ ExportInv /\ OneClientPerCertificate /\ Alone /\ IssuerInv /\ CertInv

---------------------------------------------------------------------------
\* What a request begins with: it has checked what it read.
Startable(l) ==
    /\ l \in Locals /\ InPlace(l)
    /\ l.at \in {"insertIssuer", "deleteObjects", "deleteGrant", "insertCert", "applyCert", "saveCert",
                 "deleteCertRow", "consume", "saveDomain", "saveClient"}
    /\ Counted(l)
    /\ l.at \in {"applyCert", "saveCert"} => cert[l.id].named
    /\ l.at = "saveCert" /\ l.row.status = "ready" => l.id \in leaf
    /\ l.at = "consume" => /\ l.grant \in Usable(l.cert, l.id)
                           /\ \A v \in Workers : loc[v].grant # l.grant
    /\ l.at \in {"saveDomain", "saveClient"} /\ l.cert # None =>
          cert[l.cert].status = "ready" \/ AttachedTo(l.cert)

\* The requests that a worker can take up.
Request(w) ==
    \/ \E i \in Issuers : CreateIssuer(w, i) \/ DeleteIssuer(w, i) \/ \E p \in Projects : Revoke(w, i, p)
    \/ \E c \in Certs : \/ CreateCert(w, c) \/ ApproveCert(w, c) \/ Status(w, c) \/ DeleteCert(w, c)
                        \/ \E u \in Users : ExportBundle(w, c, u)
                        \/ \E d \in Domains : AttachDomain(w, d, c)
                        \/ \E k \in Clients : AttachClient(w, k, c)
    \/ \E d \in Domains : DetachDomain(w, d) \/ \E s \in Certs \cup {Byo} : UpdateDomain(w, d, s)
    \/ \E k \in Clients : DetachClient(w, k) \/ \E ca \in {None, Byo} : UpdateClientMTLS(w, k, ca)

\* A request begins with what it has checked.
LEMMA RequestsStart ==
    ASSUME TypedInv, NEW w \in Workers, Request(w)
    PROVE  \E l : Startable(l) /\ Begin(w, l)
<1> USE NamesAssumption, InputsAssumption, BoundsAssumption
<1>0. /\ NoRow \in Rows /\ None \notin Certs \cup Issuers \cup Domains \cup Clients \cup Users
      /\ issuer \in [Issuers -> Rows] /\ cert \in [Certs -> Rows]
      /\ domain \in [Domains -> [cert : Certs \cup {None}, secret : Certs \cup {Byo}]]
      /\ client \in [Clients -> [cert : Certs \cup {None}, ca : Issuers \cup {None, Byo}]]
      /\ grant \in [1..MaxGrants -> Grants]
      /\ 0 \in 0..MaxGrants
  BY DEF TypedInv, StateTyped, NoRow, Rows, None
<1>1. CASE \E i \in Issuers : CreateIssuer(w, i)
  <2>1. PICK i \in Issuers : CreateIssuer(w, i)
    BY <1>1
  <2> DEFINE l == [Idle EXCEPT !.op = "createIssuer", !.id = i, !.at = "insertIssuer",
                    !.row = [status |-> "pending", named |-> FALSE]]
  <2>2. l \in Locals
    BY <1>0 DEF Locals, Idle, NoRow, Rows, Ops, Labels, IssuerLabels
  <2>3. Startable(l)
    BY <2>2, <1>0 DEF Startable, InPlace, Counted, Idle, IssuerLabels, CertLabels
  <2> QED  BY <2>1, <2>3 DEF CreateIssuer
<1>2. CASE \E i \in Issuers : DeleteIssuer(w, i)
  <2>1. PICK i \in Issuers : DeleteIssuer(w, i)
    BY <1>2
  <2> DEFINE l == [Idle EXCEPT !.op = "deleteIssuer", !.id = i, !.at = "deleteObjects", !.row = issuer[i]]
  <2>2. l \in Locals
    BY <1>0 DEF Locals, Idle, Ops, Labels
  <2>3. Startable(l)
    BY <2>1, <2>2, <1>0 DEF DeleteIssuer, Startable, InPlace, Counted, Idle, IssuerLabels, CertLabels
  <2> QED  BY <2>1, <2>3 DEF DeleteIssuer
<1>3. CASE \E i \in Issuers, p \in Projects : Revoke(w, i, p)
  <2>1. PICK i \in Issuers, p \in Projects : Revoke(w, i, p)
    BY <1>3
  <2> DEFINE l == [Idle EXCEPT !.op = "revoke", !.id = i, !.project = p, !.at = "deleteGrant"]
  <2>2. l \in Locals
    BY <1>0 DEF Locals, Idle, Ops, Labels, IssuerLabels, CertLabels, Rows
  <2>3. Startable(l)
    BY <2>1, <2>2, <1>0 DEF Revoke, Startable, InPlace, Counted, Idle, IssuerLabels, CertLabels
  <2>4. Begin(w, l)
    BY <2>1, <1>0 DEF Revoke
  <2> QED  BY <2>3, <2>4
<1>4. CASE \E c \in Certs : CreateCert(w, c)
  <2>1. PICK c \in Certs : CreateCert(w, c)
    BY <1>4
  <2> DEFINE l == [Idle EXCEPT !.op = "createCert", !.id = c, !.at = "insertCert",
                    !.row = [status |-> "pending", named |-> FALSE]]
  <2>2. l \in Locals
    BY <1>0 DEF Locals, Idle, Ops, Labels, IssuerLabels, CertLabels, Rows
  <2>3. Startable(l)
    BY <2>1, <2>2, <1>0 DEF CreateCert, Startable, InPlace, Counted, Idle, IssuerLabels, CertLabels
  <2>4. Begin(w, l)
    BY <2>1, <1>0 DEF CreateCert
  <2> QED  BY <2>3, <2>4
<1>5. CASE \E c \in Certs : ApproveCert(w, c)
  <2>1. PICK c \in Certs : ApproveCert(w, c)
    BY <1>5
  <2> DEFINE l == [Idle EXCEPT !.op = "approveCert", !.id = c, !.at = "applyCert", !.row = cert[c]]
  <2>2. l \in Locals
    BY <1>0 DEF Locals, Idle, Ops, Labels, IssuerLabels, CertLabels, Rows
  <2>3. Startable(l)
    BY <2>1, <2>2, <1>0 DEF ApproveCert, Startable, InPlace, Counted, Idle, IssuerLabels, CertLabels
  <2>4. Begin(w, l)
    BY <2>1, <1>0 DEF ApproveCert
  <2> QED  BY <2>3, <2>4
<1>6. CASE \E c \in Certs : Status(w, c)
  <2>1. PICK c \in Certs : Status(w, c)
    BY <1>6
  <2> DEFINE l == [Idle EXCEPT !.op = "status", !.id = c, !.at = "saveCert",
                    !.row = [cert[c] EXCEPT !.status = IF c \in leaf THEN "ready" ELSE "issuing"]]
  <2>2. l \in Locals
    BY <1>0 DEF Locals, Idle, Ops, Labels, IssuerLabels, CertLabels, Rows
  <2>3. Startable(l)
    BY <2>1, <2>2, <1>0 DEF Status, Startable, InPlace, Counted, Idle, IssuerLabels, CertLabels, Rows
  <2>4. Begin(w, l)
    BY <2>1, <1>0 DEF Status
  <2> QED  BY <2>3, <2>4
<1>7. CASE \E c \in Certs : DeleteCert(w, c)
  <2>1. PICK c \in Certs : DeleteCert(w, c)
    BY <1>7
  <2> DEFINE l == [Idle EXCEPT !.op = "deleteCert", !.id = c, !.at = "deleteCertRow", !.row = cert[c]]
  <2>2. l \in Locals
    BY <1>0 DEF Locals, Idle, Ops, Labels, IssuerLabels, CertLabels, Rows
  <2>3. Startable(l)
    BY <2>1, <2>2, <1>0 DEF DeleteCert, Startable, InPlace, Counted, Idle, IssuerLabels, CertLabels
  <2>4. Begin(w, l)
    BY <2>1, <1>0 DEF DeleteCert
  <2> QED  BY <2>3, <2>4
<1>8. CASE \E d \in Domains, c \in Certs : AttachDomain(w, d, c)
  <2>1. PICK d \in Domains, c \in Certs : AttachDomain(w, d, c)
    BY <1>8
  <2> DEFINE l == [Idle EXCEPT !.op = "attachDomain", !.id = d, !.at = "saveDomain", !.cert = c, !.other = domain[d].secret]
  <2>2. l \in Locals
    BY <1>0 DEF Locals, Idle, Ops, Labels, IssuerLabels, CertLabels, Rows
  <2>3. Startable(l)
    BY <2>1, <2>2, <1>0 DEF AttachDomain, Startable, InPlace, Counted, Idle, IssuerLabels, CertLabels, StoreLater, MayServe
  <2>4. Begin(w, l)
    BY <2>1, <1>0 DEF AttachDomain, StoreLater
  <2> QED  BY <2>3, <2>4
<1>9. CASE \E d \in Domains : DetachDomain(w, d)
  <2>1. PICK d \in Domains : DetachDomain(w, d)
    BY <1>9
  <2> DEFINE l == [Idle EXCEPT !.op = "detachDomain", !.id = d, !.at = "saveDomain", !.cert = None, !.other = domain[d].secret]
  <2>2. l \in Locals
    BY <1>0 DEF Locals, Idle, Ops, Labels, IssuerLabels, CertLabels, Rows
  <2>3. Startable(l)
    BY <2>1, <2>2, <1>0 DEF DetachDomain, Startable, InPlace, Counted, Idle, IssuerLabels, CertLabels, StoreLater
  <2>4. Begin(w, l)
    BY <2>1, <1>0 DEF DetachDomain, StoreLater
  <2> QED  BY <2>3, <2>4
<1>10. CASE \E d \in Domains, s \in Certs \cup {Byo} : UpdateDomain(w, d, s)
  <2>1. PICK d \in Domains, s \in Certs \cup {Byo} : UpdateDomain(w, d, s)
    BY <1>10
  <2> DEFINE l == [Idle EXCEPT !.op = "updateDomain", !.id = d, !.at = "saveDomain",
                    !.cert = InferManagedCert(d, s), !.other = s]
  <2>2. l \in Locals
    BY <1>0 DEF Locals, Idle, Ops, Labels, IssuerLabels, CertLabels, Rows, InferManagedCert
  <2>3. Startable(l)
    BY <2>1, <2>2, <1>0 DEF UpdateDomain, Startable, InPlace, Counted, Idle, IssuerLabels, CertLabels, StoreLater, InferManagedCert, MayServe
  <2>4. Begin(w, l)
    BY <2>1, <1>0 DEF UpdateDomain, StoreLater
  <2> QED  BY <2>3, <2>4
<1>11. CASE \E k \in Clients, c \in Certs : AttachClient(w, k, c)
  <2>1. PICK k \in Clients, c \in Certs : AttachClient(w, k, c)
    BY <1>11
  <2> DEFINE l == [Idle EXCEPT !.op = "attachClient", !.id = k, !.at = "saveClient",
                    !.cert = c, !.other = IssuerOf[c]]
  <2>2. l \in Locals
    BY <1>0 DEF Locals, Idle, Ops, Labels, IssuerLabels, CertLabels, Rows
  <2>3. Startable(l)
    BY <2>1, <2>2, <1>0 DEF AttachClient, Startable, InPlace, Counted, Idle, IssuerLabels, CertLabels
  <2>4. Begin(w, l)
    BY <2>1, <1>0 DEF AttachClient
  <2> QED  BY <2>3, <2>4
<1>12. CASE \E k \in Clients : DetachClient(w, k)
  <2>1. PICK k \in Clients : DetachClient(w, k)
    BY <1>12
  <2> DEFINE l == [Idle EXCEPT !.op = "detachClient", !.id = k, !.at = "saveClient"]
  <2>2. l \in Locals
    BY <1>0 DEF Locals, Idle, Ops, Labels, IssuerLabels, CertLabels, Rows
  <2>3. Startable(l)
    BY <2>1, <2>2, <1>0 DEF DetachClient, Startable, InPlace, Counted, Idle, IssuerLabels, CertLabels
  <2>4. Begin(w, l)
    BY <2>1, <1>0 DEF DetachClient
  <2> QED  BY <2>3, <2>4
<1>13. CASE \E k \in Clients, ca \in {None, Byo} : UpdateClientMTLS(w, k, ca)
  <2>1. PICK k \in Clients, ca \in {None, Byo} : UpdateClientMTLS(w, k, ca)
    BY <1>13
  <2> DEFINE l == [Idle EXCEPT !.op = "updateClient", !.id = k, !.at = "saveClient",
                 !.cert = client[k].cert, !.other = ca]
  <2>2. l \in Locals
    BY <1>0 DEF Locals, Idle, Ops, Labels, IssuerLabels, CertLabels, Rows
  <2>3. Startable(l)
    BY <2>1, <2>2, <1>0 DEF UpdateClientMTLS, Startable, InPlace, Counted, Idle, IssuerLabels, CertLabels, AttachedTo
  <2>4. Begin(w, l)
    BY <2>1, <1>0 DEF UpdateClientMTLS
  <2> QED  BY <2>3, <2>4
<1>14. CASE \E c \in Certs, u \in Users : ExportBundle(w, c, u)
  <2>1. PICK c \in Certs, u \in Users : ExportBundle(w, c, u)
    BY <1>14
  <2>2. PICK g \in Usable(c, u) :
           /\ \A v \in Workers : loc[v].grant # g
           /\ Begin(w, [Idle EXCEPT !.op = "export", !.id = u, !.cert = c, !.grant = g, !.at = "consume"])
    BY <2>1 DEF ExportBundle
  <2> DEFINE l == [Idle EXCEPT !.op = "export", !.id = u, !.cert = c, !.grant = g, !.at = "consume"]
  <2>3. g \in 1..MaxGrants /\ g \in 0..MaxGrants
    BY <1>0 DEF Usable
  <2>4. l \in Locals
    BY <1>0, <2>3 DEF Locals, Idle, Ops, Labels
  <2>5. l.at = "consume" /\ l.cert = c /\ l.id = u /\ l.grant = g /\ g # 0
    BY <2>3 DEF Idle
  <2>6. InPlace(l) /\ Counted(l)
    BY <2>5 DEF InPlace, Counted, IssuerLabels, CertLabels
  <2>7. Startable(l)
    BY <2>2, <2>4, <2>5, <2>6 DEF Startable
  <2> QED  BY <2>2, <2>7
<1> QED  BY <1>1, <1>2, <1>3, <1>4, <1>5, <1>6, <1>7, <1>8, <1>9, <1>10, <1>11, <1>12, <1>13, <1>14 DEF Request

---------------------------------------------------------------------------
\* A worker returns, or goes on with its request at its next step.
Advances(w) ==
    /\ ~At(w, "idle") /\ loc[w] \in Locals /\ InPlace(loc[w])
    /\ loc' \in [Workers -> Locals] /\ InPlace(loc'[w])
    /\ \A v \in Workers \ {w} : loc'[v] = loc[v]
    /\ \/ loc'[w] = Idle
       \/ /\ loc'[w].at # "idle" /\ loc'[w].id = loc[w].id /\ loc'[w].op = loc[w].op
          /\ loc'[w].cert = loc[w].cert /\ loc'[w].other = loc[w].other

LEMMA IdleInPlace == Idle \in Locals /\ InPlace(Idle)
<1>1. Idle \in Locals
  BY BoundsAssumption DEF Idle, Locals, NoRow, Rows, Ops, Labels
<1>2. InPlace(Idle)
  BY DEF Idle, InPlace, IssuerLabels, CertLabels
<1> QED  BY <1>1, <1>2

LEMMA Returning ==
    ASSUME TypedInv, NEW w \in Workers, ~At(w, "idle"), Return(w)
    PROVE  Advances(w) /\ loc'[w] = Idle
BY IdleInPlace DEF TypedInv, StateTyped, Return, Advances

\* A worker goes on: its label, the row it holds and its lock may change.
LEMMA GoingOn ==
    ASSUME TypedInv, NEW w \in Workers, ~At(w, "idle"), NEW a \in Labels \ {"idle"}, NEW r \in Rows,
           NEW g \in 0..MaxGrants,
           InPlace([loc[w] EXCEPT !.at = a, !.row = r, !.grant = g]),
           loc' = [loc EXCEPT ![w] = [loc[w] EXCEPT !.at = a, !.row = r, !.grant = g]]
    PROVE  Advances(w) /\ loc'[w].at = a /\ loc'[w].row = r /\ loc'[w].grant = g
<1> DEFINE m == [loc[w] EXCEPT !.at = a, !.row = r, !.grant = g]
<1>1. loc \in [Workers -> Locals] /\ InPlace(loc[w])
  BY DEF TypedInv, StateTyped
<1>2. /\ m \in Locals /\ m.at = a /\ m.id = loc[w].id /\ m.op = loc[w].op
      /\ m.cert = loc[w].cert /\ m.other = loc[w].other /\ m.row = r /\ m.grant = g
  BY <1>1 DEF Locals
<1> HIDE DEF m
<1>3. loc' = [loc EXCEPT ![w] = m] /\ InPlace(m)
  BY DEF m
<1> QED  BY <1>1, <1>2, <1>3 DEF Advances

\* The steps of a worker that change its label only, or the row as well.
LEMMA Relabelling ==
    ASSUME TypedInv, NEW w \in Workers, ~At(w, "idle"), NEW a \in Labels \ {"idle"},
           InPlace([loc[w] EXCEPT !.at = a]), loc' = [loc EXCEPT ![w].at = a]
    PROVE  Advances(w) /\ loc'[w].at = a /\ loc'[w].row = loc[w].row /\ loc'[w].grant = loc[w].grant
<1>1. loc \in [Workers -> Locals]
  BY DEF TypedInv, StateTyped
<1>2. [loc[w] EXCEPT !.at = a] = [loc[w] EXCEPT !.at = a, !.row = loc[w].row, !.grant = loc[w].grant]
  BY <1>1 DEF Locals
<1>3. loc[w].row \in Rows /\ loc[w].grant \in 0..MaxGrants
  BY <1>1 DEF Locals
<1>4. /\ InPlace([loc[w] EXCEPT !.at = a, !.row = loc[w].row, !.grant = loc[w].grant])
      /\ loc' = [loc EXCEPT ![w] = [loc[w] EXCEPT !.at = a, !.row = loc[w].row, !.grant = loc[w].grant]]
  BY <1>2
<1>5. Advances(w) /\ loc'[w].at = a /\ loc'[w].row = loc[w].row /\ loc'[w].grant = loc[w].grant
  BY <1>3, <1>4, GoingOn
<1> QED  BY <1>5

LEMMA IssuerStepsTyped ==
    ASSUME TypedInv, NEW w \in Workers,
           \/ InsertIssuer(w) \/ NameIssuer(w) \/ ApplyKeys(w) \/ ApplyIssuer(w) \/ MarkError(w)
           \/ SaveIssuer(w) \/ DeleteObjects(w) \/ DeleteIssuerRow(w) \/ DeleteGrant(w)
    PROVE  Advances(w) /\ StateTyped'
<1> DEFINE l == loc[w]
<1>0. /\ loc \in [Workers -> Locals] /\ InPlace(l) /\ l \in Locals
      /\ l.row \in Rows /\ NoRow \in Rows /\ l.grant \in 0..MaxGrants
      /\ issuer \in [Issuers -> Rows] /\ objects \in [Issuers -> SUBSET Parts]
  BY DEF TypedInv, StateTyped, NoRow, Rows, Locals
<1>a. ASSUME NEW x \in BOOLEAN PROVE [l.row EXCEPT !.named = x] \in Rows /\ [l.row EXCEPT !.named = x].status = l.row.status
  BY <1>0 DEF Rows
<1>b. ASSUME NEW x \in {"ready", "error"} PROVE [l.row EXCEPT !.status = x] \in Rows /\ [l.row EXCEPT !.status = x].status = x
  BY <1>0 DEF Rows
<1>1. CASE InsertIssuer(w)
  <2>1. l.at = "insertIssuer" /\ l.id \in Issuers /\ l.op = "createIssuer" /\ l.row.status = "pending"
    BY <1>1, <1>0 DEF InsertIssuer, At, InPlace, IssuerLabels
  <2>2. StateTyped' <=> loc' \in [Workers -> Locals]
    BY <1>1, <1>0, <2>1 DEF InsertIssuer, TypedInv, StateTyped, exports, uses
  <2>3. CASE Return(w)
    BY <2>1, <2>2, <2>3, Returning DEF At, Advances
  <2>4. CASE loc' = [loc EXCEPT ![w].row.named = TRUE, ![w].at = "nameIssuer"]
    <3> DEFINE r == [l.row EXCEPT !.named = TRUE]
               m == [l EXCEPT !.at = "nameIssuer", !.row = r, !.grant = l.grant]
    <3>1. loc' = [loc EXCEPT ![w] = m]
      BY <2>4, <1>0 DEF Locals
    <3>2. InPlace(m)
      BY <1>0, <2>1, <1>a DEF InPlace, Locals, IssuerLabels, CertLabels
    <3>3. Advances(w)
      BY <3>1, <3>2, <1>0, <1>a, <2>1, GoingOn DEF At, Labels, IssuerLabels
    <3> QED  BY <3>3, <2>2 DEF Advances
  <2> QED  BY <2>3, <2>4, <1>1 DEF InsertIssuer
<1>2. CASE NameIssuer(w)
  <2>1. l.at = "nameIssuer" /\ l.id \in Issuers /\ l.op = "createIssuer" /\ l.row.status = "pending"
    BY <1>2, <1>0 DEF NameIssuer, At, InPlace, IssuerLabels
  <2>2. StateTyped' <=> loc' \in [Workers -> Locals]
    BY <1>2, <1>0, <2>1 DEF NameIssuer, TypedInv, StateTyped, exports, uses, certs
  <2>3. CASE Return(w)
    BY <2>1, <2>2, <2>3, Returning DEF At, Advances
  <2>4. CASE Goto(w, "applyKeys")
    <3>1. InPlace([l EXCEPT !.at = "applyKeys"])
      BY <1>0, <2>1 DEF InPlace, Locals, IssuerLabels, CertLabels
    <3>2. Advances(w)
      BY <3>1, <2>1, <2>4, Relabelling DEF At, Goto, Labels, IssuerLabels
    <3> QED  BY <3>2, <2>2 DEF Advances
  <2> QED  BY <2>3, <2>4, <1>2 DEF NameIssuer
<1>3. ASSUME NEW part \in Parts, NEW next \in {"applyIssuer", "saveIssuer"}, ApplyPart(w, part, next),
             l.at \in {"applyKeys", "applyIssuer"}
      PROVE  Advances(w) /\ StateTyped'
  <2>1. l.id \in Issuers /\ l.op = "createIssuer" /\ l.row.status = "pending" /\ l.at # "idle"
    BY <1>3, <1>0 DEF At, InPlace, IssuerLabels
  <2>2. StateTyped' <=> loc' \in [Workers -> Locals]
    BY <1>3, <1>0, <2>1 DEF ApplyPart, TypedInv, StateTyped, exports, uses, certs
  <2> DEFINE r == [l.row EXCEPT !.status = IF next = "saveIssuer" THEN "ready" ELSE @]
             m == [l EXCEPT !.at = next, !.row = r, !.grant = l.grant]
  <2>3. loc' = [loc EXCEPT ![w] = m]
    BY <1>3, <1>0 DEF Locals, ApplyPart
  <2>4. r \in Rows /\ (next = "applyIssuer" => r.status = "pending")
    BY <1>0, <2>1 DEF Rows
  <2>5. InPlace(m)
    BY <1>0, <2>1, <2>4, <1>3 DEF InPlace, Locals, IssuerLabels, CertLabels
  <2>6. Advances(w)
    BY <2>3, <2>5, <1>0, <2>4, <2>1, GoingOn DEF At, Labels, IssuerLabels
  <2> QED  BY <2>6, <2>2 DEF Advances
<1>4. CASE ApplyKeys(w) \/ ApplyIssuer(w)
  BY <1>4, <1>3 DEF ApplyKeys, ApplyIssuer, At, Parts
<1>5. CASE MarkError(w)
  <2>1. /\ l.at \in {"applyKeys", "applyIssuer"}
        /\ l.id \in Issuers /\ l.op = "createIssuer" /\ l.at # "idle" /\ l.grant = 0
    BY <1>5, <1>0 DEF MarkError, InPlace, IssuerLabels
  <2>2. StateTyped' <=> loc' \in [Workers -> Locals]
    BY <1>5, <1>0, <2>1 DEF MarkError, TypedInv, StateTyped, exports, uses, certs, issuers
  <2> DEFINE r == [l.row EXCEPT !.status = "error"]
             m == [l EXCEPT !.at = "saveIssuer", !.row = r, !.grant = l.grant]
  <2>3. loc' = [loc EXCEPT ![w] = m]
    BY <1>5, <1>0 DEF Locals, MarkError
  <2>5. InPlace(m)
    BY <1>0, <2>1, <1>b DEF InPlace, Locals, IssuerLabels, CertLabels
  <2>6. Advances(w)
    BY <2>3, <2>5, <1>0, <1>b, <2>1, GoingOn DEF At, Labels, IssuerLabels
  <2> QED  BY <2>6, <2>2 DEF Advances
<1>6. CASE SaveIssuer(w)
  <2>1. l.at = "saveIssuer" /\ l.id \in Issuers
    BY <1>6, <1>0 DEF SaveIssuer, At, InPlace, IssuerLabels
  <2>2. StateTyped' <=> loc' \in [Workers -> Locals]
    BY <1>6, <1>0, <2>1 DEF SaveIssuer, TypedInv, StateTyped, exports, uses, certs
  <2> QED  BY <1>6, <2>1, <2>2, Returning DEF SaveIssuer, At, Advances
<1>7. CASE DeleteObjects(w)
  <2>1. l.at = "deleteObjects" /\ l.id \in Issuers /\ l.op = "deleteIssuer"
    BY <1>7, <1>0 DEF DeleteObjects, At, InPlace, IssuerLabels
  <2>2. StateTyped' <=> loc' \in [Workers -> Locals]
    BY <1>7, <1>0, <2>1 DEF DeleteObjects, TypedInv, StateTyped, exports, uses, certs
  <2>3. InPlace([l EXCEPT !.at = "deleteIssuerRow"])
    BY <1>0, <2>1 DEF InPlace, Locals, IssuerLabels, CertLabels
  <2>4. Advances(w)
    BY <1>7, <2>1, <2>3, Relabelling DEF DeleteObjects, At, Goto, Labels
  <2> QED  BY <2>4, <2>2 DEF Advances
<1>8. CASE DeleteIssuerRow(w)
  <2>1. l.at = "deleteIssuerRow" /\ l.id \in Issuers
    BY <1>8, <1>0 DEF DeleteIssuerRow, At, InPlace, IssuerLabels
  <2>2. StateTyped' <=> loc' \in [Workers -> Locals]
    BY <1>8, <1>0, <2>1 DEF DeleteIssuerRow, TypedInv, StateTyped, exports, uses, certs
  <2> QED  BY <1>8, <2>1, <2>2, Returning DEF DeleteIssuerRow, At, Advances
<1>9. CASE DeleteGrant(w)
  <2>2. StateTyped' <=> loc' \in [Workers -> Locals]
    BY <1>9, <1>0 DEF DeleteGrant, TypedInv, StateTyped, exports, uses, certs
  <2> QED  BY <1>9, <2>2, Returning DEF DeleteGrant, At, Advances
<1> QED  BY <1>1, <1>2, <1>4, <1>5, <1>6, <1>7, <1>8, <1>9

LEMMA CertStepsTyped ==
    ASSUME TypedInv, NEW w \in Workers,
           \/ InsertCert(w) \/ NameCert(w) \/ ApplyCert(w) \/ SaveCert(w)
           \/ DeleteCertRow(w) \/ DeleteCrd(w)
    PROVE  Advances(w) /\ StateTyped'
<1> DEFINE l == loc[w]
<1>0. /\ loc \in [Workers -> Locals] /\ InPlace(l) /\ l \in Locals
      /\ l.row \in Rows /\ NoRow \in Rows /\ l.grant \in 0..MaxGrants
      /\ cert \in [Certs -> Rows] /\ grant \in [1..MaxGrants -> Grants]
  BY DEF TypedInv, StateTyped, NoRow, Rows, Locals
<1>b. ASSUME NEW x \in {"issuing", "error"} PROVE [l.row EXCEPT !.status = x] \in Rows /\ [l.row EXCEPT !.status = x].status = x
  BY <1>0 DEF Rows
<1>1. CASE InsertCert(w)
  <2>1. /\ l.at = "insertCert" /\ l.id \in Certs /\ l.op = "createCert"
        /\ l.row.status = "pending"
    BY <1>1, <1>0 DEF InsertCert, At, InPlace, CertLabels
  <2>2. StateTyped' <=> loc' \in [Workers -> Locals]
    BY <1>1, <1>0, <2>1 DEF InsertCert, TypedInv, StateTyped, exports, uses, issuers
  <2>3. CASE Return(w)
    BY <2>1, <2>2, <2>3, Returning DEF At, Advances
  <2>4. CASE loc' = [loc EXCEPT ![w].row.named = TRUE, ![w].at = "nameCert"]
    <3> DEFINE r == [l.row EXCEPT !.named = TRUE]
               m == [l EXCEPT !.at = "nameCert", !.row = r, !.grant = l.grant]
    <3>1. r \in Rows /\ r.status = "pending"
      BY <1>0, <2>1 DEF Rows
    <3>2. loc' = [loc EXCEPT ![w] = m]
      BY <2>4, <1>0 DEF Locals
    <3>3. InPlace(m)
      BY <1>0, <2>1, <3>1 DEF InPlace, Locals, IssuerLabels, CertLabels
    <3>4. Advances(w)
      BY <3>1, <3>2, <3>3, <1>0, <2>1, GoingOn DEF At, Labels, CertLabels
    <3> QED  BY <3>4, <2>2 DEF Advances
  <2> QED  BY <2>3, <2>4, <1>1 DEF InsertCert
<1>2. CASE NameCert(w)
  <2>1. l.at = "nameCert" /\ l.id \in Certs /\ l.op = "createCert"
    BY <1>2, <1>0 DEF NameCert, At, InPlace, CertLabels
  <2>2. StateTyped' <=> loc' \in [Workers -> Locals]
    BY <1>2, <1>0, <2>1 DEF NameCert, StoreCert, TypedInv, StateTyped, exports, uses, issuers
  <2>3. CASE Return(w)
    BY <2>1, <2>2, <2>3, Returning DEF At, Advances
  <2>4. CASE Goto(w, "applyCert")
    <3>1. InPlace([l EXCEPT !.at = "applyCert"])
      BY <1>0, <2>1 DEF InPlace, Locals, IssuerLabels, CertLabels
    <3>2. Advances(w)
      BY <3>1, <2>1, <2>4, Relabelling DEF At, Goto, Labels, CertLabels
    <3> QED  BY <3>2, <2>2 DEF Advances
  <2> QED  BY <2>3, <2>4, <1>2 DEF NameCert
<1>3. CASE ApplyCert(w)
  <2>1. l.at = "applyCert" /\ l.id \in Certs /\ l.op \notin {"revoke", "deleteIssuer"}
    BY <1>3, <1>0 DEF ApplyCert, At, InPlace, CertLabels
  <2>2. StateTyped' <=> loc' \in [Workers -> Locals]
    BY <1>3, <1>0, <2>1 DEF ApplyCert, TypedInv, StateTyped, exports, uses, issuers
  <2>3. PICK x \in {"issuing", "error"} : loc' = [loc EXCEPT ![w].row.status = x, ![w].at = "saveCert"]
    BY <1>3 DEF ApplyCert
  <2> DEFINE r == [l.row EXCEPT !.status = x]
             m == [l EXCEPT !.at = "saveCert", !.row = r, !.grant = l.grant]
  <2>4. loc' = [loc EXCEPT ![w] = m]
    BY <2>3, <1>0 DEF Locals
  <2>5. InPlace(m)
    BY <1>0, <2>1, <1>b DEF InPlace, Locals, IssuerLabels, CertLabels
  <2>6. Advances(w)
    BY <2>4, <2>5, <1>0, <1>b, <2>1, GoingOn DEF At, Labels, CertLabels
  <2> QED  BY <2>6, <2>2 DEF Advances
<1>4. CASE SaveCert(w)
  <2>1. l.at = "saveCert" /\ l.id \in Certs
    BY <1>4, <1>0 DEF SaveCert, At, InPlace, CertLabels
  <2>2. StateTyped' <=> loc' \in [Workers -> Locals]
    BY <1>4, <1>0, <2>1 DEF SaveCert, StoreCert, TypedInv, StateTyped, exports, uses, issuers
  <2> QED  BY <1>4, <2>1, <2>2, Returning DEF SaveCert, At, Advances
<1>5. CASE DeleteCertRow(w)
  <2>1. l.at = "deleteCertRow" /\ l.id \in Certs /\ l.op \notin {"revoke", "deleteIssuer"}
    BY <1>5, <1>0 DEF DeleteCertRow, At, InPlace, CertLabels
  <2>2. cert' \in [Certs -> Rows] /\ grant' \in [1..MaxGrants -> Grants]
    <3>1. \A g \in 1..MaxGrants : [grant[g] EXCEPT !.state = "gone"] \in Grants
      BY <1>0 DEF Grants
    <3> QED  BY <1>5, <1>0, <2>1, <3>1 DEF DeleteCertRow
  <2>3. StateTyped' <=> loc' \in [Workers -> Locals]
    BY <1>5, <2>2 DEF DeleteCertRow, TypedInv, StateTyped, uses, issuers
  <2>4. CASE Return(w)
    BY <2>1, <2>3, <2>4, Returning DEF At, Advances
  <2>5. CASE Goto(w, "deleteCrd")
    <3>1. InPlace([l EXCEPT !.at = "deleteCrd"])
      BY <1>0, <2>1 DEF InPlace, Locals, IssuerLabels, CertLabels
    <3>2. Advances(w)
      BY <3>1, <2>1, <2>5, Relabelling DEF At, Goto, Labels, CertLabels
    <3> QED  BY <3>2, <2>3 DEF Advances
  <2> QED  BY <2>4, <2>5, <1>5 DEF DeleteCertRow
<1>6. CASE DeleteCrd(w)
  <2>2. StateTyped' <=> loc' \in [Workers -> Locals]
    BY <1>6, <1>0 DEF DeleteCrd, TypedInv, StateTyped, exports, uses, issuers
  <2> QED  BY <1>6, <2>2, Returning DEF DeleteCrd, At, Advances
<1> QED  BY <1>1, <1>2, <1>3, <1>4, <1>5, <1>6

LEMMA UseStepsTyped ==
    ASSUME TypedInv, NEW w \in Workers,
           Consume(w) \/ ReadBundle(w) \/ SaveDomain(w) \/ ApplyGateway(w) \/ SaveClient(w)
    PROVE  Advances(w) /\ StateTyped'
<1> DEFINE l == loc[w]
<1>0. /\ loc \in [Workers -> Locals] /\ InPlace(l) /\ l \in Locals
      /\ l.row \in Rows /\ l.grant \in 0..MaxGrants /\ 0 \in 0..MaxGrants /\ l.cert \in Certs \cup {None}
      /\ grant \in [1..MaxGrants -> Grants] /\ downloads \in [Certs \X Users -> Nat]
      /\ domain \in [Domains -> [cert : Certs \cup {None}, secret : Certs \cup {Byo}]]
      /\ live \in [Domains -> Certs \cup {Byo}]
      /\ client \in [Clients -> [cert : Certs \cup {None}, ca : Issuers \cup {None, Byo}]]
  BY BoundsAssumption DEF TypedInv, StateTyped, Locals
<1>1. CASE Consume(w)
  <2>1. l.at = "consume" /\ l.id \in Users /\ l.cert \in Certs /\ l.grant # 0
    BY <1>1, <1>0 DEF Consume, At, InPlace
  <2>2. grant' \in [1..MaxGrants -> Grants]
    <3>1. l.grant \in 1..MaxGrants
      BY <1>0, <2>1, BoundsAssumption
    <3>a. \A g \in 1..MaxGrants : [grant[g] EXCEPT !.state = "used"] \in Grants
      BY <1>0 DEF Grants
    <3>2. [grant[l.grant] EXCEPT !.state = "used"] \in Grants
      BY <3>1, <3>a
    <3> QED  BY <1>1, <1>0, <3>1, <3>2 DEF Consume
  <2>3. StateTyped' <=> loc' \in [Workers -> Locals]
    BY <1>1, <2>2 DEF Consume, TypedInv, StateTyped, uses, issuers, certs
  <2>4. CASE Return(w)
    BY <2>1, <2>3, <2>4, Returning DEF At, Advances
  <2>5. CASE loc' = [loc EXCEPT ![w].grant = 0, ![w].at = "readBundle"]
    <3> DEFINE m == [l EXCEPT !.at = "readBundle", !.row = l.row, !.grant = 0]
    <3>1. loc' = [loc EXCEPT ![w] = m]
      BY <2>5, <1>0 DEF Locals
    <3>2. InPlace(m)
      BY <1>0, <2>1 DEF InPlace, Locals, IssuerLabels, CertLabels
    <3>3. Advances(w)
      BY <3>1, <3>2, <1>0, <2>1, GoingOn DEF At, Labels
    <3> QED  BY <3>3, <2>3 DEF Advances
  <2> QED  BY <2>4, <2>5, <1>1 DEF Consume
<1>2. CASE ReadBundle(w)
  <2>1. l.at = "readBundle" /\ l.id \in Users /\ l.cert \in Certs
    BY <1>2, <1>0 DEF ReadBundle, At, InPlace
  <2>a. <<l.cert, l.id>> \in Certs \X Users
    BY <2>1
  <2>b. downloads' \in [Certs \X Users -> Nat]
    <3>1. PICK e \in Certs \X Users : downloads' = downloads \/ downloads' = [downloads EXCEPT ![e] = @ + 1]
      BY <1>2, <2>a DEF ReadBundle
    <3>2. downloads[e] + 1 \in Nat
      BY <1>0
    <3> QED  BY <3>1, <3>2, <1>0
  <2>2. StateTyped' <=> loc' \in [Workers -> Locals]
    BY <1>2, <2>b DEF ReadBundle, TypedInv, StateTyped, uses, issuers, certs
  <2> QED  BY <1>2, <2>1, <2>2, Returning DEF ReadBundle, At, Advances
<1>3. CASE SaveDomain(w)
  <2>1. l.at = "saveDomain" /\ l.id \in Domains /\ l.other \in Certs \cup {Byo}
    BY <1>3, <1>0 DEF SaveDomain, At, InPlace
  <2>a. domain' \in [Domains -> [cert : Certs \cup {None}, secret : Certs \cup {Byo}]]
    BY <1>3, <1>0, <2>1 DEF SaveDomain
  <2>2. StateTyped' <=> loc' \in [Workers -> Locals]
    BY <1>3, <2>a DEF SaveDomain, TypedInv, StateTyped, exports, issuers, certs
  <2>3. CASE Return(w)
    BY <2>1, <2>2, <2>3, Returning DEF At, Advances
  <2>4. CASE Goto(w, "applyGateway")
    <3>1. InPlace([l EXCEPT !.at = "applyGateway"])
      BY <1>0, <2>1 DEF InPlace, Locals, IssuerLabels, CertLabels
    <3>2. Advances(w)
      BY <3>1, <2>1, <2>4, Relabelling DEF At, Goto, Labels
    <3> QED  BY <3>2, <2>2 DEF Advances
  <2> QED  BY <2>3, <2>4, <1>3 DEF SaveDomain
<1>4. CASE ApplyGateway(w)
  <2>1. l.at = "applyGateway" /\ l.id \in Domains /\ l.other \in Certs \cup {Byo}
    BY <1>4, <1>0 DEF ApplyGateway, At, InPlace
  <2>2. TlsSecret(l.cert, l.other) \in Certs \cup {Byo}
    BY <1>0, <2>1 DEF TlsSecret
  <2>3. StateTyped' <=> loc' \in [Workers -> Locals]
    BY <1>4, <1>0, <2>1, <2>2 DEF ApplyGateway, TypedInv, StateTyped, exports, issuers, certs
  <2> QED  BY <1>4, <2>1, <2>3, Returning DEF ApplyGateway, At, Advances
<1>5. CASE SaveClient(w)
  <2>1. l.at = "saveClient" /\ l.id \in Clients /\ l.other \in Issuers \cup {None, Byo}
    BY <1>5, <1>0 DEF SaveClient, At, InPlace
  <2>2. StateTyped' <=> loc' \in [Workers -> Locals]
    BY <1>5, <1>0, <2>1 DEF SaveClient, TypedInv, StateTyped, exports, issuers, certs
  <2> QED  BY <1>5, <2>1, <2>2, Returning DEF SaveClient, At, Advances
<1> QED  BY <1>1, <1>2, <1>3, <1>4, <1>5

\* The steps of a worker that is busy, and what happens without one.
IssuerStep(w) ==
    \/ InsertIssuer(w) \/ NameIssuer(w) \/ ApplyKeys(w) \/ ApplyIssuer(w) \/ MarkError(w)
    \/ SaveIssuer(w) \/ DeleteObjects(w) \/ DeleteIssuerRow(w) \/ DeleteGrant(w)
CertStep(w) ==
    \/ InsertCert(w) \/ NameCert(w) \/ ApplyCert(w) \/ SaveCert(w) \/ DeleteCertRow(w) \/ DeleteCrd(w)
UseStep(w) == Consume(w) \/ ReadBundle(w) \/ SaveDomain(w) \/ ApplyGateway(w) \/ SaveClient(w)
Step(w) == IssuerStep(w) \/ CertStep(w) \/ UseStep(w)
Elsewhere ==
    \/ \E i \in Issuers, p \in Projects : Grant(i, p)
    \/ \E c \in Certs : RefuseCert(c) \/ Issue(c)
    \/ \E c \in Certs, u \in Users : RequestExport(c, u) \/ DecideExport(c, u)
    \/ \E g \in 1..MaxGrants : Expire(g)
LEMMA NextCases == Next => Elsewhere \/ \E w \in Workers : Request(w) \/ Step(w)
BY DEF Next, Elsewhere, Request, Step, IssuerStep, CertStep, UseStep

LEMMA StepsTyped ==
    ASSUME TypedInv, NEW w \in Workers, Step(w)
    PROVE  Advances(w) /\ TypedInv'
<1>1. Advances(w) /\ StateTyped'
  BY IssuerStepsTyped, CertStepsTyped, UseStepsTyped DEF Step, IssuerStep, CertStep, UseStep
<1> QED  BY <1>1 DEF TypedInv, Advances

LEMMA BeginsTyped ==
    ASSUME TypedInv, NEW w \in Workers, NEW l, Startable(l), Begin(w, l)
    PROVE  TypedInv' /\ loc'[w] = l /\ \A v \in Workers \ {w} : loc'[v] = loc[v]
<1>1. loc' \in [Workers -> Locals] /\ loc'[w] = l /\ (\A v \in Workers \ {w} : loc'[v] = loc[v]) /\ InPlace(l)
  BY DEF Begin, TypedInv, StateTyped, Startable
<1>2. StateTyped'
  BY <1>1 DEF TypedInv, StateTyped, Begin, issuers, certs, exports, uses
<1> QED  BY <1>1, <1>2 DEF TypedInv

\* A grant is minted into a slot that is free.
LEMMA Minting ==
    ASSUME TypedInv, NEW c \in Certs, NEW u \in Users, MintGrant(c, u)
    PROVE  \E g \in 1..MaxGrants :
             /\ grant[g] = NoGrant
             /\ grant' = [grant EXCEPT ![g] = [cert |-> c, user |-> u, state |-> "usable"]]
             /\ approved' = [approved EXCEPT ![<<c, u>>] = @ + 1]
             /\ grant' \in [1..MaxGrants -> Grants] /\ approved' \in [Certs \X Users -> Nat]
<1>0. grant \in [1..MaxGrants -> Grants] /\ approved \in [Certs \X Users -> Nat] /\ <<c, u>> \in Certs \X Users
  BY DEF TypedInv, StateTyped
<1>1. PICK g \in 1..MaxGrants :
         /\ grant[g] = NoGrant
         /\ grant' = [grant EXCEPT ![g] = [cert |-> c, user |-> u, state |-> "usable"]]
         /\ approved' = [approved EXCEPT ![<<c, u>>] = @ + 1]
  BY <1>0 DEF MintGrant
<1>2. [cert |-> c, user |-> u, state |-> "usable"] \in Grants
  BY DEF Grants
<1>3. PICK e \in Certs \X Users : e = <<c, u>>
  BY <1>0
<1>4. approved[e] + 1 \in Nat
  BY <1>0
<1> QED  BY <1>0, <1>1, <1>2, <1>3, <1>4

LEMMA ElsewhereTyped ==
    ASSUME TypedInv, Elsewhere
    PROVE  TypedInv' /\ loc' = loc
<1>0. /\ cert \in [Certs -> Rows] /\ NoRow \in Rows /\ grant \in [1..MaxGrants -> Grants]
  BY DEF TypedInv, StateTyped, NoRow, Rows
<1>1. CASE \E i \in Issuers, p \in Projects : Grant(i, p)
  BY <1>1 DEF Grant, TypedInv, StateTyped, certs, exports, uses
<1>2. CASE \E c \in Certs : RefuseCert(c)
  <2>1. PICK c \in Certs : RefuseCert(c)
    BY <1>2
  <2>2. [cert[c] EXCEPT !.status = "error"] \in Rows
    BY <1>0 DEF Rows
  <2>3. cert' \in [Certs -> Rows]
    BY <2>1, <2>2, <1>0 DEF RefuseCert
  <2> QED  BY <2>1, <2>3 DEF RefuseCert, TypedInv, StateTyped, issuers, exports, uses
<1>3. CASE \E c \in Certs : Issue(c)
  BY <1>3 DEF Issue, TypedInv, StateTyped, issuers, exports, uses
<1>4. CASE \E c \in Certs, u \in Users : RequestExport(c, u) \/ DecideExport(c, u)
  <2>1. PICK c \in Certs, u \in Users : RequestExport(c, u) \/ DecideExport(c, u)
    BY <1>4
  <2>2. MintGrant(c, u) \/ UNCHANGED <<grant, approved>>
    BY <2>1 DEF RequestExport, DecideExport
  <2>3. grant' \in [1..MaxGrants -> Grants] /\ approved' \in [Certs \X Users -> Nat]
    BY <2>2, Minting DEF TypedInv, StateTyped
  <2>4. UNCHANGED <<issuers, certs, downloads, uses, bounds, loc, blurred>>
    BY <2>1 DEF RequestExport, DecideExport
  <2> QED  BY <2>3, <2>4 DEF TypedInv, StateTyped, issuers, certs, uses
<1>5. CASE \E g \in 1..MaxGrants : Expire(g)
  <2>1. PICK g \in 1..MaxGrants : Expire(g)
    BY <1>5
  <2>2. [grant[g] EXCEPT !.state = "expired"] \in Grants
    BY <1>0 DEF Grants
  <2>3. grant' \in [1..MaxGrants -> Grants]
    BY <2>1, <2>2, <1>0 DEF Expire
  <2> QED  BY <2>1, <2>3 DEF Expire, TypedInv, StateTyped, issuers, certs, uses
<1> QED  BY <1>1, <1>2, <1>3, <1>4, <1>5 DEF Elsewhere

---------------------------------------------------------------------------
\* What was blurred stays so.
LEMMA BlurredGrows ==
    ASSUME NEW w \in Workers, Step(w)
    PROVE  blurred \subseteq blurred'
<1>1. CASE IssuerStep(w)
  BY <1>1 DEF IssuerStep, InsertIssuer, NameIssuer, ApplyKeys, ApplyIssuer, ApplyPart, MarkError, SaveIssuer,
              DeleteObjects, DeleteIssuerRow, DeleteGrant, Blur
<1>2. CASE CertStep(w)
  BY <1>2 DEF CertStep, InsertCert, NameCert, StoreCert, ApplyCert, SaveCert, DeleteCertRow, DeleteCrd
<1>3. CASE UseStep(w)
  BY <1>3 DEF UseStep, Consume, ReadBundle, SaveDomain, ApplyGateway, SaveClient, Blur
<1> QED  BY <1>1, <1>2, <1>3 DEF Step

LEMMA BusyIsNotIdle ==
    ASSUME TypedInv, NEW w \in Workers
    PROVE  loc[w] # Idle <=> ~At(w, "idle")
BY DEF TypedInv, InPlace, At, Idle

LEMMA AloneKept ==
    ASSUME TypedInv, Alone, Next
    PROVE  Alone'
<1>1. CASE Elsewhere
  <2>1. loc' = loc
    BY <1>1, ElsewhereTyped
  <2>2. blurred' = blurred
    BY <1>1 DEF Elsewhere, Grant, RefuseCert, Issue, RequestExport, DecideExport, Expire
  <2> QED  BY <2>1, <2>2 DEF Alone, At
<1>2. ASSUME NEW w \in Workers, Request(w)
      PROVE  Alone'
  <2>1. PICK l : Startable(l) /\ Begin(w, l)
    BY <1>2, RequestsStart
  <2>2. TypedInv' /\ loc'[w] = l /\ \A v \in Workers \ {w} : loc'[v] = loc[v]
    BY <2>1, BeginsTyped
  <2>3. \A v \in Workers : ~At(v, "idle") /\ loc[v].id = l.id => l.id \in blurred'
    BY <2>1, BusyIsNotIdle DEF Begin
  <2>4. blurred \subseteq blurred' /\ At(w, "idle")
    BY <2>1 DEF Begin
  <2> QED  BY <2>2, <2>3, <2>4 DEF Alone, At
<1>3. ASSUME NEW w \in Workers, Step(w)
      PROVE  Alone'
  <2>1. Advances(w) /\ blurred \subseteq blurred'
    BY <1>3, StepsTyped, BlurredGrows
  <2> QED  BY <2>1 DEF Alone, At, Advances, Idle
<1> QED  BY <1>1, <1>2, <1>3, NextCases

---------------------------------------------------------------------------
\* The unique index refuses a certificate that another client has.
LEMMA OneClientKept ==
    ASSUME TypedInv, OneClientPerCertificate, Next
    PROVE  OneClientPerCertificate'
<1>1. CASE \E w \in Workers : SaveClient(w)
  <2>1. PICK w \in Workers : SaveClient(w)
    BY <1>1
  <2>2. PICK l \in Locals : l = loc[w]
    BY DEF TypedInv, StateTyped
  <2>3. client \in [Clients -> [cert : Certs \cup {None}, ca : Issuers \cup {None, Byo}]] /\ l.id \in Clients
    BY <2>1, <2>2 DEF TypedInv, StateTyped, InPlace, SaveClient, At
  <2>4. CASE client' = client
    BY <2>4 DEF OneClientPerCertificate
  <2>5. CASE /\ client' = [client EXCEPT ![l.id] = [cert |-> l.cert, ca |-> l.other]]
             /\ UniqueManagedCertificate(l.id, l.cert)
    <3>1. client'[l.id].cert = l.cert /\ \A k \in Clients \ {l.id} : client'[k] = client[k]
      BY <2>5, <2>3
    <3>2. l.cert = None \/ \A j \in Clients \ {l.id} : client[j].cert # l.cert
      BY <2>5 DEF UniqueManagedCertificate
    <3> QED  BY <3>1, <3>2, <2>3 DEF OneClientPerCertificate
  <2> QED  BY <2>1, <2>2, <2>4, <2>5 DEF SaveClient
<1>2. ASSUME client' = client
      PROVE  OneClientPerCertificate'
  BY <1>2 DEF OneClientPerCertificate
<1>3. CASE Elsewhere
  <2>1. client' = client
    BY <1>3 DEF Elsewhere, Grant, RefuseCert, Issue, RequestExport, DecideExport, Expire, uses
  <2> QED  BY <2>1, <1>2
<1>4. ASSUME NEW w \in Workers, Request(w)
      PROVE  OneClientPerCertificate'
  BY <1>4, <1>2, RequestsStart DEF Begin, uses
<1>5. ASSUME NEW w \in Workers, Step(w), ~SaveClient(w)
      PROVE  OneClientPerCertificate'
  <2>1. CASE IssuerStep(w)
    BY <2>1, <1>2 DEF IssuerStep, InsertIssuer, NameIssuer, ApplyKeys, ApplyIssuer, ApplyPart, MarkError,
                SaveIssuer, DeleteObjects, DeleteIssuerRow, DeleteGrant, uses
  <2>2. CASE CertStep(w)
    BY <2>2, <1>2 DEF CertStep, InsertCert, NameCert, ApplyCert, SaveCert, DeleteCertRow, DeleteCrd, uses
  <2>3. CASE UseStep(w)
    BY <2>3, <1>2, <1>5 DEF UseStep, Consume, ReadBundle, SaveDomain, ApplyGateway, uses
  <2> QED  BY <2>1, <2>2, <2>3, <1>5 DEF Step
<1> QED  BY <1>1, <1>3, <1>4, <1>5, NextCases

---------------------------------------------------------------------------
\* The label at which each step is taken, by the label it leads to.
Follows(a, b) ==
    /\ b \notin {"insertIssuer", "deleteObjects", "deleteGrant", "insertCert", "deleteCertRow", "consume",
                 "saveDomain", "saveClient"}
    /\ b = "nameIssuer" => a = "insertIssuer"
    /\ b = "applyKeys" => a = "nameIssuer"
    /\ b = "applyIssuer" => a = "applyKeys"
    /\ b = "saveIssuer" => a \in {"applyKeys", "applyIssuer"}
    /\ b = "deleteIssuerRow" => a = "deleteObjects"
    /\ b = "nameCert" => a = "insertCert"
    /\ b = "applyCert" => a = "nameCert"
    /\ b = "saveCert" => a = "applyCert"
    /\ b = "deleteCrd" => a = "deleteCertRow"
    /\ b = "readBundle" => a = "consume"
    /\ b = "applyGateway" => a = "saveDomain"
LEMMA StepLabels ==
    ASSUME TypedInv, NEW w \in Workers, Step(w)
    PROVE  Follows(loc[w].at, loc'[w].at)
<1>0. loc \in [Workers -> Locals]
  BY DEF TypedInv, StateTyped
<1>1. ASSUME Return(w)
      PROVE  Follows(loc[w].at, loc'[w].at)
  BY <1>0, <1>1 DEF Return, Idle, Follows
<1>2. ASSUME NEW b, Goto(w, b), Follows(loc[w].at, b)
      PROVE  Follows(loc[w].at, loc'[w].at)
  <2>1. loc'[w].at = b
    BY <1>0, <1>2 DEF Goto, Locals
  <2> QED  BY <2>1, <1>2
<1>3. CASE InsertIssuer(w) \/ ApplyKeys(w) \/ ApplyIssuer(w) \/ MarkError(w)
  <2>1. CASE InsertIssuer(w)
    BY <1>0, <1>1, <2>1 DEF InsertIssuer, At, Locals, Follows
  <2>2. CASE ApplyKeys(w) \/ ApplyIssuer(w)
    BY <1>0, <2>2 DEF ApplyKeys, ApplyIssuer, ApplyPart, At, Locals, Follows
  <2>3. CASE MarkError(w)
    BY <1>0, <2>3 DEF MarkError, Locals, Follows
  <2> QED  BY <1>3, <2>1, <2>2, <2>3
<1>4. CASE NameIssuer(w) \/ DeleteObjects(w)
  BY <1>1, <1>2, <1>4 DEF NameIssuer, DeleteObjects, At, Follows
<1>5. CASE SaveIssuer(w) \/ DeleteIssuerRow(w) \/ DeleteGrant(w) \/ SaveCert(w) \/ DeleteCrd(w)
             \/ ReadBundle(w) \/ ApplyGateway(w) \/ SaveClient(w)
  BY <1>1, <1>5 DEF SaveIssuer, DeleteIssuerRow, DeleteGrant, SaveCert, DeleteCrd, ReadBundle,
                    ApplyGateway, SaveClient
<1>6. CASE NameCert(w) \/ DeleteCertRow(w) \/ SaveDomain(w)
  BY <1>1, <1>2, <1>6 DEF NameCert, DeleteCertRow, SaveDomain, At, Follows
<1>7. CASE InsertCert(w) \/ Consume(w)
  BY <1>0, <1>1, <1>7 DEF InsertCert, Consume, At, Locals, Follows
<1>8. CASE ApplyCert(w)
  BY <1>0, <1>8 DEF ApplyCert, At, Locals, Follows
<1> QED  BY <1>3, <1>4, <1>5, <1>6, <1>7, <1>8 DEF Step, IssuerStep, CertStep, UseStep

\* A row that a save inserts again blurs the certificate and its issuer.
Reappears == \A c \in Certs : cert[c] = NoRow /\ cert'[c] # NoRow => {c, IssuerOf[c]} \subseteq blurred'
LEMMA StoreBlurs ==
    ASSUME TypedInv, NEW w \in Workers, loc[w].id \in Certs, StoreCert(w)
    PROVE  Reappears
BY DEF Reappears, StoreCert, TypedInv, StateTyped

---------------------------------------------------------------------------
\* Issuers: what keeps each part of the invariant.
LEMMA CountsKept ==
    ASSUME TypedInv, CountsHold, blurred \subseteq blurred',
           \A v \in Workers : loc'[v] = loc[v] \/ (loc[v].id \notin blurred => Counted(loc[v]))',
           \A c \in Certs, v \in Workers :
              cert[c] = NoRow /\ cert'[c] # NoRow /\ loc[v].id = IssuerOf[c]
                /\ loc[v].op \in {"revoke", "deleteIssuer"} => IssuerOf[c] \in blurred'
    PROVE  CountsHold'
<1> SUFFICES ASSUME NEW v \in Workers, loc'[v] = loc[v], loc[v].id \notin blurred'
             PROVE  Counted(loc[v])'
  BY DEF CountsHold
<1>1. Counted(loc[v]) /\ InPlace(loc[v])
  BY DEF CountsHold, TypedInv
<1>2. ASSUME loc[v].at \in {"deleteObjects", "deleteIssuerRow"}
      PROVE  CountByIssuer(loc[v].id)' = {}
  <2>1. CountByIssuer(loc[v].id) = {} /\ loc[v].op = "deleteIssuer"
    BY <1>1, <1>2 DEF Counted, InPlace
  <2> QED  BY <2>1 DEF CountByIssuer
<1>3. ASSUME loc[v].at = "deleteGrant", NEW c \in CountByIssuer(loc[v].id)'
      PROVE  ProjectOf[c] # loc[v].project
  <2>1. /\ \A e \in CountByIssuer(loc[v].id) : ProjectOf[e] # loc[v].project
        /\ loc[v].op = "revoke"
    BY <1>1, <1>3 DEF Counted, InPlace
  <2>2. c \in Certs /\ cert'[c] # NoRow /\ IssuerOf[c] = loc[v].id
    BY <1>3 DEF CountByIssuer
  <2>3. cert[c] # NoRow
    BY <2>1, <2>2
  <2> QED  BY <2>1, <2>2, <2>3 DEF CountByIssuer
<1> QED  BY <1>2, <1>3 DEF Counted

LEMMA PartsKept ==
    ASSUME TypedInv, TypedInv', PartsApplied, blurred \subseteq blurred',
           \A v \in Workers : loc'[v] = loc[v] \/ (loc[v].id \notin blurred => Applied(loc[v]))',
           \A v \in Workers : loc[v].at \in {"applyIssuer", "saveIssuer"} =>
              objects[loc[v].id] \subseteq objects'[loc[v].id] \/ loc[v].id \in blurred' \/ loc'[v] # loc[v]
    PROVE  PartsApplied'
<1> SUFFICES ASSUME NEW v \in Workers, loc'[v] = loc[v], loc[v].id \notin blurred'
             PROVE  Applied(loc[v])'
  BY DEF PartsApplied
<1>1. Applied(loc[v]) /\ InPlace(loc[v])
  BY DEF PartsApplied, TypedInv
<1>2. CASE loc[v].at \in {"applyIssuer", "saveIssuer"}
  <2>1. loc[v].id \in Issuers /\ objects' \in [Issuers -> SUBSET Parts]
    BY <1>1, <1>2 DEF InPlace, IssuerLabels, TypedInv, StateTyped
  <2>2. objects[loc[v].id] \subseteq objects'[loc[v].id]
    BY <1>2
  <2>3. objects[loc[v].id] = Parts => objects'[loc[v].id] = Parts
    BY <2>1, <2>2
  <2>4. "keys" \in objects[loc[v].id] => "keys" \in objects'[loc[v].id]
    BY <2>2
  <2> QED  BY <1>1, <2>3, <2>4 DEF Applied
<1> QED  BY <1>2 DEF Applied

LEMMA WholeKept ==
    ASSUME ReadyIsWhole, blurred \subseteq blurred', UNCHANGED <<issuer, objects>>,
           \A v \in Workers : loc'[v] = loc[v] \/ loc[v].at # "deleteIssuerRow"
    PROVE  ReadyIsWhole'
<1>1. ASSUME NEW i \in Issuers, NEW v \in Workers, At(v, "deleteIssuerRow"), loc[v].id = i
      PROVE  At(v, "deleteIssuerRow")' /\ loc'[v].id = i
  BY <1>1 DEF At
<1> QED  BY <1>1 DEF ReadyIsWhole

LEMMA GrantedKept ==
    ASSUME CertsGranted, blurred \subseteq blurred', granted \subseteq granted',
           Reappears
    PROVE  CertsGranted'
BY DEF CertsGranted, Reappears

\* Steps of a worker that is no issuer's lose nothing.
LEMMA NotCounting ==
    ASSUME NEW l, l.at \notin {"deleteObjects", "deleteIssuerRow", "deleteGrant", "applyIssuer", "saveIssuer"}
    PROVE  Counted(l) /\ Applied(l)
BY DEF Counted, Applied

\* A step of another kind of request leaves the issuers alone.
LEMMA IssuersKept ==
    ASSUME TypedInv, TypedInv', IssuerInv, blurred \subseteq blurred', UNCHANGED issuers, CertsGranted',
           \A v \in Workers : \/ loc'[v] = loc[v]
                              \/ /\ loc[v].at # "deleteIssuerRow"
                                 /\ loc'[v].at \notin {"deleteObjects", "deleteIssuerRow", "deleteGrant",
                                                       "applyIssuer", "saveIssuer"},
           \A c \in Certs, v \in Workers :
              cert[c] = NoRow /\ cert'[c] # NoRow /\ loc[v].id = IssuerOf[c]
                /\ loc[v].op \in {"revoke", "deleteIssuer"} => IssuerOf[c] \in blurred'
    PROVE  IssuerInv'
<1>1. \A v \in Workers : loc'[v] = loc[v] \/ (Counted(loc[v]) /\ Applied(loc[v]))'
  BY DEF Counted, Applied
<1>2. CountsHold'
  BY <1>1, CountsKept DEF IssuerInv
<1>3. PartsApplied'
  BY <1>1, PartsKept DEF IssuerInv, issuers
<1>4. ReadyIsWhole'
  BY WholeKept DEF IssuerInv, issuers
<1> QED  BY <1>2, <1>3, <1>4 DEF IssuerInv

LEMMA IssuerKeptElsewhere ==
    ASSUME TypedInv, IssuerInv, Elsewhere
    PROVE  IssuerInv'
<1>1. TypedInv' /\ loc' = loc
  BY ElsewhereTyped
<1>2. blurred' = blurred /\ UNCHANGED <<issuer, objects>> /\ granted \subseteq granted'
  BY DEF Elsewhere, Grant, RefuseCert, Issue, RequestExport, DecideExport, Expire, issuers
<1>3. \A c \in Certs : cert[c] = NoRow => cert'[c] = NoRow
  <2>1. CASE \E c \in Certs : RefuseCert(c)
    <3>1. PICK c \in Certs : RefuseCert(c)
      BY <2>1
    <3>2. cert[c].status # None /\ cert \in [Certs -> Rows]
      BY <3>1 DEF RefuseCert, None, TypedInv, StateTyped
    <3>3. cert[c] # NoRow
      BY <3>2 DEF NoRow
    <3> QED  BY <3>1, <3>2, <3>3 DEF RefuseCert
  <2>2. CASE cert' = cert
    BY <2>2
  <2> QED  BY <2>1, <2>2 DEF Elsewhere, Grant, Issue, RequestExport, DecideExport, Expire, certs
<1>4. CertsGranted'
  BY <1>2, <1>3, GrantedKept DEF IssuerInv, Reappears
<1>5. CountsHold'
  BY <1>1, <1>2, <1>3, CountsKept DEF IssuerInv
<1>6. PartsApplied'
  BY <1>1, <1>2, PartsKept DEF IssuerInv
<1>7. ReadyIsWhole'
  BY <1>1, <1>2, WholeKept DEF IssuerInv
<1> QED  BY <1>4, <1>5, <1>6, <1>7 DEF IssuerInv

LEMMA IssuerKeptByRequests ==
    ASSUME TypedInv, IssuerInv, NEW w \in Workers, Request(w)
    PROVE  IssuerInv'
<1>1. PICK l : Startable(l) /\ Begin(w, l)
  BY RequestsStart
<1>2. TypedInv' /\ loc'[w] = l /\ \A v \in Workers \ {w} : loc'[v] = loc[v]
  BY <1>1, BeginsTyped
<1>3. UNCHANGED <<issuer, objects, granted, cert>> /\ blurred \subseteq blurred' /\ loc[w].at = "idle"
  BY <1>1 DEF Begin, issuers, certs, At
<1>4. l.at \notin {"applyIssuer", "saveIssuer"} /\ Counted(l)
  BY <1>1 DEF Startable
<1>5. (Counted(loc[w]) /\ Applied(loc[w]))'
  BY <1>2, <1>3, <1>4 DEF Counted, Applied, CountByIssuer
<1>6. CountsHold'
  BY <1>2, <1>3, <1>5, CountsKept DEF IssuerInv
<1>7. PartsApplied'
  BY <1>2, <1>3, <1>5, PartsKept DEF IssuerInv
<1>8. ReadyIsWhole'
  BY <1>2, <1>3, WholeKept DEF IssuerInv
<1>9. CertsGranted'
  BY <1>3, GrantedKept DEF IssuerInv, Reappears
<1> QED  BY <1>6, <1>7, <1>8, <1>9 DEF IssuerInv

LEMMA IssuerKeptByOthers ==
    ASSUME TypedInv, IssuerInv, NEW w \in Workers, CertStep(w) \/ UseStep(w)
    PROVE  IssuerInv'
<1>1. Advances(w) /\ TypedInv' /\ blurred \subseteq blurred' /\ Follows(loc[w].at, loc'[w].at)
  BY StepsTyped, BlurredGrows, StepLabels DEF Step
<1>2. loc[w].at \in CertLabels \cup {"consume", "readBundle", "saveDomain", "applyGateway", "saveClient"}
  BY DEF CertStep, UseStep, InsertCert, NameCert, ApplyCert, SaveCert, DeleteCertRow, DeleteCrd,
         Consume, ReadBundle, SaveDomain, ApplyGateway, SaveClient, At, CertLabels
<1>3. \A v \in Workers : \/ loc'[v] = loc[v]
                         \/ /\ loc[v].at # "deleteIssuerRow"
                            /\ loc'[v].at \notin {"deleteObjects", "deleteIssuerRow", "deleteGrant",
                                                  "applyIssuer", "saveIssuer"}
  BY <1>1, <1>2 DEF Advances, Follows, CertLabels
<1>4. UNCHANGED issuers
  <2>1. CASE CertStep(w)
    BY <2>1 DEF CertStep, InsertCert, NameCert, ApplyCert, SaveCert, DeleteCertRow, DeleteCrd
  <2>2. CASE UseStep(w)
    BY <2>2 DEF UseStep, Consume, ReadBundle, SaveDomain, ApplyGateway, SaveClient
  <2> QED  BY <2>1, <2>2
<1>5. CASE InsertCert(w)
  <2>1. PICK c \in Certs : c = loc[w].id
    BY <1>5 DEF InsertCert, At, TypedInv, InPlace, CertLabels
  <2>2. cert \in [Certs -> Rows] /\ \A e \in Certs \ {c} : cert'[e] = cert[e]
    BY <1>5, <2>1 DEF InsertCert, TypedInv, StateTyped
  <2>3. /\ Counting(IssuerOf[c]) => {c, IssuerOf[c]} \subseteq blurred'
        /\ <<IssuerOf[c], ProjectOf[c]>> \notin granted => {c, IssuerOf[c]} \subseteq blurred'
    BY <1>5, <2>1 DEF InsertCert
  <2>4. CertsGranted'
    BY <1>1, <1>4, <2>2, <2>3 DEF IssuerInv, CertsGranted, issuers
  <2> QED  BY <1>1, <1>3, <1>4, <2>2, <2>3, <2>4, IssuersKept DEF Counting
<1>6. ASSUME Reappears
      PROVE  IssuerInv'
  <2>1. CertsGranted'
    BY <1>1, <1>4, <1>6, GrantedKept DEF IssuerInv, issuers
  <2> QED  BY <1>1, <1>3, <1>4, <1>6, <2>1, IssuersKept DEF Reappears
<1>7. CASE NameCert(w) \/ SaveCert(w)
  <2>1. loc[w].id \in Certs
    BY <1>7 DEF NameCert, SaveCert, At, TypedInv, InPlace, CertLabels
  <2>2. StoreCert(w) \/ cert' = cert
    BY <1>7 DEF NameCert, SaveCert
  <2> QED  BY <1>6, <2>1, <2>2, StoreBlurs DEF Reappears
<1>8. CASE DeleteCertRow(w)
  <2>1. \A c \in Certs : cert[c] = NoRow => cert'[c] = NoRow
    BY <1>8 DEF DeleteCertRow, TypedInv, StateTyped
  <2> QED  BY <2>1, <1>6 DEF Reappears
<1>9. CASE cert' = cert
  BY <1>9, <1>6 DEF Reappears
<1> QED  BY <1>5, <1>7, <1>8, <1>9 DEF CertStep, UseStep, ApplyCert, DeleteCrd,
            Consume, ReadBundle, SaveDomain, ApplyGateway, SaveClient, certs

LEMMA IssuerKeptByIssuers ==
    ASSUME TypedInv, Alone, IssuerInv, NEW w \in Workers, IssuerStep(w)
    PROVE  IssuerInv'
<1>1. /\ Advances(w) /\ TypedInv' /\ blurred \subseteq blurred' /\ Follows(loc[w].at, loc'[w].at)
      /\ loc[w] \in Locals /\ loc \in [Workers -> Locals] /\ InPlace(loc[w])
  BY StepsTyped, BlurredGrows, StepLabels DEF Step, TypedInv, StateTyped
<1>2. cert' = cert
  BY DEF IssuerStep, InsertIssuer, NameIssuer, ApplyKeys, ApplyIssuer, ApplyPart, MarkError, SaveIssuer,
         DeleteObjects, DeleteIssuerRow, DeleteGrant, certs
<1>3. PICK i \in Issuers : i = loc[w].id
  BY <1>1 DEF IssuerStep, InsertIssuer, NameIssuer, ApplyKeys, ApplyIssuer, MarkError, SaveIssuer,
         DeleteObjects, DeleteIssuerRow, DeleteGrant, At, InPlace, IssuerLabels
<1>4. /\ issuer \in [Issuers -> Rows] /\ objects \in [Issuers -> SUBSET Parts]
      /\ objects' \in [Issuers -> SUBSET Parts]
  BY <1>1 DEF TypedInv, StateTyped
<1>5. CountsHold'
  <2>1. (loc[w].id \notin blurred => Counted(loc[w]))'
    <3>1. CASE loc'[w].at = "deleteIssuerRow"
      <4>1. loc[w].at = "deleteObjects" /\ loc'[w].id = i
        BY <1>1, <1>3, <3>1 DEF Follows, Advances, Idle
      <4>2. i \notin blurred => CountByIssuer(i) = {}
        BY <1>3, <4>1 DEF IssuerInv, CountsHold, Counted
      <4> QED  BY <1>1, <1>2, <3>1, <4>1, <4>2 DEF Counted, CountByIssuer
    <3>2. CASE loc'[w].at # "deleteIssuerRow"
      BY <1>1, <3>2 DEF Counted, Follows
    <3> QED  BY <3>1, <3>2
  <2> QED  BY <1>1, <1>2, <2>1, CountsKept DEF IssuerInv, Advances
<1>6. PartsApplied'
  <2>1. ASSUME NEW v \in Workers, loc[v].at \in {"applyIssuer", "saveIssuer"}
        PROVE  objects[loc[v].id] \subseteq objects'[loc[v].id] \/ loc[v].id \in blurred' \/ loc'[v] # loc[v]
    <3>1. CASE DeleteObjects(w)
      <4>1. v # w /\ ~At(v, "idle") /\ ~At(w, "idle")
        BY <2>1, <3>1 DEF DeleteObjects, At
      <4>2. loc[v].id = i => i \in blurred'
        BY <4>1, <1>1, <1>3 DEF Alone
      <4>3. \A j \in Issuers \ {i} : objects'[j] = objects[j]
        BY <3>1, <1>3, <1>4 DEF DeleteObjects
      <4>4. loc[v].id \in Issuers
        BY <2>1 DEF TypedInv, InPlace, IssuerLabels
      <4> QED  BY <4>2, <4>3, <4>4
    <3>2. CASE ~DeleteObjects(w)
      <4>1. \A j \in Issuers : objects[j] \subseteq objects'[j]
        BY <3>2, <1>4 DEF IssuerStep, InsertIssuer, NameIssuer, ApplyKeys, ApplyIssuer, ApplyPart, MarkError,
              SaveIssuer, DeleteIssuerRow, DeleteGrant, issuers
      <4>2. loc[v].id \in Issuers
        BY <2>1 DEF TypedInv, InPlace, IssuerLabels
      <4> QED  BY <4>1, <4>2
    <3> QED  BY <3>1, <3>2
  <2>2. (loc[w].id \notin blurred => Applied(loc[w]))'
    <3>1. CASE ApplyKeys(w)
      <4>1. loc'[w].at = "applyIssuer" /\ loc'[w].id = i /\ "keys" \in objects'[i]
        BY <3>1, <1>1, <1>3, <1>4 DEF ApplyKeys, ApplyPart, Locals
      <4> QED  BY <4>1 DEF Applied
    <3>2. CASE ApplyIssuer(w)
      <4>1. loc'[w].at = "saveIssuer" /\ loc'[w].id = i /\ objects'[i] = objects[i] \cup {"issuer"}
        BY <3>2, <1>1, <1>3, <1>4 DEF ApplyIssuer, ApplyPart, Locals
      <4>2. i \notin blurred => "keys" \in objects[i]
        BY <3>2, <1>3 DEF ApplyIssuer, At, IssuerInv, PartsApplied, Applied
      <4>3. i \notin blurred => objects'[i] = Parts
        BY <4>1, <4>2, <1>4 DEF Parts
      <4> QED  BY <1>1, <4>1, <4>3 DEF Applied
    <3>3. CASE MarkError(w)
      <4>1. loc'[w].at = "saveIssuer" /\ loc'[w].row.status = "error"
        BY <3>3, <1>1 DEF MarkError, Locals, Rows
      <4> QED  BY <4>1 DEF Applied
    <3>4. CASE ~(ApplyKeys(w) \/ ApplyIssuer(w) \/ MarkError(w))
      <4>1. loc[w].at \notin {"applyKeys", "applyIssuer"}
        BY <3>4 DEF IssuerStep, InsertIssuer, NameIssuer, SaveIssuer, DeleteObjects, DeleteIssuerRow,
                    DeleteGrant, At
      <4>2. loc'[w].at \notin {"applyIssuer", "saveIssuer"}
        BY <4>1, <1>1 DEF Follows
      <4> QED  BY <4>2 DEF Applied
    <3> QED  BY <3>1, <3>2, <3>3, <3>4
  <2> QED  BY <1>1, <2>1, <2>2, PartsKept DEF IssuerInv, Advances
<1>7. ReadyIsWhole'
  <2> SUFFICES ASSUME NEW j \in Issuers, j \notin blurred', issuer'[j].status = "ready",
                      \A v \in Workers : ~(At(v, "deleteIssuerRow")' /\ loc'[v].id = j)
               PROVE  objects'[j] = Parts
    BY DEF ReadyIsWhole
  <2>0. j \notin blurred /\ \A v \in Workers \ {w} : ~(At(v, "deleteIssuerRow") /\ loc[v].id = j)
    BY <1>1 DEF Advances, At
  <2>1. CASE j # i
    <3>1. issuer'[j] = issuer[j] /\ objects'[j] = objects[j]
      BY <2>1, <1>3, <1>4 DEF IssuerStep, InsertIssuer, NameIssuer, ApplyKeys, ApplyIssuer, ApplyPart, MarkError,
         SaveIssuer, DeleteObjects, DeleteIssuerRow, DeleteGrant, issuers
    <3>2. \A v \in Workers : ~(At(v, "deleteIssuerRow") /\ loc[v].id = j)
      BY <2>0, <2>1, <1>3
    <3> QED  BY <3>1, <3>2, <2>0 DEF IssuerInv, ReadyIsWhole
  <2>2. CASE j = i /\ (InsertIssuer(w) \/ NameIssuer(w))
    <3>1. loc[w].row.status = "pending" /\ loc[w].at # "deleteIssuerRow"
      BY <2>2, <1>1 DEF InsertIssuer, NameIssuer, At, InPlace, IssuerLabels
    <3>2. issuer'[i] = issuer[i] /\ objects' = objects
      BY <2>2, <3>1, <1>3, <1>4 DEF InsertIssuer, NameIssuer
    <3> QED  BY <2>0, <2>2, <3>1, <3>2 DEF IssuerInv, ReadyIsWhole, At
  <2>3. CASE j = i /\ (ApplyKeys(w) \/ ApplyIssuer(w) \/ MarkError(w))
    <3>1. /\ objects[i] \subseteq objects'[i] /\ issuer' = issuer /\ loc[w].at # "deleteIssuerRow"
      BY <2>3, <1>3, <1>4 DEF ApplyKeys, ApplyIssuer, ApplyPart, MarkError, issuers, At
    <3>2. objects[i] = Parts
      BY <2>0, <2>3, <3>1 DEF IssuerInv, ReadyIsWhole, At
    <3> QED  BY <2>3, <3>1, <3>2, <1>4
  <2>4. CASE j = i /\ SaveIssuer(w)
    <3>1. loc[w].at = "saveIssuer" /\ objects' = objects
      BY <2>4 DEF SaveIssuer, At
    <3>2. CASE issuer' = issuer
      BY <2>0, <2>4, <3>1, <3>2 DEF IssuerInv, ReadyIsWhole, At
    <3>3. CASE issuer' = [issuer EXCEPT ![i] = loc[w].row]
      <4>1. loc[w].row.status = "ready"
        BY <2>4, <3>3, <1>4
      <4> QED  BY <2>0, <2>4, <3>1, <4>1, <1>3 DEF IssuerInv, PartsApplied, Applied
    <3> QED  BY <2>4, <3>2, <3>3, <1>3 DEF SaveIssuer
  <2>5. CASE j = i /\ DeleteObjects(w)
    <3>1. At(w, "deleteIssuerRow")' /\ loc'[w].id = i
      BY <2>5, <1>1, <1>3 DEF DeleteObjects, Goto, At, Locals
    <3> QED  BY <3>1, <2>5
  <2>6. CASE j = i /\ DeleteIssuerRow(w)
    <3>1. CountByIssuer(i) = {}
      BY <2>0, <2>6, <1>3 DEF DeleteIssuerRow, At, IssuerInv, CountsHold, Counted
    <3>2. issuer'[i] = NoRow
      BY <2>6, <3>1, <1>3, <1>4 DEF DeleteIssuerRow
    <3> QED  BY <2>6, <3>2 DEF NoRow, None
  <2>7. CASE j = i /\ DeleteGrant(w)
    BY <2>0, <2>7 DEF DeleteGrant, IssuerInv, ReadyIsWhole, At
  <2> QED  BY <2>1, <2>2, <2>3, <2>4, <2>5, <2>6, <2>7 DEF IssuerStep
<1>8. CertsGranted'
  <2>1. CASE DeleteIssuerRow(w)
    <3>1. granted' = granted \/ (CountByIssuer(i) = {} /\ granted' = {g \in granted : g[1] # i})
      BY <2>1, <1>3 DEF DeleteIssuerRow
    <3>2. \A c \in Certs : <<IssuerOf[c], ProjectOf[c]>>[1] = IssuerOf[c]
      OBVIOUS
    <3> QED  BY <1>1, <1>2, <3>1, <3>2 DEF IssuerInv, CertsGranted, CountByIssuer
  <2>2. CASE DeleteGrant(w)
    <3>1. i \notin blurred => \A c \in CountByIssuer(i) : ProjectOf[c] # loc[w].project
      BY <2>2, <1>3 DEF DeleteGrant, At, IssuerInv, CountsHold, Counted
    <3>2. granted' = granted \ {<<i, loc[w].project>>}
      BY <2>2, <1>3 DEF DeleteGrant
    <3> QED  BY <1>1, <1>2, <3>1, <3>2 DEF IssuerInv, CertsGranted, CountByIssuer
  <2>3. CASE ~(DeleteIssuerRow(w) \/ DeleteGrant(w))
    <3>1. granted' = granted
      BY <2>3 DEF IssuerStep, InsertIssuer, NameIssuer, ApplyKeys, ApplyIssuer, ApplyPart, MarkError,
         SaveIssuer, DeleteObjects, issuers
    <3> QED  BY <1>1, <1>2, <3>1, GrantedKept DEF IssuerInv, Reappears
  <2> QED  BY <2>1, <2>2, <2>3
<1> QED  BY <1>5, <1>6, <1>7, <1>8 DEF IssuerInv

---------------------------------------------------------------------------
\* Certificates: what the invariant says of workers is about these labels.
UseLabels == {"saveDomain", "applyGateway", "saveClient"}

\* A step that touches no certificate and no use of one.
LEMMA CertsKept ==
    ASSUME TypedInv, CertInv, UNCHANGED <<cert, crd, leaf, domain, live, client>>, born \subseteq born',
           blurred \subseteq blurred',
           \A v \in Workers : \/ loc'[v] = loc[v]
                              \/ /\ loc'[v].at \notin CertLabels \cup UseLabels
                                 /\ loc[v].at # "applyGateway"
    PROVE  CertInv'
<1>1. Inserted'
  BY DEF CertInv, Inserted, CertLabels
<1>2. ReadyHasKey'
  BY DEF CertInv, ReadyHasKey, CertLabels, At
<1>3. NamedOnce'
  BY DEF CertInv, NamedOnce, CertLabels, At
<1>4. ForeignKeys'
  BY DEF CertInv, ForeignKeys, AttachedTo
<1>5. ChosenWasReady'
  BY DEF CertInv, ChosenWasReady, Chosen, AttachedTo, UseLabels, CertLabels, At
<1>6. KeyHasObject'
  BY DEF CertInv, KeyHasObject, CertLabels, At
<1>7. LiveFollowsRow'
  BY DEF CertInv, LiveFollowsRow, Applying, UseLabels, At
<1> QED  BY <1>1, <1>2, <1>3, <1>4, <1>5, <1>6, <1>7 DEF CertInv

LEMMA CertKeptByIssuers ==
    ASSUME TypedInv, CertInv, NEW w \in Workers, IssuerStep(w) \/ Consume(w) \/ ReadBundle(w)
    PROVE  CertInv'
<1>1. /\ Advances(w) /\ TypedInv' /\ blurred \subseteq blurred' /\ Follows(loc[w].at, loc'[w].at)
  BY StepsTyped, BlurredGrows, StepLabels DEF Step, UseStep
<1>2. loc[w].at \in IssuerLabels \cup {"deleteObjects", "deleteIssuerRow", "deleteGrant", "consume", "readBundle"}
  BY DEF IssuerStep, InsertIssuer, NameIssuer, ApplyKeys, ApplyIssuer, MarkError, SaveIssuer,
         DeleteObjects, DeleteIssuerRow, DeleteGrant, Consume, ReadBundle, At, IssuerLabels
<1>3. loc'[w].at \notin CertLabels \cup UseLabels /\ loc[w].at # "applyGateway"
  BY <1>1, <1>2 DEF Follows, CertLabels, UseLabels, IssuerLabels
<1>4. UNCHANGED <<cert, crd, leaf, domain, live, client>> /\ born \subseteq born'
  BY DEF IssuerStep, InsertIssuer, NameIssuer, ApplyKeys, ApplyIssuer, ApplyPart, MarkError, SaveIssuer,
         DeleteObjects, DeleteIssuerRow, DeleteGrant, Consume, ReadBundle, certs, uses
<1> QED  BY <1>1, <1>3, <1>4, CertsKept DEF Advances

LEMMA CertKeptElsewhere ==
    ASSUME TypedInv, CertInv, Elsewhere
    PROVE  CertInv'
<1>0. TypedInv' /\ loc' = loc /\ cert \in [Certs -> Rows]
  BY ElsewhereTyped DEF TypedInv, StateTyped
<1>1. blurred' = blurred /\ UNCHANGED <<domain, live, client, born>>
  BY DEF Elsewhere, Grant, RefuseCert, Issue, RequestExport, DecideExport, Expire, uses, certs
<1>2. CASE UNCHANGED <<cert, crd, leaf>>
  BY <1>0, <1>1, <1>2, CertsKept
<1>3. CASE \E c \in Certs : Issue(c)
  <2>1. PICK c \in Certs : Issue(c)
    BY <1>3
  <2>2. c \in crd /\ leaf' = leaf \cup {c} /\ UNCHANGED <<cert, crd>>
    BY <2>1 DEF Issue
  <2>3. Inserted'
    BY <1>0, <1>1, <2>2 DEF CertInv, Inserted
  <2>4. ReadyHasKey'
    BY <1>0, <2>2 DEF CertInv, ReadyHasKey, At
  <2>5. NamedOnce' /\ ForeignKeys'
    BY <1>0, <1>1, <2>2 DEF CertInv, NamedOnce, ForeignKeys, AttachedTo, At
  <2>6. ChosenWasReady'
    BY <1>0, <1>1, <2>2 DEF CertInv, ChosenWasReady, Chosen, AttachedTo, At
  <2>7. KeyHasObject'
    BY <1>0, <1>1, <2>2 DEF CertInv, KeyHasObject, At
  <2>8. LiveFollowsRow'
    BY <1>0, <1>1 DEF CertInv, LiveFollowsRow, Applying, At
  <2> QED  BY <2>3, <2>4, <2>5, <2>6, <2>7, <2>8 DEF CertInv
<1>4. CASE \E c \in Certs : RefuseCert(c)
  <2>1. PICK c \in Certs : RefuseCert(c)
    BY <1>4
  <2>2. /\ cert[c].status = "pending" /\ cert[c].named /\ UNCHANGED <<crd, leaf>>
        /\ \A e \in Certs \ {c} : cert'[e] = cert[e]
        /\ cert'[c].status \in {"error", None} /\ cert[c] # NoRow
    BY <2>1, <1>0 DEF RefuseCert, NoRow, None, Rows
  <2>3. ~Chosen(c)
    BY <2>2 DEF CertInv, ChosenWasReady
  <2>a. Inserted'
    BY <1>0, <1>1, <2>2 DEF CertInv, Inserted
  <2>4. ReadyHasKey'
    BY <1>0, <2>2 DEF CertInv, ReadyHasKey, At, None
  <2>b. NamedOnce'
    <3>1. \A v \in Workers : At(v, "nameCert") => loc[v].id \in Certs \ {c}
      BY <2>2 DEF CertInv, NamedOnce, TypedInv, InPlace, CertLabels, At
    <3> QED  BY <3>1, <1>0, <2>2 DEF CertInv, NamedOnce, At
  <2>5. ForeignKeys'
    BY <1>0, <1>1, <2>2, <2>3 DEF CertInv, ForeignKeys, AttachedTo, Chosen
  <2>6. ChosenWasReady'
    BY <1>0, <1>1, <2>2, <2>3 DEF CertInv, ChosenWasReady, Chosen, AttachedTo, At
  <2>7. KeyHasObject'
    <3>1. \A v \in Workers : At(v, "deleteCrd") /\ loc[v].id \notin blurred => loc[v].id \in Certs \ {c}
      BY <2>2 DEF CertInv, KeyHasObject, TypedInv, InPlace, CertLabels, At
    <3> QED  BY <3>1, <1>0, <1>1, <2>2 DEF CertInv, KeyHasObject, At
  <2>8. LiveFollowsRow'
    BY <1>0, <1>1 DEF CertInv, LiveFollowsRow, Applying, At
  <2> QED  BY <2>a, <2>4, <2>b, <2>5, <2>6, <2>7, <2>8 DEF CertInv
<1> QED  BY <1>2, <1>3, <1>4 DEF Elsewhere, Grant, RequestExport, DecideExport, Expire, certs

LEMMA CertKeptByRequests ==
    ASSUME TypedInv, CertInv, NEW w \in Workers, Request(w)
    PROVE  CertInv'
<1>1. PICK l : Startable(l) /\ Begin(w, l)
  BY RequestsStart
<1>2. TypedInv' /\ loc'[w] = l /\ \A v \in Workers \ {w} : loc'[v] = loc[v]
  BY <1>1, BeginsTyped
<1>3. /\ UNCHANGED <<cert, crd, leaf, born, domain, live, client>> /\ blurred \subseteq blurred'
      /\ loc[w].at = "idle"
  BY <1>1 DEF Begin, certs, uses, At
<1>4. /\ l \in Locals /\ InPlace(l) /\ l.at \notin {"nameCert", "deleteCrd", "applyGateway", "readBundle"}
      /\ l.at \in {"applyCert", "saveCert"} => cert[l.id].named /\ l.id \in Certs
      /\ l.at = "saveCert" /\ l.row.status = "ready" => l.id \in leaf
      /\ l.at \in {"saveDomain", "saveClient"} /\ l.cert # None =>
            cert[l.cert].status = "ready" \/ AttachedTo(l.cert)
  BY <1>1 DEF Startable, InPlace, CertLabels
<1>5. Inserted'
  <2>1. \A c \in Certs : cert[c].named => cert[c] # NoRow
    BY DEF NoRow
  <2> QED  BY <1>2, <1>3, <1>4, <2>1 DEF CertInv, Inserted
<1>6. ReadyHasKey'
  BY <1>2, <1>3, <1>4 DEF CertInv, ReadyHasKey, At
<1>7. NamedOnce'
  BY <1>2, <1>3, <1>4 DEF CertInv, NamedOnce, At
<1>8. ForeignKeys'
  BY <1>3 DEF CertInv, ForeignKeys, AttachedTo
<1>9. ChosenWasReady'
  <2>1. \A c \in Certs : AttachedTo(c)' <=> AttachedTo(c)
    BY <1>3 DEF AttachedTo
  <2>2. \A c \in Certs : Chosen(c)' => Chosen(c) \/ cert[c].status = "ready"
    BY <1>2, <1>3, <1>4, <2>1, NamesAssumption DEF Chosen, None
  <2>3. \A c \in Certs : cert[c].status = "ready" =>
           /\ c \in leaf /\ cert[c].status # "pending"
           /\ \A v \in Workers : ~(At(v, "nameCert") /\ loc[v].id = c)
    BY DEF CertInv, ReadyHasKey, NamedOnce, None
  <2> QED  BY <1>2, <1>3, <1>4, <2>2, <2>3 DEF CertInv, ChosenWasReady, At
<1>10. KeyHasObject'
  BY <1>2, <1>3, <1>4 DEF CertInv, KeyHasObject, At
<1>11. LiveFollowsRow'
  BY <1>2, <1>3, <1>4 DEF CertInv, LiveFollowsRow, Applying, At
<1> QED  BY <1>5, <1>6, <1>7, <1>8, <1>9, <1>10, <1>11 DEF CertInv

\* The steps that write the row of a certificate or its object.
LEMMA CertKeptByInsert ==
    ASSUME TypedInv, Alone, CertInv, NEW w \in Workers, InsertCert(w)
    PROVE  CertInv'
<1>1. Advances(w) /\ TypedInv' /\ blurred \subseteq blurred'
  BY StepsTyped, BlurredGrows DEF Step, CertStep
<1>2. /\ loc[w].at = "insertCert" /\ loc[w].id \in Certs /\ loc[w].row.status = "pending" /\ ~loc[w].row.named
      /\ cert \in [Certs -> Rows] /\ loc \in [Workers -> Locals]
  BY DEF InsertCert, At, TypedInv, StateTyped, InPlace, CertLabels
<1>3. UNCHANGED <<crd, leaf, domain, live, client>>
  BY DEF InsertCert, uses
<1>4. CASE Return(w) /\ UNCHANGED <<cert, born>>
  <2>1. loc'[w] = Idle
    BY <1>4, <1>2 DEF Return
  <2> QED  BY <1>1, <1>2, <1>3, <1>4, <2>1, CertsKept DEF Advances, Idle, CertLabels, UseLabels
<1>5. CASE /\ loc[w].id \notin born
           /\ cert' = [cert EXCEPT ![loc[w].id] = loc[w].row]
           /\ born' = born \cup {loc[w].id}
           /\ loc' = [loc EXCEPT ![w].row.named = TRUE, ![w].at = "nameCert"]
  <2>1. PICK c \in Certs : c = loc[w].id
    BY <1>2
  <2>2. /\ c \notin born /\ born' = born \cup {c} /\ cert'[c] = loc[w].row
        /\ \A e \in Certs \ {c} : cert'[e] = cert[e]
    BY <1>2, <1>5, <2>1
  <2>3. loc'[w].at = "nameCert" /\ loc'[w].id = c /\ \A v \in Workers \ {w} : loc'[v] = loc[v]
    BY <1>1, <1>2, <1>5, <2>1 DEF Locals, Advances
  <2>4. c \notin leaf /\ c \notin crd /\ cert[c] = NoRow /\ ~Chosen(c)
    BY <2>2 DEF CertInv, Inserted, ChosenWasReady
  <2>5. \A v \in Workers : loc[v].at \in {"nameCert", "applyCert", "saveCert"} => loc[v].id # c
    BY <2>2 DEF CertInv, Inserted
  <2>6. Inserted'
    BY <1>3, <2>2, <2>3 DEF CertInv, Inserted
  <2>7. ReadyHasKey'
    BY <1>2, <1>3, <2>2, <2>3 DEF CertInv, ReadyHasKey, At
  <2>8. NamedOnce'
    <3>1. \A v \in Workers \ {w} : At(v, "nameCert") => loc[v].id \in Certs \ {c}
      BY <2>5 DEF TypedInv, InPlace, CertLabels, At
    <3> QED  BY <1>2, <2>2, <2>3, <2>5, <3>1 DEF CertInv, NamedOnce, At
  <2>9. \A e \in Certs : Chosen(e)' => Chosen(e)
    BY <1>3, <2>3 DEF Chosen, AttachedTo
  <2>10. ChosenWasReady'
    BY <1>3, <2>2, <2>3, <2>4, <2>9 DEF CertInv, ChosenWasReady, At
  <2>11. ForeignKeys'
    BY <1>3, <2>2, <2>4 DEF CertInv, ForeignKeys, AttachedTo, Chosen
  <2>12. KeyHasObject'
    <3>1. \A v \in Workers : At(v, "deleteCrd") /\ loc[v].id \notin blurred => loc[v].id \in Certs \ {c}
      BY <1>2, <2>1 DEF Alone, TypedInv, InPlace, CertLabels, At
    <3> QED  BY <1>1, <1>3, <2>2, <2>3, <2>4, <3>1 DEF CertInv, KeyHasObject, At
  <2>13. LiveFollowsRow'
    BY <1>1, <1>2, <1>3, <2>3 DEF CertInv, LiveFollowsRow, Applying, At
  <2> QED  BY <2>6, <2>7, <2>8, <2>10, <2>11, <2>12, <2>13 DEF CertInv
<1> QED  BY <1>4, <1>5 DEF InsertCert

LEMMA CertKeptByStore ==
    ASSUME TypedInv, Alone, CertInv, NEW w \in Workers, NameCert(w) \/ SaveCert(w)
    PROVE  CertInv'
<1>1. /\ Advances(w) /\ TypedInv' /\ blurred \subseteq blurred' /\ Follows(loc[w].at, loc'[w].at)
      /\ \A v \in Workers \ {w} : loc'[v] = loc[v]
  BY StepsTyped, BlurredGrows, StepLabels DEF Step, CertStep, Advances
<1>2. PICK c \in Certs : c = loc[w].id
  BY DEF NameCert, SaveCert, At, TypedInv, InPlace, CertLabels
<1>3. /\ loc[w].at \in {"nameCert", "saveCert"}
      /\ loc[w].at = "nameCert" => loc[w].row.status = "pending"
      /\ loc[w].at = "saveCert" => loc[w].row.status \in {"issuing", "ready", "error"}
      /\ cert \in [Certs -> Rows]
  BY DEF NameCert, SaveCert, At, TypedInv, StateTyped, InPlace
<1>4. UNCHANGED <<crd, leaf, born, domain, live, client>>
  BY DEF NameCert, SaveCert, uses
<1>5. /\ \A e \in Certs \ {c} : cert'[e] = cert[e]
      /\ cert'[c] = cert[c] \/ cert'[c] = loc[w].row
      /\ cert[c] = NoRow /\ cert'[c] # NoRow => c \in blurred'
  BY <1>2, <1>3 DEF NameCert, SaveCert, StoreCert
<1>6. loc[w].row # NoRow
  BY <1>3 DEF NoRow, None
<1>7. /\ loc'[w].at \in {"idle", "applyCert"} /\ (loc'[w].at = "applyCert" => loc'[w].id = c)
      /\ loc'[w].at = "applyCert" => loc[w].at = "nameCert"
  <2>1. loc'[w] = Idle \/ Goto(w, "applyCert")
    BY <1>1 DEF NameCert, SaveCert, Return, Advances
  <2> QED  BY <1>1, <1>2, <2>1 DEF Advances, Idle, Goto, Follows, Locals
<1>8. c \in born /\ \A v \in Workers \ {w} : At(v, "nameCert") => loc[v].id \in Certs \ {c}
  BY <1>2, <1>3 DEF CertInv, Inserted, NamedOnce, TypedInv, InPlace, CertLabels, At
<1>9. Inserted'
  BY <1>1, <1>4, <1>5, <1>7, <1>8 DEF CertInv, Inserted
<1>10. ReadyHasKey'
  BY <1>1, <1>2, <1>3, <1>4, <1>5, <1>7 DEF CertInv, ReadyHasKey, At
<1>11. NamedOnce'
  BY <1>1, <1>5, <1>7, <1>8 DEF CertInv, NamedOnce, At
<1>12. \A e \in Certs : Chosen(e)' => Chosen(e)
  BY <1>1, <1>4, <1>7 DEF Chosen, AttachedTo
<1>13. ChosenWasReady'
  <2>1. Chosen(c) => loc[w].at # "nameCert"
    BY <1>2 DEF CertInv, ChosenWasReady, At
  <2> QED  BY <1>1, <1>3, <1>4, <1>5, <1>7, <1>12, <2>1 DEF CertInv, ChosenWasReady, At
<1>14. ForeignKeys'
  BY <1>4, <1>5, <1>6 DEF CertInv, ForeignKeys, AttachedTo
<1>15. KeyHasObject'
  <2>1. \A v \in Workers \ {w} : At(v, "deleteCrd") /\ loc[v].id \notin blurred => loc[v].id \in Certs \ {c}
    BY <1>2, <1>3 DEF Alone, TypedInv, InPlace, CertLabels, At
  <2> QED  BY <1>1, <1>4, <1>5, <1>7, <2>1 DEF CertInv, KeyHasObject, At
<1>16. LiveFollowsRow'
  BY <1>1, <1>3, <1>4, <1>7 DEF CertInv, LiveFollowsRow, Applying, At
<1> QED  BY <1>9, <1>10, <1>11, <1>13, <1>14, <1>15, <1>16 DEF CertInv

LEMMA CertKeptByApply ==
    ASSUME TypedInv, CertInv, NEW w \in Workers, ApplyCert(w)
    PROVE  CertInv'
<1>1. /\ Advances(w) /\ TypedInv' /\ blurred' = blurred
      /\ \A v \in Workers \ {w} : loc'[v] = loc[v]
  BY StepsTyped DEF Step, CertStep, Advances, ApplyCert
<1>2. /\ loc[w].at = "applyCert" /\ loc[w].id \in Certs /\ loc[w].id \in born
  BY DEF ApplyCert, At, TypedInv, InPlace, CertLabels, CertInv, Inserted
<1>3. UNCHANGED <<cert, leaf, born, domain, live, client>> /\ (crd' = crd \/ crd' = crd \cup {loc[w].id})
  BY DEF ApplyCert, uses
<1>4. loc'[w].at = "saveCert" /\ loc'[w].id = loc[w].id /\ loc'[w].row.status \in {"issuing", "error"}
  <2>1. loc \in [Workers -> Locals]
    BY DEF TypedInv, StateTyped
  <2> QED  BY <2>1 DEF ApplyCert, Locals, Rows
<1>5. Inserted'
  BY <1>1, <1>2, <1>3, <1>4 DEF CertInv, Inserted
<1>6. ReadyHasKey'
  BY <1>1, <1>3, <1>4 DEF CertInv, ReadyHasKey, At
<1>7. NamedOnce'
  BY <1>1, <1>2, <1>3, <1>4 DEF CertInv, NamedOnce, At
<1>8. ChosenWasReady' /\ ForeignKeys'
  BY <1>1, <1>3, <1>4 DEF CertInv, ChosenWasReady, ForeignKeys, Chosen, AttachedTo, At
<1>9. KeyHasObject'
  BY <1>1, <1>3, <1>4 DEF CertInv, KeyHasObject, At
<1>10. LiveFollowsRow'
  BY <1>1, <1>2, <1>3, <1>4 DEF CertInv, LiveFollowsRow, Applying, At
<1> QED  BY <1>5, <1>6, <1>7, <1>8, <1>9, <1>10 DEF CertInv

LEMMA CertKeptByDelete ==
    ASSUME TypedInv, Alone, CertInv, NEW w \in Workers, DeleteCertRow(w) \/ DeleteCrd(w)
    PROVE  CertInv'
<1>1. /\ Advances(w) /\ TypedInv' /\ blurred' = blurred
      /\ \A v \in Workers \ {w} : loc'[v] = loc[v]
  BY StepsTyped DEF Step, CertStep, Advances, DeleteCertRow, DeleteCrd
<1>2. PICK c \in Certs : c = loc[w].id
  BY DEF DeleteCertRow, DeleteCrd, At, TypedInv, InPlace, CertLabels
<1>3. UNCHANGED <<leaf, born, domain, live, client>>
  BY DEF DeleteCertRow, DeleteCrd, uses
<1>4. loc[w].at \in {"deleteCertRow", "deleteCrd"} /\ cert \in [Certs -> Rows] /\ loc \in [Workers -> Locals]
  BY DEF DeleteCertRow, DeleteCrd, At, TypedInv, StateTyped
<1>5. CASE DeleteCertRow(w) /\ ~AttachedTo(c)
  <2>1. /\ loc'[w].at = "deleteCrd" /\ loc'[w].id = c /\ crd' = crd
        /\ cert'[c] = NoRow /\ \A e \in Certs \ {c} : cert'[e] = cert[e]
    BY <1>2, <1>4, <1>5 DEF DeleteCertRow, Goto, Locals
  <2>2. cert'[c].status = None /\ ~cert'[c].named
    BY <2>1 DEF NoRow
  <2>3. Inserted'
    BY <1>1, <1>3, <2>1 DEF CertInv, Inserted
  <2>4. ReadyHasKey'
    BY <1>1, <1>3, <2>1, <2>2 DEF CertInv, ReadyHasKey, At, None
  <2>5. NamedOnce'
    <3>1. \A v \in Workers : At(v, "nameCert") => loc[v].id \in Certs
      BY DEF TypedInv, InPlace, CertLabels, At
    <3> QED  BY <1>1, <1>3, <2>1, <2>2, <3>1 DEF CertInv, NamedOnce, At
  <2>6. ForeignKeys'
    BY <1>3, <1>5, <2>1 DEF CertInv, ForeignKeys, AttachedTo
  <2>7. ChosenWasReady'
    BY <1>1, <1>3, <2>1, <2>2 DEF CertInv, ChosenWasReady, Chosen, AttachedTo, At, None
  <2>8. KeyHasObject'
    <3>1. \A v \in Workers : At(v, "deleteCrd") => loc[v].id \in Certs
      BY DEF TypedInv, InPlace, CertLabels, At
    <3> QED  BY <1>1, <1>3, <2>1, <3>1 DEF CertInv, KeyHasObject, At
  <2>9. LiveFollowsRow'
    BY <1>1, <1>3, <1>4, <2>1 DEF CertInv, LiveFollowsRow, Applying, At
  <2> QED  BY <2>3, <2>4, <2>5, <2>6, <2>7, <2>8, <2>9 DEF CertInv
<1>6. CASE DeleteCertRow(w) /\ AttachedTo(c)
  <2>1. loc'[w] = Idle /\ UNCHANGED <<cert, crd>>
    BY <1>2, <1>4, <1>6 DEF DeleteCertRow, Return
  <2> QED  BY <1>1, <1>3, <1>4, <2>1, CertsKept DEF Idle, CertLabels, UseLabels
<1>7. CASE DeleteCrd(w)
  <2>1. loc'[w].at = "idle" /\ cert' = cert /\ (crd' = crd \/ crd' = crd \ {c}) /\ loc[w].at = "deleteCrd"
    BY <1>2, <1>4, <1>7 DEF DeleteCrd, Return, At, Idle
  <2>2. c \notin blurred => cert[c] = NoRow
    BY <1>2, <2>1 DEF CertInv, KeyHasObject, At
  <2>3. Inserted' /\ ReadyHasKey'
    BY <1>1, <1>3, <2>1 DEF CertInv, Inserted, ReadyHasKey, At
  <2>4. NamedOnce'
    BY <1>1, <2>1 DEF CertInv, NamedOnce, At
  <2>5. ChosenWasReady' /\ ForeignKeys'
    BY <1>1, <1>3, <2>1 DEF CertInv, ChosenWasReady, ForeignKeys, Chosen, AttachedTo, At
  <2>6. KeyHasObject'
    BY <1>1, <1>3, <2>1, <2>2 DEF CertInv, KeyHasObject, At
  <2>7. LiveFollowsRow'
    BY <1>1, <1>3, <2>1 DEF CertInv, LiveFollowsRow, Applying, At
  <2> QED  BY <2>3, <2>4, <2>5, <2>6, <2>7 DEF CertInv
<1> QED  BY <1>5, <1>6, <1>7

\* The steps of domains and clients.
LEMMA CertKeptByUses ==
    ASSUME TypedInv, Alone, CertInv, NEW w \in Workers, SaveDomain(w) \/ ApplyGateway(w) \/ SaveClient(w)
    PROVE  CertInv'
<1>1. /\ Advances(w) /\ TypedInv' /\ blurred \subseteq blurred' /\ Follows(loc[w].at, loc'[w].at)
      /\ \A v \in Workers \ {w} : loc'[v] = loc[v]
  BY StepsTyped, BlurredGrows, StepLabels DEF Step, UseStep, Advances
<1>2. UNCHANGED <<cert, crd, leaf, born>>
  BY DEF SaveDomain, ApplyGateway, SaveClient, certs
<1>3. /\ loc[w].at \in {"saveDomain", "applyGateway", "saveClient"} /\ loc[w] \in Locals
      /\ loc[w].cert \in Certs \cup {None}
      /\ domain \in [Domains -> [cert : Certs \cup {None}, secret : Certs \cup {Byo}]]
      /\ live \in [Domains -> Certs \cup {Byo}]
      /\ client \in [Clients -> [cert : Certs \cup {None}, ca : Issuers \cup {None, Byo}]]
  BY DEF SaveDomain, ApplyGateway, SaveClient, At, TypedInv, StateTyped, Locals
<1>4. loc'[w].at \in {"idle", "applyGateway"} /\ (loc'[w].at = "applyGateway" => loc'[w].cert = loc[w].cert)
  BY <1>1, <1>3 DEF Follows, Advances, Idle, Locals, Labels, IssuerLabels, CertLabels
<1>5. Inserted' /\ ReadyHasKey'
  BY <1>1, <1>2, <1>4 DEF CertInv, Inserted, ReadyHasKey, At
<1>6. NamedOnce'
  BY <1>1, <1>2, <1>4 DEF CertInv, NamedOnce, At
<1>7. KeyHasObject'
  BY <1>1, <1>2, <1>4 DEF CertInv, KeyHasObject, At
<1>8. /\ \A d \in Domains : domain'[d] = domain[d] \/ domain'[d].cert = loc[w].cert
      /\ \A k \in Clients : client'[k] = client[k] \/ client'[k].cert = loc[w].cert
  BY <1>3 DEF SaveDomain, ApplyGateway, SaveClient
<1>9. (\E d \in Domains : domain'[d] # domain[d]) \/ (\E k \in Clients : client'[k] # client[k]) =>
         loc[w].cert = None \/ cert[loc[w].cert] # NoRow
  BY <1>3 DEF SaveDomain, ApplyGateway, SaveClient
<1>10. ForeignKeys'
  <2> SUFFICES ASSUME NEW c \in Certs, AttachedTo(c)'
               PROVE  cert[c] # NoRow
    BY <1>2 DEF ForeignKeys
  <2>1. CASE AttachedTo(c)
    BY <2>1 DEF CertInv, ForeignKeys
  <2>2. CASE ~AttachedTo(c)
    <3>1. c = loc[w].cert /\ c # None
      BY <2>2, <1>8, NamesAssumption DEF AttachedTo, None
    <3> QED  BY <2>2, <3>1, <1>9 DEF AttachedTo
  <2> QED  BY <2>1, <2>2
<1>11. \A c \in Certs : Chosen(c)' => Chosen(c)
  <2> SUFFICES ASSUME NEW c \in Certs, Chosen(c)', ~(c = loc[w].cert)
               PROVE  Chosen(c)
    BY <1>3 DEF Chosen
  <2> QED  BY <1>1, <1>4, <1>8 DEF Chosen, AttachedTo
<1>12. ChosenWasReady'
  BY <1>1, <1>2, <1>4, <1>11 DEF CertInv, ChosenWasReady, At
<1>13. LiveFollowsRow'
  <2>1. CASE SaveClient(w)
    <3>1. loc[w].at = "saveClient" /\ UNCHANGED <<domain, live>>
      BY <2>1 DEF SaveClient, At
    <3>2. loc'[w].at # "applyGateway"
      BY <1>1, <3>1 DEF Follows
    <3> QED  BY <1>1, <3>1, <3>2 DEF CertInv, LiveFollowsRow, Applying, At
  <2>2. CASE SaveDomain(w)
    <3>1. PICK d \in Domains : d = loc[w].id
      BY <2>2 DEF SaveDomain, TypedInv, InPlace, At
    <3>2. live' = live /\ blurred' = blurred /\ loc[w].at = "saveDomain"
      BY <2>2 DEF SaveDomain, At
    <3>3. CASE Return(w) /\ domain' = domain
      <4>1. loc'[w].at # "applyGateway"
        BY <3>3, <1>3 DEF Return, Idle, TypedInv, StateTyped
      <4> QED  BY <1>1, <3>2, <3>3, <4>1 DEF CertInv, LiveFollowsRow, Applying, At
    <3>4. CASE Goto(w, "applyGateway") /\ domain' = [domain EXCEPT ![d] = [cert |-> loc[w].cert, secret |-> loc[w].other]]
      <4>1. /\ loc'[w].at = "applyGateway" /\ loc'[w].id = d
            /\ loc'[w].cert = loc[w].cert /\ loc'[w].other = loc[w].other
        BY <3>1, <3>4, <1>3 DEF Goto, TypedInv, StateTyped, Locals
      <4>2. /\ domain'[d].cert = loc[w].cert /\ domain'[d].secret = loc[w].other
            /\ \A e \in Domains \ {d} : domain'[e] = domain[e]
        BY <3>4, <1>3
      <4>3. \A v \in Workers \ {w} : Applying(v, d) => d \in blurred
        BY <3>1, <3>2 DEF Alone, Applying, At
      <4> QED  BY <1>1, <3>2, <4>1, <4>2, <4>3 DEF CertInv, LiveFollowsRow, Applying, At
    <3> QED  BY <2>2, <3>1, <3>3, <3>4 DEF SaveDomain
  <2>3. CASE ApplyGateway(w)
    <3>1. PICK d \in Domains : d = loc[w].id
      BY <2>3 DEF ApplyGateway, TypedInv, InPlace, At
    <3>2. domain' = domain /\ loc'[w].at # "applyGateway" /\ Applying(w, d)
      BY <2>3, <3>1 DEF ApplyGateway, At, Return, Idle, TypedInv, StateTyped, Applying
    <3>3. \A e \in Domains \ {d} : live'[e] = live[e]
      BY <2>3, <3>1, <1>3 DEF ApplyGateway
    <3>4. d \in blurred' \/ live'[d] = TlsSecret(loc[w].cert, loc[w].other)
      BY <2>3, <3>1, <1>3 DEF ApplyGateway, Blur
    <3> QED  BY <1>1, <3>1, <3>2, <3>3, <3>4 DEF CertInv, LiveFollowsRow, Applying, At
  <2> QED  BY <2>1, <2>2, <2>3
<1> QED  BY <1>5, <1>6, <1>7, <1>10, <1>12, <1>13 DEF CertInv

LEMMA CertKept ==
    ASSUME TypedInv, Alone, CertInv, Next
    PROVE  CertInv'
BY NextCases, CertKeptElsewhere, CertKeptByRequests, CertKeptByIssuers, CertKeptByInsert, CertKeptByStore,
   CertKeptByApply, CertKeptByDelete, CertKeptByUses DEF Step, CertStep, UseStep
LEMMA IssuerKept ==
    ASSUME TypedInv, Alone, IssuerInv, Next
    PROVE  IssuerInv'
BY NextCases, IssuerKeptElsewhere, IssuerKeptByRequests, IssuerKeptByIssuers, IssuerKeptByOthers DEF Step
LEMMA TypedKept ==
    ASSUME TypedInv, Next
    PROVE  TypedInv'
BY NextCases, ElsewhereTyped, RequestsStart, BeginsTyped, StepsTyped

---------------------------------------------------------------------------
\* Exports: what is counted is finite.
LEMMA OpenFinite ==
    ASSUME NEW c, NEW u
    PROVE  /\ IsFiniteSet(Open(c, u)) /\ Cardinality(Open(c, u)) \in Nat
           /\ IsFiniteSet(Readers(c, u)) /\ Cardinality(Readers(c, u)) \in Nat
<1>1. IsFiniteSet(1..MaxGrants)
  BY FS_Interval, BoundsAssumption
<1>2. Open(c, u) \subseteq 1..MaxGrants /\ Readers(c, u) \subseteq Workers
  BY DEF Open, Readers
<1>3. IsFiniteSet(Open(c, u)) /\ IsFiniteSet(Readers(c, u))
  BY <1>1, <1>2, FS_Subset, WorkersAssumption
<1> QED  BY <1>3, FS_CardinalityType
LEMMA OpenFiniteAfter ==
    ASSUME NEW c, NEW u
    PROVE  /\ IsFiniteSet(Open(c, u)') /\ Cardinality(Open(c, u)') \in Nat
           /\ IsFiniteSet(Readers(c, u)') /\ Cardinality(Readers(c, u)') \in Nat
<1>1. IsFiniteSet(1..MaxGrants)
  BY FS_Interval, BoundsAssumption
<1>2. Open(c, u)' \subseteq 1..MaxGrants /\ Readers(c, u)' \subseteq Workers
  BY DEF Open, Readers
<1>3. IsFiniteSet(Open(c, u)') /\ IsFiniteSet(Readers(c, u)')
  BY <1>1, <1>2, FS_Subset, WorkersAssumption
<1> QED  BY <1>3, FS_CardinalityType

\* Grants that are spent, expire or go, and workers that give up, only leave
\* less to download.
LEMMA ExportsKept ==
    ASSUME TypedInv, TypedInv', ExportInv, UNCHANGED <<approved, downloads>>,
           \A g \in 1..MaxGrants : /\ grant'[g].cert = grant[g].cert /\ grant'[g].user = grant[g].user
                                   /\ grant'[g].state = "usable" => grant[g].state = "usable",
           \A v \in Workers : loc'[v] = loc[v] \/ loc'[v].at \notin {"consume", "readBundle"}
    PROVE  ExportInv'
<1>1. GrantsLocked'
  <2> SUFFICES ASSUME NEW w \in Workers, At(w, "consume")'
               PROVE  /\ grant'[loc'[w].grant].cert = loc'[w].cert
                      /\ grant'[loc'[w].grant].user = loc'[w].id
                      /\ \A v \in Workers : loc'[v].grant = loc'[w].grant => v = w
    BY DEF GrantsLocked
  <2>1. loc'[w] = loc[w] /\ At(w, "consume") /\ loc[w].grant # 0 /\ loc[w].grant \in 0..MaxGrants
    BY DEF At, TypedInv, StateTyped, InPlace, Locals
  <2>2. loc[w].grant \in 1..MaxGrants
    BY <2>1, BoundsAssumption
  <2>3. /\ grant[loc[w].grant].cert = loc[w].cert /\ grant[loc[w].grant].user = loc[w].id
        /\ \A v \in Workers : loc[v].grant = loc[w].grant => v = w
    BY <2>1 DEF ExportInv, GrantsLocked
  <2>4. \A v \in Workers : loc'[v].grant = loc[w].grant => loc'[v] = loc[v]
    BY <2>1 DEF TypedInv, InPlace
  <2> QED  BY <2>1, <2>2, <2>3, <2>4
<1>2. ASSUME NEW c \in Certs, NEW u \in Users
      PROVE  downloads'[<<c, u>>] + Cardinality(Open(c, u)') + Cardinality(Readers(c, u)') <= approved'[<<c, u>>]
  <2>1. \A g \in 1..MaxGrants : Locked(g)' => Locked(g)
    BY DEF Locked, At
  <2>2. Open(c, u)' \subseteq Open(c, u)
    BY <2>1 DEF Open
  <2>3. Readers(c, u)' \subseteq Readers(c, u)
    BY DEF Readers, At
  <2>4. /\ Cardinality(Open(c, u)') <= Cardinality(Open(c, u))
        /\ Cardinality(Readers(c, u)') <= Cardinality(Readers(c, u))
    BY <2>2, <2>3, OpenFinite, FS_Subset
  <2>5. /\ downloads[<<c, u>>] \in Nat /\ approved[<<c, u>>] \in Nat
    BY DEF TypedInv, StateTyped
  <2>6. downloads[<<c, u>>] + Cardinality(Open(c, u)) + Cardinality(Readers(c, u)) <= approved[<<c, u>>]
    BY DEF ExportInv, ExportsCounted
  <2> QED  BY <2>4, <2>5, <2>6, OpenFinite, OpenFiniteAfter
<1> QED  BY <1>1, <1>2 DEF ExportInv, ExportsCounted

\* A lock on a usable grant changes nothing that is counted.
LEMMA ExportsKeptByRequests ==
    ASSUME TypedInv, ExportInv, NEW w \in Workers, Request(w)
    PROVE  ExportInv'
<1>1. PICK l : Startable(l) /\ Begin(w, l)
  BY RequestsStart
<1>2. TypedInv' /\ loc'[w] = l /\ \A v \in Workers \ {w} : loc'[v] = loc[v]
  BY <1>1, BeginsTyped
<1>3. UNCHANGED <<grant, approved, downloads>> /\ loc[w].at = "idle" /\ loc[w] = Idle
  BY <1>1 DEF Begin, exports, At, TypedInv, InPlace
<1>4. CASE l.at # "consume"
  <2>1. l.at # "readBundle"
    BY <1>1 DEF Startable
  <2> QED  BY <1>2, <1>3, <1>4, <2>1, ExportsKept
<1>5. CASE l.at = "consume"
  <2>1. /\ l.grant \in 1..MaxGrants /\ grant[l.grant] = [cert |-> l.cert, user |-> l.id, state |-> "usable"]
        /\ \A v \in Workers : loc[v].grant # l.grant
    BY <1>1, <1>5 DEF Startable, Usable, TypedInv, StateTyped
  <2>2. /\ grant[l.grant].cert = l.cert /\ grant[l.grant].user = l.id /\ grant[l.grant].state = "usable"
    BY <2>1
  <2>3. GrantsLocked'
    BY <1>2, <1>3, <1>5, <2>1, <2>2 DEF ExportInv, GrantsLocked, At
  <2>4. \A g \in 1..MaxGrants : Locked(g)' => Locked(g) \/ g = l.grant
    BY <1>2, <1>3 DEF Locked, At
  <2>5. \A g \in 1..MaxGrants : Locked(g) => Locked(g)'
    BY <1>2, <1>3 DEF Locked, At
  <2>6. ASSUME NEW c \in Certs, NEW u \in Users
        PROVE  Open(c, u)' = Open(c, u) /\ Readers(c, u)' = Readers(c, u)
    <3>1. Open(c, u)' = Open(c, u)
      BY <1>3, <2>2, <2>4, <2>5 DEF Open
    <3>2. Readers(c, u)' = Readers(c, u)
      BY <1>2, <1>3, <1>5 DEF Readers, At
    <3> QED  BY <3>1, <3>2
  <2> QED  BY <1>3, <2>3, <2>6 DEF ExportInv, ExportsCounted
<1> QED  BY <1>4, <1>5

\* A grant that is spent becomes a reader: what was open moves on.
LEMMA ExportsKeptByConsume ==
    ASSUME TypedInv, ExportInv, NEW w \in Workers, Consume(w)
    PROVE  ExportInv'
<1>1. Advances(w) /\ TypedInv' /\ \A v \in Workers \ {w} : loc'[v] = loc[v]
  BY StepsTyped DEF Step, UseStep, Advances
<1>2. /\ loc[w].at = "consume" /\ loc[w].id \in Users /\ loc[w].cert \in Certs /\ loc[w].grant # 0
      /\ loc[w].grant \in 0..MaxGrants /\ grant \in [1..MaxGrants -> Grants] /\ loc \in [Workers -> Locals]
  BY DEF Consume, At, TypedInv, StateTyped, InPlace, Locals
<1>3. PICK h \in 1..MaxGrants : h = loc[w].grant
  BY <1>2, BoundsAssumption
<1>4. /\ grant[h].cert = loc[w].cert /\ grant[h].user = loc[w].id
      /\ \A v \in Workers : loc[v].grant = h => v = w
  BY <1>2, <1>3 DEF ExportInv, GrantsLocked, At
<1>5. UNCHANGED <<approved, downloads>>
  BY DEF Consume
<1>6. CASE Return(w) /\ grant' = grant
  <2>1. loc'[w].at = "idle"
    BY <1>6, <1>2 DEF Return, Idle
  <2> QED  BY <1>1, <1>5, <1>6, <2>1, ExportsKept
<1>7. CASE /\ grant' = [grant EXCEPT ![h].state = "used"]
           /\ loc' = [loc EXCEPT ![w].grant = 0, ![w].at = "readBundle"]
  <2>1. loc'[w].grant = 0 /\ loc'[w].at = "readBundle" /\ loc'[w].cert = loc[w].cert /\ loc'[w].id = loc[w].id
    BY <1>2, <1>7 DEF Locals
  <2>2. /\ \A g \in 1..MaxGrants \ {h} : grant'[g] = grant[g]
        /\ grant'[h].cert = grant[h].cert /\ grant'[h].user = grant[h].user /\ grant'[h].state = "used"
    BY <1>2, <1>7 DEF Grants
  <2>3. GrantsLocked'
    <3> SUFFICES ASSUME NEW v \in Workers, At(v, "consume")'
                 PROVE  /\ grant'[loc'[v].grant].cert = loc'[v].cert
                        /\ grant'[loc'[v].grant].user = loc'[v].id
                        /\ \A x \in Workers : loc'[x].grant = loc'[v].grant => x = v
      BY DEF GrantsLocked
    <3>1. v # w /\ loc'[v] = loc[v] /\ At(v, "consume") /\ loc[v].grant # 0 /\ loc[v].grant \in 0..MaxGrants
      BY <1>1, <2>1 DEF At, TypedInv, StateTyped, InPlace, Locals
    <3>2. loc[v].grant \in 1..MaxGrants \ {h}
      BY <3>1, <1>4, BoundsAssumption
    <3>3. /\ grant[loc[v].grant].cert = loc[v].cert /\ grant[loc[v].grant].user = loc[v].id
          /\ \A x \in Workers : loc[x].grant = loc[v].grant => x = v
      BY <3>1 DEF ExportInv, GrantsLocked
    <3> QED  BY <1>1, <2>1, <2>2, <3>1, <3>2, <3>3
  <2>4. \A g \in 1..MaxGrants \ {h} : Locked(g)' <=> Locked(g)
    BY <1>1, <1>2, <1>3, <2>1 DEF Locked, At
  <2>5. ~Locked(h)' /\ Locked(h)
    <3>1. \A v \in Workers : loc'[v].grant # h
      BY <1>1, <1>4, <2>1
    <3> QED  BY <3>1, <1>2, <1>3 DEF Locked, At
  <2>6. ASSUME NEW c \in Certs, NEW u \in Users
        PROVE  downloads'[<<c, u>>] + Cardinality(Open(c, u)') + Cardinality(Readers(c, u)') <= approved'[<<c, u>>]
    <3>0. /\ downloads[<<c, u>>] \in Nat /\ approved[<<c, u>>] \in Nat
          /\ downloads[<<c, u>>] + Cardinality(Open(c, u)) + Cardinality(Readers(c, u)) <= approved[<<c, u>>]
      BY DEF TypedInv, StateTyped, ExportInv, ExportsCounted
    <3>1. CASE c = loc[w].cert /\ u = loc[w].id
      <4>1. Open(c, u)' = Open(c, u) \ {h} /\ h \in Open(c, u)
        BY <3>1, <1>4, <2>2, <2>4, <2>5 DEF Open
      <4>2. Readers(c, u)' = Readers(c, u) \cup {w} /\ w \notin Readers(c, u)
        BY <3>1, <1>1, <1>2, <2>1 DEF Readers, At
      <4>3. Cardinality(Open(c, u)') = Cardinality(Open(c, u)) - 1
        BY <4>1, OpenFinite, FS_RemoveElement
      <4>4. Cardinality(Readers(c, u)') = Cardinality(Readers(c, u)) + 1
        BY <4>2, OpenFinite, FS_AddElement
      <4> QED  BY <1>5, <3>0, <4>3, <4>4, OpenFinite
    <3>2. CASE ~(c = loc[w].cert /\ u = loc[w].id)
      <4>1. Open(c, u)' = Open(c, u)
        BY <3>2, <1>4, <2>2, <2>4 DEF Open
      <4>2. Readers(c, u)' = Readers(c, u)
        BY <3>2, <1>1, <1>2, <2>1 DEF Readers, At
      <4> QED  BY <1>5, <3>0, <4>1, <4>2
    <3> QED  BY <3>1, <3>2
  <2> QED  BY <2>3, <2>6 DEF ExportInv, ExportsCounted
<1> QED  BY <1>3, <1>6, <1>7 DEF Consume

LEMMA ExportsKeptByRead ==
    ASSUME TypedInv, ExportInv, NEW w \in Workers, ReadBundle(w)
    PROVE  ExportInv'
<1>1. Advances(w) /\ TypedInv' /\ \A v \in Workers \ {w} : loc'[v] = loc[v]
  BY StepsTyped DEF Step, UseStep, Advances
<1>2. /\ loc[w].at = "readBundle" /\ loc[w].id \in Users /\ loc[w].cert \in Certs
      /\ loc'[w] = Idle /\ UNCHANGED <<grant, approved>>
  BY DEF ReadBundle, Return, At, TypedInv, StateTyped, InPlace
<1>3. loc'[w].at = "idle" /\ loc'[w].grant = 0
  BY <1>2 DEF Idle
<1>4. CASE downloads' = downloads
  BY <1>1, <1>2, <1>3, <1>4, ExportsKept
<1>5. CASE downloads' = [downloads EXCEPT ![<<loc[w].cert, loc[w].id>>] = @ + 1]
  <2>1. GrantsLocked'
    <3>1. \A v \in Workers : At(v, "consume")' => loc'[v] = loc[v] /\ At(v, "consume") /\ loc[v].grant # 0
      BY <1>1, <1>3 DEF At, TypedInv, InPlace
    <3> QED  BY <1>1, <1>2, <1>3, <3>1 DEF ExportInv, GrantsLocked
  <2>2. \A g \in 1..MaxGrants : Locked(g)' => Locked(g)
    BY <1>1, <1>3 DEF Locked, At
  <2>3. ASSUME NEW c \in Certs, NEW u \in Users
        PROVE  downloads'[<<c, u>>] + Cardinality(Open(c, u)') + Cardinality(Readers(c, u)') <= approved'[<<c, u>>]
    <3>0. /\ downloads[<<c, u>>] \in Nat /\ approved[<<c, u>>] \in Nat /\ <<c, u>> \in Certs \X Users
          /\ downloads[<<c, u>>] + Cardinality(Open(c, u)) + Cardinality(Readers(c, u)) <= approved[<<c, u>>]
          /\ downloads \in [Certs \X Users -> Nat]
      BY DEF TypedInv, StateTyped, ExportInv, ExportsCounted
    <3>1. Open(c, u)' \subseteq Open(c, u)
      BY <1>2, <2>2 DEF Open
    <3>2. Cardinality(Open(c, u)') <= Cardinality(Open(c, u))
      BY <3>1, OpenFinite, FS_Subset
    <3>3. CASE c = loc[w].cert /\ u = loc[w].id
      <4>1. Readers(c, u)' = Readers(c, u) \ {w} /\ w \in Readers(c, u)
        BY <3>3, <1>1, <1>2, <1>3 DEF Readers, At
      <4>2. Cardinality(Readers(c, u)') = Cardinality(Readers(c, u)) - 1
        BY <4>1, OpenFinite, FS_RemoveElement
      <4>3. downloads'[<<c, u>>] = downloads[<<c, u>>] + 1
        BY <3>0, <3>3, <1>5
      <4> QED  BY <1>2, <3>0, <3>2, <4>2, <4>3, OpenFinite, OpenFiniteAfter
    <3>4. CASE ~(c = loc[w].cert /\ u = loc[w].id)
      <4>1. Readers(c, u)' = Readers(c, u)
        BY <3>4, <1>1, <1>2, <1>3 DEF Readers, At
      <4>2. <<c, u>> # <<loc[w].cert, loc[w].id>>
        BY <3>4
      <4>3. downloads'[<<c, u>>] = downloads[<<c, u>>]
        BY <3>0, <4>2, <1>5
      <4> QED  BY <1>2, <3>0, <3>2, <4>1, <4>3, OpenFinite, OpenFiniteAfter
    <3> QED  BY <3>3, <3>4
  <2> QED  BY <2>1, <2>3 DEF ExportInv, ExportsCounted
<1> QED  BY <1>4, <1>5 DEF ReadBundle

LEMMA ExportsKeptElsewhere ==
    ASSUME TypedInv, ExportInv, Elsewhere
    PROVE  ExportInv'
<1>1. TypedInv' /\ loc' = loc /\ downloads' = downloads
  BY ElsewhereTyped DEF Elsewhere, Grant, RefuseCert, Issue, RequestExport, DecideExport, Expire, exports
<1>2. CASE UNCHANGED <<grant, approved>>
  BY <1>1, <1>2, ExportsKept
<1>3. CASE \E g \in 1..MaxGrants : Expire(g)
  <2>1. PICK g \in 1..MaxGrants : Expire(g)
    BY <1>3
  <2>2. grant \in [1..MaxGrants -> Grants] /\ approved' = approved
    BY <2>1 DEF TypedInv, StateTyped, Expire
  <2>3. /\ \A h \in 1..MaxGrants \ {g} : grant'[h] = grant[h]
        /\ grant'[g].cert = grant[g].cert /\ grant'[g].user = grant[g].user /\ grant'[g].state = "expired"
    BY <2>1, <2>2 DEF Expire, Grants
  <2> QED  BY <1>1, <2>2, <2>3, ExportsKept
<1>4. ASSUME NEW d \in Certs, NEW x \in Users, MintGrant(d, x)
      PROVE  ExportInv'
  <2>1. PICK h \in 1..MaxGrants :
             /\ grant[h] = NoGrant
             /\ grant' = [grant EXCEPT ![h] = [cert |-> d, user |-> x, state |-> "usable"]]
             /\ approved' = [approved EXCEPT ![<<d, x>>] = @ + 1]
    BY <1>4, Minting
  <2>2. /\ \A g \in 1..MaxGrants \ {h} : grant'[g] = grant[g]
        /\ grant'[h].cert = d /\ grant'[h].user = x /\ grant'[h].state = "usable"
        /\ grant[h].cert = None
    BY <2>1 DEF TypedInv, StateTyped, NoGrant
  <2>3. GrantsLocked'
    <3> SUFFICES ASSUME NEW v \in Workers, At(v, "consume")
                 PROVE  /\ grant'[loc[v].grant].cert = loc[v].cert
                        /\ grant'[loc[v].grant].user = loc[v].id
                        /\ \A y \in Workers : loc[y].grant = loc[v].grant => y = v
      BY <1>1 DEF GrantsLocked, At
    <3>1. loc[v].grant # 0 /\ loc[v].grant \in 0..MaxGrants /\ loc[v].cert \in Certs
      BY DEF At, TypedInv, StateTyped, InPlace, Locals
    <3>2. loc[v].grant \in 1..MaxGrants
      BY <3>1, BoundsAssumption
    <3>3. /\ grant[loc[v].grant].cert = loc[v].cert /\ grant[loc[v].grant].user = loc[v].id
          /\ \A y \in Workers : loc[y].grant = loc[v].grant => y = v
      BY DEF ExportInv, GrantsLocked
    <3>4. loc[v].grant # h
      BY <2>2, <3>1, <3>3, NamesAssumption DEF None
    <3> QED  BY <2>2, <3>2, <3>3, <3>4
  <2>4. \A g \in 1..MaxGrants : Locked(g)' <=> Locked(g)
    BY <1>1 DEF Locked, At
  <2>5. ASSUME NEW c \in Certs, NEW u \in Users
        PROVE  downloads'[<<c, u>>] + Cardinality(Open(c, u)') + Cardinality(Readers(c, u)') <= approved'[<<c, u>>]
    <3>0. /\ downloads[<<c, u>>] \in Nat /\ approved[<<c, u>>] \in Nat /\ <<c, u>> \in Certs \X Users
          /\ downloads[<<c, u>>] + Cardinality(Open(c, u)) + Cardinality(Readers(c, u)) <= approved[<<c, u>>]
          /\ approved \in [Certs \X Users -> Nat]
      BY DEF TypedInv, StateTyped, ExportInv, ExportsCounted
    <3>1. Readers(c, u)' = Readers(c, u)
      BY <1>1 DEF Readers, At
    <3>2. CASE c = d /\ u = x
      <4>1. Open(c, u)' = Open(c, u) \cup {h} /\ h \notin Open(c, u)
        BY <3>2, <2>2, <2>4, NamesAssumption DEF Open, None
      <4>2. Cardinality(Open(c, u)') = Cardinality(Open(c, u)) + 1
        BY <4>1, OpenFinite, FS_AddElement
      <4>3. approved'[<<c, u>>] = approved[<<c, u>>] + 1
        BY <3>0, <3>2, <2>1
      <4> QED  BY <1>1, <3>0, <3>1, <4>2, <4>3, OpenFinite
    <3>3. CASE ~(c = d /\ u = x)
      <4>1. Open(c, u)' = Open(c, u)
        BY <3>3, <2>2, <2>4, NamesAssumption DEF Open, None
      <4>2. <<c, u>> # <<d, x>>
        BY <3>3
      <4>3. approved'[<<c, u>>] = approved[<<c, u>>]
        BY <3>0, <4>2, <2>1
      <4> QED  BY <1>1, <3>0, <3>1, <4>1, <4>3
    <3> QED  BY <3>2, <3>3
  <2> QED  BY <2>3, <2>5 DEF ExportInv, ExportsCounted
<1> QED  BY <1>2, <1>3, <1>4 DEF Elsewhere, Grant, RefuseCert, Issue, RequestExport, DecideExport, exports

LEMMA ExportsKeptBySteps ==
    ASSUME TypedInv, ExportInv, NEW w \in Workers, Step(w)
    PROVE  ExportInv'
<1>1. /\ Advances(w) /\ TypedInv' /\ Follows(loc[w].at, loc'[w].at)
      /\ \A v \in Workers \ {w} : loc'[v] = loc[v]
  BY StepsTyped, StepLabels DEF Advances
<1>2. CASE Consume(w) \/ ReadBundle(w)
  BY <1>2, ExportsKeptByConsume, ExportsKeptByRead
<1>3. CASE ~(Consume(w) \/ ReadBundle(w))
  <2>1. loc[w].at # "consume" /\ UNCHANGED <<approved, downloads>>
    <3>1. CASE IssuerStep(w)
      BY <3>1 DEF IssuerStep, InsertIssuer, NameIssuer, ApplyKeys, ApplyIssuer, ApplyPart, MarkError, SaveIssuer,
         DeleteObjects, DeleteIssuerRow, DeleteGrant, exports, At
    <3>2. CASE CertStep(w)
      BY <3>2 DEF CertStep, InsertCert, NameCert, ApplyCert, SaveCert, DeleteCertRow, DeleteCrd, exports, At
    <3>3. CASE UseStep(w)
      BY <1>3, <3>3 DEF UseStep, SaveDomain, ApplyGateway, SaveClient, exports, At
    <3> QED  BY <3>1, <3>2, <3>3 DEF Step
  <2>2. loc'[w].at \notin {"consume", "readBundle"}
    BY <1>1, <2>1 DEF Follows
  <2>3. CASE DeleteCertRow(w)
    <3>1. grant \in [1..MaxGrants -> Grants]
      BY DEF TypedInv, StateTyped
    <3>2. \A g \in 1..MaxGrants : /\ grant'[g].cert = grant[g].cert /\ grant'[g].user = grant[g].user
                                  /\ grant'[g].state = "usable" => grant[g].state = "usable"
      <4>1. \A g \in 1..MaxGrants : grant'[g] = grant[g] \/ grant'[g] = [grant[g] EXCEPT !.state = "gone"]
        BY <2>3, <3>1 DEF DeleteCertRow
      <4>2. \A g \in 1..MaxGrants : LET r == [grant[g] EXCEPT !.state = "gone"] IN
               r.cert = grant[g].cert /\ r.user = grant[g].user /\ r.state = "gone"
        BY <3>1 DEF Grants
      <4> QED  BY <4>1, <4>2
    <3> QED  BY <1>1, <2>1, <2>2, <3>2, ExportsKept
  <2>4. CASE ~DeleteCertRow(w)
    <3>1. grant' = grant
      <4>1. CASE IssuerStep(w)
        BY <4>1 DEF IssuerStep, InsertIssuer, NameIssuer, ApplyKeys, ApplyIssuer, ApplyPart, MarkError, SaveIssuer,
         DeleteObjects, DeleteIssuerRow, DeleteGrant, exports
      <4>2. CASE CertStep(w)
        BY <2>4, <4>2 DEF CertStep, InsertCert, NameCert, ApplyCert, SaveCert, DeleteCrd, exports
      <4>3. CASE UseStep(w)
        BY <1>3, <4>3 DEF UseStep, SaveDomain, ApplyGateway, SaveClient, exports
      <4> QED  BY <4>1, <4>2, <4>3 DEF Step
    <3> QED  BY <1>1, <2>1, <2>2, <3>1, ExportsKept
  <2> QED  BY <2>3, <2>4
<1> QED  BY <1>2, <1>3

LEMMA ExportsKeptByNext ==
    ASSUME TypedInv, ExportInv, Next
    PROVE  ExportInv'
BY NextCases, ExportsKeptElsewhere, ExportsKeptByRequests, ExportsKeptBySteps

---------------------------------------------------------------------------
LEMMA InitHolds ==
    ASSUME Init
    PROVE  CertUseInv
<1> USE NamesAssumption, InputsAssumption, BoundsAssumption
<1>1. PICK there \in SUBSET Certs, use \in SUBSET Issuers :
          /\ {IssuerOf[c] : c \in there} \subseteq use
          /\ issuer = [i \in Issuers |-> IF i \in use THEN [status |-> "ready", named |-> TRUE] ELSE NoRow]
          /\ objects = [i \in Issuers |-> IF i \in use THEN Parts ELSE {}]
          /\ granted = {<<IssuerOf[c], ProjectOf[c]>> : c \in there}
          /\ born = there \cup use
          /\ cert = [c \in Certs |-> IF c \in there THEN [status |-> "ready", named |-> TRUE] ELSE NoRow]
          /\ crd = there /\ leaf = there
  BY DEF Init
<1>2. /\ domain = [d \in Domains |-> [cert |-> None, secret |-> Byo]]
      /\ live = [d \in Domains |-> Byo]
      /\ client = [k \in Clients |-> [cert |-> None, ca |-> None]]
      /\ grant = [g \in 1..MaxGrants |-> NoGrant]
      /\ approved = [e \in Certs \X Users |-> 0] /\ downloads = approved
      /\ loc = [w \in Workers |-> Idle] /\ blurred = {}
  BY DEF Init
<1>3. \A w \in Workers : loc[w] = Idle /\ loc[w].at = "idle" /\ loc[w].id = None /\ loc[w].grant = 0
  BY <1>2 DEF Idle
<1>4. TypedInv
  <2>1. issuer \in [Issuers -> Rows] /\ cert \in [Certs -> Rows]
    BY <1>1 DEF Rows, NoRow
  <2>2. objects \in [Issuers -> SUBSET Parts]
    BY <1>1
  <2>3. /\ domain \in [Domains -> [cert : Certs \cup {None}, secret : Certs \cup {Byo}]]
        /\ live \in [Domains -> Certs \cup {Byo}]
        /\ client \in [Clients -> [cert : Certs \cup {None}, ca : Issuers \cup {None, Byo}]]
        /\ grant \in [1..MaxGrants -> Grants]
    BY <1>2 DEF Grants, NoGrant
  <2>4. approved \in [Certs \X Users -> Nat] /\ downloads \in [Certs \X Users -> Nat]
    BY <1>2
  <2>5. loc \in [Workers -> Locals] /\ \A w \in Workers : InPlace(loc[w])
    BY <1>2, IdleInPlace
  <2> QED  BY <2>1, <2>2, <2>3, <2>4, <2>5 DEF TypedInv, StateTyped
<1>5. ExportInv
  <2>1. ASSUME NEW c \in Certs, NEW u \in Users
        PROVE  Open(c, u) = {} /\ Readers(c, u) = {} /\ downloads[<<c, u>>] = 0 /\ approved[<<c, u>>] = 0
    <3>1. \A g \in 1..MaxGrants : grant[g].cert = None
      BY <1>2 DEF NoGrant
    <3> QED  BY <1>2, <1>3, <3>1 DEF Open, Readers, None, At
  <2>2. Cardinality({}) = 0
    BY FS_EmptySet
  <2>3. ExportsCounted
    <3> SUFFICES ASSUME NEW c \in Certs, NEW u \in Users
                 PROVE  downloads[<<c, u>>] + Cardinality(Open(c, u)) + Cardinality(Readers(c, u)) <= approved[<<c, u>>]
      BY DEF ExportsCounted
    <3>1. /\ Cardinality(Open(c, u)) = 0 /\ Cardinality(Readers(c, u)) = 0
          /\ downloads[<<c, u>>] = 0 /\ approved[<<c, u>>] = 0
      BY <2>1, <2>2
    <3> QED  BY <3>1
  <2>4. GrantsLocked
    BY <1>3 DEF GrantsLocked, At
  <2> QED  BY <2>3, <2>4 DEF ExportInv
<1>6. OneClientPerCertificate /\ Alone
  BY <1>2, <1>3 DEF OneClientPerCertificate, Alone, At
<1>7. IssuerInv
  <2>1. CountsHold /\ PartsApplied
    BY <1>3 DEF CountsHold, PartsApplied, Counted, Applied
  <2>2. ReadyIsWhole
    BY <1>1 DEF ReadyIsWhole, NoRow, None
  <2>3. CertsGranted
    BY <1>1 DEF CertsGranted
  <2> QED  BY <2>1, <2>2, <2>3 DEF IssuerInv
<1>8. \A c \in Certs : ~AttachedTo(c) /\ ~Chosen(c)
  BY <1>2, <1>3 DEF AttachedTo, Chosen, None
<1>9. \A c \in Certs : c \notin there => cert[c] = NoRow /\ cert[c].status # "ready"
  BY <1>1 DEF NoRow, None
<1>10. CertInv
  <2>1. Inserted
    BY <1>1, <1>3, <1>9 DEF Inserted
  <2>2. ReadyHasKey /\ NamedOnce
    BY <1>1, <1>3, <1>9 DEF ReadyHasKey, NamedOnce, At
  <2>3. ChosenWasReady /\ ForeignKeys
    BY <1>8 DEF ChosenWasReady, ForeignKeys
  <2>4. KeyHasObject
    BY <1>1, <1>3 DEF KeyHasObject, At
  <2>5. LiveFollowsRow
    BY <1>2, <1>3 DEF LiveFollowsRow, Applying, At, TlsSecret
  <2> QED  BY <2>1, <2>2, <2>3, <2>4, <2>5 DEF CertInv
<1> QED  BY <1>4, <1>5, <1>6, <1>7, <1>10 DEF CertUseInv

\* Issuers, certificates, exports, domains and clients together keep the
\* inductive invariant, whatever requests run at the same time and fail.
THEOREM CertUseInvariant == Spec => []CertUseInv
<1>1. Init => CertUseInv
  BY InitHolds
<1>2. CertUseInv /\ [Next]_vars => CertUseInv'
  <2> SUFFICES ASSUME CertUseInv, [Next]_vars
               PROVE  CertUseInv'
    OBVIOUS
  <2>1. CASE Next
    BY <2>1, TypedKept, ExportsKeptByNext, OneClientKept, AloneKept, IssuerKept, CertKept DEF CertUseInv
  <2>2. CASE UNCHANGED vars
    <3> USE <2>2 DEF vars, issuers, certs, exports, uses, bounds
    <3>1. TypedInv'
      BY DEF CertUseInv, TypedInv, StateTyped
    <3>2. ExportInv'
      BY <3>1, ExportsKept DEF CertUseInv
    <3>3. OneClientPerCertificate' /\ Alone'
      BY DEF CertUseInv, OneClientPerCertificate, Alone, At
    <3>4. CertsGranted'
      BY DEF CertUseInv, IssuerInv, CertsGranted
    <3>5. IssuerInv'
      BY <3>1, <3>4, IssuersKept DEF CertUseInv
    <3>6. CertInv'
      BY CertsKept DEF CertUseInv
    <3> QED  BY <3>1, <3>2, <3>3, <3>5, <3>6 DEF CertUseInv
  <2> QED  BY <2>1, <2>2
<1> QED  BY <1>1, <1>2, PTL DEF Spec

\* A key leaves FastGateway at most once for every approved export, however many
\* users and grants there are and whatever downloads run at the same time.
THEOREM ExportsApproved == Spec => []ExportsWereApproved
<1>1. CertUseInv => ExportsWereApproved
  <2> SUFFICES ASSUME CertUseInv, NEW c \in Certs, NEW u \in Users
               PROVE  downloads[<<c, u>>] + Cardinality(Usable(c, u)) + Cardinality(Readers(c, u))
                        <= approved[<<c, u>>]
    BY DEF ExportsWereApproved, Readers
  <2>1. /\ downloads[<<c, u>>] \in Nat /\ approved[<<c, u>>] \in Nat
        /\ downloads[<<c, u>>] + Cardinality(Open(c, u)) + Cardinality(Readers(c, u)) <= approved[<<c, u>>]
        /\ grant \in [1..MaxGrants -> Grants]
    BY DEF CertUseInv, TypedInv, StateTyped, ExportInv, ExportsCounted
  <2>2. Usable(c, u) \subseteq Open(c, u)
    BY <2>1 DEF Usable, Open
  <2>3. IsFiniteSet(Usable(c, u)) /\ Cardinality(Usable(c, u)) <= Cardinality(Open(c, u))
    BY <2>2, OpenFinite, FS_Subset
  <2>4. Cardinality(Usable(c, u)) \in Nat
    BY <2>3, FS_CardinalityType
  <2> QED  BY <2>1, <2>3, <2>4, OpenFinite
<1> QED  BY <1>1, CertUseInvariant, PTL

\* The Gateway of a domain with a certificate refers to one that exists and is
\* renewed: no delete removes it between the check of an attachment and its write.
THEOREM ServedExists == Spec => []ServedCertificateExists
<1>1. CertUseInv => ServedCertificateExists
  <2> SUFFICES ASSUME CertUseInv, NEW d \in Domains, d \notin blurred,
                      live[d] \in Certs \ (blurred \cup {domain[d].secret}),
                      ~(\E w \in Workers : loc[w].id = d /\ At(w, "applyGateway"))
               PROVE  cert[live[d]] # NoRow /\ live[d] \in crd
    BY DEF ServedCertificateExists
  <2>1. live[d] = TlsSecret(domain[d].cert, domain[d].secret)
    BY DEF CertUseInv, CertInv, LiveFollowsRow, Applying
  <2>2. domain[d].cert = live[d]
    BY <2>1 DEF TlsSecret
  <2>3. AttachedTo(live[d])
    BY <2>2 DEF AttachedTo
  <2>4. cert[live[d]] # NoRow /\ live[d] \in leaf
    BY <2>3 DEF CertUseInv, CertInv, ForeignKeys, ChosenWasReady, Chosen
  <2> QED  BY <2>4 DEF CertUseInv, CertInv, KeyHasObject
<1> QED  BY <1>1, CertUseInvariant, PTL

\* The issuer of every certificate is whole and granted to its project, whatever
\* deletes and revocations counted certificates meanwhile.
THEOREM IssuerServes == Spec => []IssuerServesItsCertificates
<1>1. CertUseInv => IssuerServesItsCertificates
  <2> SUFFICES ASSUME CertUseInv, NEW c \in Certs, cert[c] # NoRow, {c, IssuerOf[c]} \cap blurred = {}
               PROVE  /\ <<IssuerOf[c], ProjectOf[c]>> \in granted
                      /\ issuer[IssuerOf[c]].status = "ready" => objects[IssuerOf[c]] = Parts
    BY DEF IssuerServesItsCertificates
  <2>1. <<IssuerOf[c], ProjectOf[c]>> \in granted
    BY DEF CertUseInv, IssuerInv, CertsGranted
  <2>2. IssuerOf[c] \in Issuers \ blurred /\ c \in CountByIssuer(IssuerOf[c])
    BY InputsAssumption DEF CountByIssuer
  <2>3. ~(\E w \in Workers : At(w, "deleteIssuerRow") /\ loc[w].id = IssuerOf[c])
    BY <2>2 DEF CertUseInv, IssuerInv, CountsHold, Counted, At
  <2> QED  BY <2>1, <2>2, <2>3 DEF CertUseInv, IssuerInv, ReadyIsWhole
<1> QED  BY <1>1, CertUseInvariant, PTL

\* No two clients ever have one certificate.
THEOREM OneClient == Spec => []OneClientPerCertificate
BY CertUseInvariant, PTL DEF CertUseInv
=============================================================================
