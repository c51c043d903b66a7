------------------------------- MODULE CertUse -------------------------------
(***************************************************************************)
(* What certificates come from and are used for: issuers and their grants  *)
(* to projects (certificate_issuer_service.go, issuer_grant_service.go),   *)
(* requests for certificates and for the export of their keys              *)
(* (managed_certificate_service.go), and the domains and clients that a    *)
(* certificate is attached to (domain_service.go,                          *)
(* clients/client_certificate.go).                                         *)
(*                                                                         *)
(* A request reads and checks in one step and writes in later ones; rows   *)
(* are written whole and the foreign keys of the database are checked by   *)
(* each write.  The life of one certificate, its approval and its copies   *)
(* in the clusters are in CertDistribution; here a certificate is its row, *)
(* cert-manager's object and the issued key.                               *)
(***************************************************************************)
EXTENDS Naturals, FiniteSets

CONSTANTS
    Workers,     \* requests served at the same time
    Issuers, Certs, Domains, Clients, Users, Projects, \* ids
    KindOf,      \* issuer -> "ca" or "acme"
    IssuerOf, ProjectOf, UsageOf, ModeOf, \* what a certificate is created with
    HomeOf,      \* the project of a domain
    AccessOf,    \* projects in which the team of a client has a role
    MaxGrants,   \* bound: export grants
    MaxRequests, \* bound: requests
    MaxFailures  \* bound: calls that fail

ASSUME InputsAssumption == /\ KindOf \in [Issuers -> {"ca", "acme"}]
                           /\ IssuerOf \in [Certs -> Issuers]
                           /\ ProjectOf \in [Certs -> Projects]
                           /\ UsageOf \in [Certs -> {"server", "client"}]
                           /\ ModeOf \in [Certs -> {"managed", "csr"}]
                           /\ HomeOf \in [Domains -> Projects]
                           /\ AccessOf \in [Clients -> SUBSET Projects]
\* Nothing is named like the NULL of a column or like a secret of the user's own,
\* and there are finitely many requests at a time.
ASSUME NamesAssumption == {"none", "byo"} \cap (Certs \cup Issuers \cup Domains \cup Clients \cup Users) = {}
ASSUME WorkersAssumption == IsFiniteSet(Workers)
ASSUME BoundsAssumption == {MaxGrants, MaxRequests, MaxFailures} \subseteq Nat

None == "none"
Byo == "byo" \* a secret or a CA of the user's own
Parts == {"keys", "issuer"} \* what an issuer has in the control plane

VARIABLES
    issuer,    \* certificate_issuers: status, and whether names are recorded
    objects,   \* the parts of each issuer that are in the control plane
    granted,   \* issuer_project_grants
    cert,      \* managed_certificates: status, and whether names are recorded
    born,      \* issuers and certificates that were ever inserted: ids are new
    crd,       \* certificates whose cert-manager object exists
    leaf,      \* certificates whose key pair was issued
    domain,    \* domains: the managed certificate and the name of a secret
    live,      \* the secret that the Gateway of each domain refers to
    client,    \* clients: the managed certificate and the CA
    asked,     \* pending approvals of exports
    grant,     \* certificate_export_grants, by age
    loc,       \* what each worker holds in memory
    requests, failures,
    approved, downloads, \* history: exports by certificate and user
    blurred    \* history: ids whose requests overlapped or lost a write

issuers == <<issuer, objects, granted>>
certs == <<cert, born, crd, leaf>>
exports == <<asked, grant, approved, downloads>>
uses == <<domain, live, client>>
bounds == <<requests, failures>>
vars == <<issuers, certs, exports, uses, bounds, loc, blurred>>

NoRow == [status |-> None, named |-> FALSE]
NoGrant == [cert |-> None, user |-> None, state |-> None]
Idle == [op |-> "idle", at |-> "idle", id |-> None, row |-> NoRow, project |-> None,
         cert |-> None, other |-> None, grant |-> 0]

\* A new installation, or one with issuers and certificates that are in order.
Init ==
    /\ \E there \in SUBSET Certs, use \in SUBSET Issuers :
          /\ {IssuerOf[c] : c \in there} \subseteq use
          /\ issuer = [i \in Issuers |-> IF i \in use THEN [status |-> "ready", named |-> TRUE]
                                         ELSE NoRow]
          /\ objects = [i \in Issuers |-> IF i \in use THEN Parts ELSE {}]
          /\ granted = {<<IssuerOf[c], ProjectOf[c]>> : c \in there}
          /\ born = there \cup use
          /\ cert = [c \in Certs |-> IF c \in there THEN [status |-> "ready", named |-> TRUE]
                                     ELSE NoRow]
          /\ crd = there /\ leaf = there
    /\ domain = [d \in Domains |-> [cert |-> None, secret |-> Byo]]
    /\ live = [d \in Domains |-> Byo]
    /\ client = [k \in Clients |-> [cert |-> None, ca |-> None]]
    /\ asked = {} /\ grant = [g \in 1..MaxGrants |-> NoGrant]
    /\ approved = [e \in Certs \X Users |-> 0] /\ downloads = approved
    /\ loc = [w \in Workers |-> Idle]
    /\ requests = 0 /\ failures = 0
    /\ blurred = {}

---------------------------------------------------------------------------
At(w, label) == loc[w].at = label
Goto(w, label) == loc' = [loc EXCEPT ![w].at = label]
Return(w) == loc' = [loc EXCEPT ![w] = Idle]
Fail == failures < MaxFailures /\ failures' = failures + 1
Blur(id) == blurred' = blurred \cup {id}

\* A worker takes up a request with what it has read.
Begin(w, l) ==
    /\ At(w, "idle")
    /\ requests < MaxRequests /\ requests' = requests + 1
    /\ loc' = [loc EXCEPT ![w] = l]
    /\ blurred' = blurred \cup {loc[v].id : v \in {u \in Workers : loc[u] # Idle /\ loc[u].id = l.id}}
    /\ UNCHANGED <<issuers, certs, exports, uses, failures>>

\* Foreign keys: rows that refer to a certificate or to an issuer.
AttachedTo(c) == \/ \E d \in Domains : domain[d].cert = c
                 \/ \E k \in Clients : client[k].cert = c
CountByIssuer(i) == {c \in Certs : cert[c] # NoRow /\ IssuerOf[c] = i}

---------------------------------------------------------------------------
\* Issuers: the row, the names of its objects, the objects, the status.

CreateIssuer(w, i) ==
    /\ i \notin born
    /\ Begin(w, [Idle EXCEPT !.op = "createIssuer", !.id = i, !.at = "insertIssuer",
                    !.row = [status |-> "pending", named |-> FALSE]])

InsertIssuer(w) ==
    /\ At(w, "insertIssuer")
    /\ IF loc[w].id \notin born
       THEN /\ issuer' = [issuer EXCEPT ![loc[w].id] = loc[w].row]
            /\ born' = born \cup {loc[w].id}
            /\ loc' = [loc EXCEPT ![w].row.named = TRUE, ![w].at = "nameIssuer"]
       ELSE Return(w) /\ UNCHANGED <<issuer, born>>
    /\ UNCHANGED <<objects, granted, cert, crd, leaf, exports, uses, bounds, blurred>>

\* Save: the row is written whole, and inserted again when it is gone.
NameIssuer(w) ==
    /\ At(w, "nameIssuer")
    /\ \/ issuer' = [issuer EXCEPT ![loc[w].id] = loc[w].row] /\ Goto(w, "applyKeys") /\ UNCHANGED failures
       \/ Fail /\ Return(w) /\ UNCHANGED issuer
    /\ UNCHANGED <<objects, granted, certs, exports, uses, requests, blurred>>

ApplyPart(w, part, next) ==
    /\ objects' = [objects EXCEPT ![loc[w].id] = @ \cup {part}]
    /\ loc' = [loc EXCEPT ![w].at = next,
                          ![w].row.status = IF next = "saveIssuer" THEN "ready" ELSE @]
    /\ UNCHANGED <<issuer, granted, certs, exports, uses, bounds, blurred>>
ApplyKeys(w) == At(w, "applyKeys") /\ ApplyPart(w, "keys", "applyIssuer")
ApplyIssuer(w) == At(w, "applyIssuer") /\ ApplyPart(w, "issuer", "saveIssuer")

\* markError: the row keeps the names, so that Delete finds what was applied.
MarkError(w) ==
    /\ loc[w].at \in {"applyKeys", "applyIssuer"} /\ Fail
    /\ loc' = [loc EXCEPT ![w].row.status = "error", ![w].at = "saveIssuer"]
    /\ UNCHANGED <<issuers, certs, exports, uses, requests, blurred>>

\* The result of this save is ignored.
SaveIssuer(w) ==
    /\ At(w, "saveIssuer")
    /\ \/ issuer' = [issuer EXCEPT ![loc[w].id] = loc[w].row] /\ UNCHANGED failures
       \/ Fail /\ UNCHANGED issuer
    /\ Return(w)
    /\ UNCHANGED <<objects, granted, certs, exports, uses, requests, blurred>>

\* Mutant of DeleteIssuer: left to the foreign key.
DeleteIssuer_Uncounted(w, i) ==
    /\ issuer[i] # NoRow
    /\ Begin(w, [Idle EXCEPT !.op = "deleteIssuer", !.id = i, !.at = "deleteObjects", !.row = issuer[i]])

DeleteIssuer(w, i) ==
    /\ issuer[i] # NoRow /\ CountByIssuer(i) = {}
    /\ Begin(w, [Idle EXCEPT !.op = "deleteIssuer", !.id = i, !.at = "deleteObjects", !.row = issuer[i]])

\* The objects go first, as far as they can be deleted; errors are dropped.
DeleteObjects(w) ==
    LET i == loc[w].id IN
    /\ At(w, "deleteObjects")
    /\ \/ /\ objects' = [objects EXCEPT ![i] = IF loc[w].row.named THEN {} ELSE @]
          /\ UNCHANGED <<failures, blurred>>
       \/ /\ Fail /\ Blur(i)
          /\ \E rest \in SUBSET objects[i] : objects' = [objects EXCEPT ![i] = rest]
    /\ Goto(w, "deleteIssuerRow")
    /\ UNCHANGED <<issuer, granted, certs, exports, uses, requests>>

\* A certificate that came meanwhile keeps the row, whose objects are gone.
DeleteIssuerRow(w) ==
    LET i == loc[w].id IN
    /\ At(w, "deleteIssuerRow")
    /\ IF CountByIssuer(i) = {}
       THEN /\ issuer' = [issuer EXCEPT ![i] = NoRow]
            /\ granted' = {g \in granted : g[1] # i}
       ELSE UNCHANGED <<issuer, granted>>
    /\ Return(w)
    /\ UNCHANGED <<objects, certs, exports, uses, bounds, blurred>>

Grant(i, p) ==
    /\ issuer[i] # NoRow /\ <<i, p>> \notin granted
    /\ granted' = granted \cup {<<i, p>>}
    /\ UNCHANGED <<issuer, objects, certs, exports, uses, bounds, loc, blurred>>

\* Mutant of Revoke: certificates that use the grant are not counted.
Revoke_Uncounted(w, i, p) ==
    /\ <<i, p>> \in granted
    /\ Begin(w, [Idle EXCEPT !.op = "revoke", !.id = i, !.project = p, !.at = "deleteGrant"])

Revoke(w, i, p) ==
    /\ <<i, p>> \in granted
    /\ \A c \in CountByIssuer(i) : ProjectOf[c] # p
    /\ Begin(w, [Idle EXCEPT !.op = "revoke", !.id = i, !.project = p, !.at = "deleteGrant"])

DeleteGrant(w) ==
    /\ At(w, "deleteGrant")
    /\ granted' = granted \ {<<loc[w].id, loc[w].project>>}
    /\ Return(w)
    /\ UNCHANGED <<issuer, objects, certs, exports, uses, bounds, blurred>>

---------------------------------------------------------------------------
\* Certificates.

\* ValidateCertificateKind: ACME issues server certificates only, and only a
\* client may keep its key and send a signing request.
ValidateCertificateKind(c) ==
    /\ UsageOf[c] = "client" => KindOf[IssuerOf[c]] = "ca"
    /\ ModeOf[c] = "csr" => UsageOf[c] = "client"

\* Create; a revoke or a delete of the issuer that runs now may have counted.
Counting(i) == \E v \in Workers : loc[v].id = i /\ loc[v].op \in {"revoke", "deleteIssuer"}
CreateCert(w, c) ==
    /\ c \notin born /\ ValidateCertificateKind(c)
    /\ <<IssuerOf[c], ProjectOf[c]>> \in granted /\ issuer[IssuerOf[c]].named
    /\ Begin(w, [Idle EXCEPT !.op = "createCert", !.id = c, !.at = "insertCert",
                    !.row = [status |-> "pending", named |-> FALSE]])

InsertCert(w) ==
    LET c == loc[w].id IN
    /\ At(w, "insertCert")
    /\ IF c \notin born /\ issuer[IssuerOf[c]] # NoRow
       THEN /\ cert' = [cert EXCEPT ![c] = loc[w].row]
            /\ born' = born \cup {c}
            /\ loc' = [loc EXCEPT ![w].row.named = TRUE, ![w].at = "nameCert"]
       ELSE Return(w) /\ UNCHANGED <<cert, born>>
    /\ blurred' = IF Counting(IssuerOf[c]) \/ <<IssuerOf[c], ProjectOf[c]>> \notin granted
                  THEN blurred \cup {c, IssuerOf[c]} ELSE blurred
    /\ UNCHANGED <<issuers, crd, leaf, exports, uses, bounds>>

\* Save of a certificate: inserted again when it is gone, if the issuer is there.
StoreCert(w) ==
    LET c == loc[w].id IN
    /\ cert' = IF issuer[IssuerOf[c]] = NoRow THEN cert ELSE [cert EXCEPT ![c] = loc[w].row]
    /\ blurred' = IF cert[c] = NoRow THEN blurred \cup {c, IssuerOf[c]} ELSE blurred

\* With the names the request is complete: it waits for its approval or, in a
\* project without approvals, goes on at once.
NameCert(w) ==
    /\ At(w, "nameCert")
    /\ \/ StoreCert(w) /\ (Return(w) \/ Goto(w, "applyCert")) /\ UNCHANGED failures
       \/ Fail /\ Return(w) /\ UNCHANGED <<cert, blurred>>
    /\ UNCHANGED <<issuers, born, crd, leaf, exports, uses, requests>>

\* OnApproved for a create reads the rows, applies the object, saves the row.
ApproveCert(w, c) ==
    /\ cert[c] = [status |-> "pending", named |-> TRUE]
    /\ Begin(w, [Idle EXCEPT !.op = "approveCert", !.id = c, !.at = "applyCert", !.row = cert[c]])
ApplyCert(w) ==
    /\ At(w, "applyCert")
    /\ \/ /\ crd' = crd \cup {loc[w].id} /\ UNCHANGED failures
          /\ loc' = [loc EXCEPT ![w].row.status = "issuing", ![w].at = "saveCert"]
       \/ /\ Fail /\ UNCHANGED crd
          /\ loc' = [loc EXCEPT ![w].row.status = "error", ![w].at = "saveCert"]
    /\ UNCHANGED <<issuers, cert, born, leaf, exports, uses, requests, blurred>>

\* OnRejected and OnCancelled for a create.
RefuseCert(c) ==
    /\ cert[c] = [status |-> "pending", named |-> TRUE]
    /\ \/ cert' = [cert EXCEPT ![c].status = "error"]
       \/ cert' = [cert EXCEPT ![c] = NoRow]
    /\ UNCHANGED <<issuers, born, crd, leaf, exports, uses, bounds, loc, blurred>>

\* cert-manager issues the key pair.
Issue(c) ==
    /\ c \in crd \ leaf /\ objects[IssuerOf[c]] = Parts
    /\ leaf' = leaf \cup {c}
    /\ UNCHANGED <<issuers, cert, born, crd, exports, uses, bounds, loc, blurred>>

\* Status asks cert-manager and saves the row it has read.
Status(w, c) ==
    /\ cert[c].named /\ c \in crd
    /\ Begin(w, [Idle EXCEPT !.op = "status", !.id = c, !.at = "saveCert",
                    !.row = [cert[c] EXCEPT !.status = IF c \in leaf THEN "ready" ELSE "issuing"]])
SaveCert(w) ==
    /\ At(w, "saveCert")
    /\ \/ StoreCert(w) /\ UNCHANGED failures
       \/ Fail /\ UNCHANGED <<cert, blurred>>
    /\ Return(w)
    /\ UNCHANGED <<issuers, born, crd, leaf, exports, uses, requests>>

DeleteCert(w, c) ==
    /\ cert[c] # NoRow /\ ~AttachedTo(c)
    /\ Begin(w, [Idle EXCEPT !.op = "deleteCert", !.id = c, !.at = "deleteCertRow", !.row = cert[c]])

\* Mutant of DeleteCertRow: what the row stands for goes first.
DeleteCertRow_ObjectsFirst(w) ==
    LET c == loc[w].id IN
    /\ At(w, "deleteCertRow")
    /\ crd' = crd \ {c}
    /\ cert' = IF AttachedTo(c) THEN cert ELSE [cert EXCEPT ![c] = NoRow]
    /\ Return(w)
    /\ UNCHANGED <<issuers, born, leaf, exports, uses, bounds, blurred>>

\* The row, with its export grants; it waits for a grant that is locked, and a
\* domain or client that came meanwhile keeps it.
DeleteCertRow(w) ==
    LET c == loc[w].id IN
    /\ At(w, "deleteCertRow")
    /\ \A v \in Workers : loc[v].grant # 0 => loc[v].cert # c
    /\ IF AttachedTo(c) THEN Return(w) /\ UNCHANGED <<cert, grant>>
       ELSE /\ cert' = [cert EXCEPT ![c] = NoRow]
            /\ grant' = [g \in DOMAIN grant |-> IF grant[g].cert = c THEN [grant[g] EXCEPT !.state = "gone"]
                                                ELSE grant[g]]
            /\ Goto(w, "deleteCrd")
    /\ UNCHANGED <<issuers, born, crd, leaf, asked, approved, downloads, uses, bounds, blurred>>

\* Then the object and the copy in the project's cluster; failures are logged.
DeleteCrd(w) ==
    /\ At(w, "deleteCrd")
    /\ \/ crd' = crd \ {loc[w].id} /\ UNCHANGED failures
       \/ Fail /\ UNCHANGED crd
    /\ Return(w)
    /\ UNCHANGED <<issuers, cert, born, leaf, exports, uses, requests, blurred>>

---------------------------------------------------------------------------
\* Exports.

\* RequestExport, and OnApproved for an export: a grant for the requester.
MintGrant(c, u) ==
    \E g \in DOMAIN grant :
        /\ grant[g] = NoGrant /\ \A h \in 1..(g - 1) : grant[h] # NoGrant
        /\ grant' = [grant EXCEPT ![g] = [cert |-> c, user |-> u, state |-> "usable"]]
        /\ approved' = [approved EXCEPT ![<<c, u>>] = @ + 1]
RequestExport(c, u) ==
    /\ ModeOf[c] = "managed" /\ cert[c].status = "ready" /\ <<c, u>> \notin asked
    /\ \/ asked' = asked \cup {<<c, u>>} /\ UNCHANGED <<grant, approved>>
       \/ MintGrant(c, u) /\ UNCHANGED asked
    /\ UNCHANGED <<issuers, certs, downloads, uses, bounds, loc, blurred>>
DecideExport(c, u) ==
    /\ <<c, u>> \in asked
    /\ asked' = asked \ {<<c, u>>}
    /\ \/ cert[c] # NoRow /\ MintGrant(c, u)
       \/ UNCHANGED <<grant, approved>>
    /\ UNCHANGED <<issuers, certs, downloads, uses, bounds, loc, blurred>>

\* Fifteen minutes have passed.
Expire(g) ==
    /\ grant[g].state = "usable"
    /\ grant' = [grant EXCEPT ![g].state = "expired"]
    /\ UNCHANGED <<issuers, certs, asked, approved, downloads, uses, bounds, loc, blurred>>

Usable(c, u) == {g \in DOMAIN grant : grant[g] = [cert |-> c, user |-> u, state |-> "usable"]}

\* Mutant of ExportBundle: the grant is read without a lock.
ExportBundle_NoLock(w, c, u) ==
    \E g \in Usable(c, u) :
        /\ \A h \in Usable(c, u) : h <= g
        /\ Begin(w, [Idle EXCEPT !.op = "export", !.id = u, !.cert = c, !.grant = g, !.at = "consume"])

\* ConsumeForCert locks the newest usable grant; a second one waits for it.
ExportBundle(w, c, u) ==
    \E g \in Usable(c, u) :
        /\ \A h \in Usable(c, u) : h <= g
        /\ \A v \in Workers : loc[v].grant # g
        /\ Begin(w, [Idle EXCEPT !.op = "export", !.id = u, !.cert = c, !.grant = g, !.at = "consume"])
Consume(w) ==
    /\ At(w, "consume")
    /\ \/ /\ grant' = [grant EXCEPT ![loc[w].grant].state = "used"]
          /\ loc' = [loc EXCEPT ![w].grant = 0, ![w].at = "readBundle"]
          /\ UNCHANGED failures
       \/ Fail /\ Return(w) /\ UNCHANGED grant
    /\ UNCHANGED <<issuers, certs, asked, approved, downloads, uses, requests, blurred>>

\* The keys are read after the grant is spent.  Only a CA has the secret that
\* the chain is read from: the bundle of an ACME certificate is never complete.
HasCASecret(i) == KindOf[i] = "ca" /\ "keys" \in objects[i]
ReadBundle(w) ==
    LET c == loc[w].cert IN
    /\ At(w, "readBundle")
    /\ \/ /\ cert[c] # NoRow /\ c \in leaf /\ HasCASecret(IssuerOf[c])
          /\ downloads' = [downloads EXCEPT ![<<c, loc[w].id>>] = @ + 1]
          /\ UNCHANGED failures
       \/ /\ ~(cert[c] # NoRow /\ c \in leaf /\ HasCASecret(IssuerOf[c]))
          /\ UNCHANGED <<downloads, failures>>
       \/ Fail /\ UNCHANGED downloads
    /\ Return(w)
    /\ UNCHANGED <<issuers, certs, asked, grant, approved, uses, requests, blurred>>

---------------------------------------------------------------------------
\* Domains: the row, then the Gateway built from it.

MayServe(d, c) == /\ cert[c].status = "ready" /\ ProjectOf[c] = HomeOf[d]
                  /\ UsageOf[c] = "server"
StoreLater(w, op, d, row) ==
    Begin(w, [Idle EXCEPT !.op = op, !.id = d, !.at = "saveDomain", !.cert = row.cert, !.other = row.secret])

AttachDomain(w, d, c) ==
    MayServe(d, c) /\ StoreLater(w, "attachDomain", d, [domain[d] EXCEPT !.cert = c])
DetachDomain(w, d) == StoreLater(w, "detachDomain", d, [domain[d] EXCEPT !.cert = None])

\* Update with the name of a secret: inferManagedCert attaches the certificate
\* whose secret it is, if that one is ready.
InferManagedCert(d, secret) == IF secret \in Certs /\ MayServe(d, secret) THEN secret ELSE None
UpdateDomain(w, d, secret) ==
    StoreLater(w, "updateDomain", d, [cert |-> InferManagedCert(d, secret), secret |-> secret])

SaveDomain(w) ==
    LET l == loc[w] IN
    /\ At(w, "saveDomain")
    /\ IF l.cert = None \/ cert[l.cert] # NoRow
       THEN /\ domain' = [domain EXCEPT ![l.id] = [cert |-> l.cert, secret |-> l.other]]
            /\ Goto(w, "applyGateway")
       ELSE Return(w) /\ UNCHANGED domain
    /\ UNCHANGED <<issuers, certs, exports, live, client, bounds, blurred>>

\* BuildGatewayConfig: a managed certificate wins over the named secret.
TlsSecret(cert_, secret) == IF cert_ # None THEN cert_ ELSE secret
ApplyGateway(w) ==
    LET l == loc[w] IN
    /\ At(w, "applyGateway")
    /\ \/ live' = [live EXCEPT ![l.id] = TlsSecret(l.cert, l.other)] /\ UNCHANGED <<failures, blurred>>
       \/ Fail /\ Blur(l.id) /\ UNCHANGED live
    /\ Return(w)
    /\ UNCHANGED <<issuers, certs, exports, domain, client, requests>>

---------------------------------------------------------------------------
\* Clients.

AttachClient(w, k, c) ==
    /\ UsageOf[c] = "client" /\ cert[c].status = "ready"
    /\ ProjectOf[c] \in AccessOf[k]
    /\ client[k].cert = None /\ \A j \in Clients \ {k} : client[j].cert # c
    /\ HasCASecret(IssuerOf[c])
    /\ Begin(w, [Idle EXCEPT !.op = "attachClient", !.id = k, !.at = "saveClient",
                    !.cert = c, !.other = IssuerOf[c]])
DetachClient(w, k) ==
    /\ client[k].cert # None
    /\ Begin(w, [Idle EXCEPT !.op = "detachClient", !.id = k, !.at = "saveClient"])

\* UpdateClientMTLS replaces or clears the CA and keeps the certificate.
UpdateClientMTLS(w, k, ca) ==
    Begin(w, [Idle EXCEPT !.op = "updateClient", !.id = k, !.at = "saveClient",
                 !.cert = client[k].cert, !.other = ca])

\* Mutant of UniqueManagedCertificate: there is no such index.
UniqueManagedCertificate_None(k, c) == TRUE
\* The unique index on clients.managed_certificate_id of migration 44.
UniqueManagedCertificate(k, c) == c = None \/ \A j \in Clients \ {k} : client[j].cert # c
SaveClient(w) ==
    LET l == loc[w] IN
    /\ At(w, "saveClient")
    /\ client' = IF (l.cert = None \/ cert[l.cert] # NoRow) /\ UniqueManagedCertificate(l.id, l.cert)
                 THEN [client EXCEPT ![l.id] = [cert |-> l.cert, ca |-> l.other]] ELSE client
    /\ Return(w)
    /\ UNCHANGED <<issuers, certs, exports, domain, live, bounds, blurred>>

---------------------------------------------------------------------------
Next ==
    \/ \E i \in Issuers, p \in Projects : Grant(i, p)
    \/ \E c \in Certs : RefuseCert(c) \/ Issue(c)
    \/ \E c \in Certs, u \in Users : RequestExport(c, u) \/ DecideExport(c, u)
    \/ \E g \in 1..MaxGrants : Expire(g)
    \/ \E w \in Workers :
          \/ \E i \in Issuers : CreateIssuer(w, i) \/ DeleteIssuer(w, i)
                                  \/ \E p \in Projects : Revoke(w, i, p)
          \/ InsertIssuer(w) \/ NameIssuer(w) \/ ApplyKeys(w) \/ ApplyIssuer(w) \/ MarkError(w)
          \/ SaveIssuer(w) \/ DeleteObjects(w) \/ DeleteIssuerRow(w) \/ DeleteGrant(w)
          \/ \E c \in Certs : \/ CreateCert(w, c) \/ ApproveCert(w, c) \/ Status(w, c)
                              \/ DeleteCert(w, c)
                              \/ \E u \in Users : ExportBundle(w, c, u)
                              \/ \E d \in Domains : AttachDomain(w, d, c)
                              \/ \E k \in Clients : AttachClient(w, k, c)
          \/ InsertCert(w) \/ NameCert(w) \/ ApplyCert(w) \/ SaveCert(w)
          \/ DeleteCertRow(w) \/ DeleteCrd(w) \/ Consume(w) \/ ReadBundle(w)
          \/ \E d \in Domains : DetachDomain(w, d)
                                  \/ \E s \in Certs \cup {Byo} : UpdateDomain(w, d, s)
          \/ SaveDomain(w) \/ ApplyGateway(w)
          \/ \E k \in Clients : DetachClient(w, k) \/ \E ca \in {None, Byo} : UpdateClientMTLS(w, k, ca)
          \/ SaveClient(w)

Spec == Init /\ [][Next]_vars

---------------------------------------------------------------------------
\* A key leaves FastGateway at most once for every export that was approved, in
\* whatever order downloads, expiries and further requests happen: what was
\* downloaded and what may still be downloaded never exceed the approvals.
ExportsWereApproved ==
    \A c \in Certs, u \in Users :
        downloads[<<c, u>>] + Cardinality(Usable(c, u))
          + Cardinality({w \in Workers : At(w, "readBundle") /\ loc[w].cert = c /\ loc[w].id = u})
            <= approved[<<c, u>>]

\* The Gateway of a domain that has a certificate attached refers to a
\* certificate that exists and is renewed: a delete that races the attachment
\* does not remove it.  (A detach whose Gateway could not be applied, and
\* requests that overlap on one domain or one certificate, can leave a Gateway
\* behind; so does a secret that was chosen by its name.)
ServedCertificateExists ==
    \A d \in Domains : d \notin blurred /\ live[d] \in Certs \ (blurred \cup {domain[d].secret}) =>
        \/ cert[live[d]] # NoRow /\ live[d] \in crd
        \/ \E w \in Workers : loc[w].id = d /\ At(w, "applyGateway")

\* A certificate can be renewed: its issuer has all of its objects and is
\* granted to its project, whatever deletes and revocations were tried.  (One
\* that counted just before the certificate was inserted wins.)
IssuerServesItsCertificates ==
    \A c \in Certs : cert[c] # NoRow /\ {c, IssuerOf[c]} \cap blurred = {} =>
        /\ <<IssuerOf[c], ProjectOf[c]>> \in granted
        /\ issuer[IssuerOf[c]].status = "ready" => objects[IssuerOf[c]] = Parts

\* Two clients never have the same certificate, also when both attached it at
\* the same time or one writes back a row that it read before a detach.
OneClientPerCertificate ==
    \A j, k \in Clients : j # k /\ client[j].cert # None => client[j].cert # client[k].cert

\* A detach reverts the listener to a secret of the user's own: the Gateway that
\* is applied for it no longer refers to a certificate of FastGateway.
DetachRevertsListener ==
    [][\A d \in Domains, w \in Workers :
          loc[w].id = d /\ loc[w].op = "detachDomain" /\ At(w, "applyGateway")
            /\ loc'[w] = Idle /\ failures' = failures => live'[d] \notin Certs]_vars
=============================================================================
