-------------------------- MODULE CertDistribution --------------------------
(***************************************************************************)
(* One managed server certificate (internal/services/                      *)
(* managed_certificate_service.go) and its distribution to the project's   *)
(* cluster by internal/certdist, which every replica runs under LeaderLock.*)
(*                                                                         *)
(* cert-manager writes the issued key pair into a Secret of the control    *)
(* plane (`source') and renews it; the distributor copies it to the Secret *)
(* of the project's cluster (`tenant') and keeps book in the row `dist'.   *)
(* A version of the key pair is a number and stands for its fingerprint, 0 *)
(* for none.  Every database and Kubernetes call is one step, except that a*)
(* decision and its callback's first call are one; rows are written whole  *)
(* (gorm Save), so a request writes back the columns it read and           *)
(* re-creates a row that was deleted meanwhile.                            *)
(*                                                                         *)
(* An operator named Def_Bug is Def with a plausible bug in it; no         *)
(* specification uses it, the mutation runs put it in the place of Def.    *)
(***************************************************************************)
EXTENDS Integers, LeaderLock

CONSTANTS
    Workers,      \* API requests served at the same time
    Ops,          \* the requests they serve besides decisions on the create
    MaxVersion,   \* bound: times cert-manager issues or renews
    MaxFailures   \* bound: failing calls, lost sessions, restarts, drift

ASSUME CertBoundsAssumption == MaxVersion \in Nat /\ MaxFailures \in Nat
ASSUME CertOpsAssumption == Ops \subseteq {"status", "resync", "delete"}

VARIABLES
    cert,      \* managed_certificates: status and fingerprint
    dist,      \* certificate_distributions: status and last fingerprint
    approval,  \* of the create; revoked is cancelled after it was approved
    crd,       \* cert-manager's Certificate object exists
    source,    \* version in the Secret of the control plane
    tenant,    \* version in the Secret of the project's cluster
    pushed,    \* history: versions ever written to the project's cluster
    dpc,       \* what each replica's distributor does next
    pass,      \* what its reconcileOne has read
    pc,        \* what each worker does next
    loc,       \* what it has read
    failures

clusters == <<crd, source, tenant, pushed>>
certVars == <<cert, dist, approval, clusters>>
passVars == <<dpc, pass>>
workVars == <<pc, loc>>
vars == <<session, lock, leader, cert, dist, approval, crd, source, tenant,
          pushed, dpc, pass, pc, loc, failures>>

Versions == 0..MaxVersion
CertStatus == {"pending", "issuing", "ready", "error"}
NoCert == [status |-> "none", fp |-> 0]
Certs == [status : CertStatus, fp : Versions] \cup {NoCert}
DistStatus == {"pending", "synced", "error"}
NoDist == [status |-> "none", fp |-> 0]
Dists == [status : DistStatus, fp : Versions] \cup {NoDist}

\* A pass holds the distribution row, as read and later as it will be written,
\* the version it found and the certificate row; a request holds rows it read
\* or will write.  What is not needed any more is forgotten.
Passes == [dist : Dists, version : Versions, cert : Certs]
Requests == [cert : Certs, dist : Dists]
Pass(d, v, c) == [dist |-> d, version |-> v, cert |-> c]
NoPass == Pass(NoDist, 0, NoCert)
Request(c, d) == [cert |-> c, dist |-> d]
NoRequest == Request(NoCert, NoDist)

PassLabels == {"idle", "getDist", "readSource", "readTenant", "push", "upsert",
               "getCert", "setMeta"}
RequestLabels == {"idle", "apply", "save", "status", "resync", "requestPush",
                  "delete", "deleteObject", "deleteSecret"}

\* ListByStatuses: certificates that may have something to distribute.
Listed(c) == c.status \in {"ready", "issuing"}

\* Create has stored the row and submitted its approval.
Init ==
    /\ LockInit
    /\ cert = [status |-> "pending", fp |-> 0]
    /\ dist = NoDist
    /\ approval = "pending"
    /\ crd = FALSE
    /\ source = 0 /\ tenant = 0 /\ pushed = {}
    /\ dpc = [r \in Replicas |-> "idle"]
    /\ pass = [r \in Replicas |-> NoPass]
    /\ pc = [w \in Workers |-> "idle"]
    /\ loc = [w \in Workers |-> NoRequest]
    /\ failures = 0

CanFail == failures < MaxFailures /\ failures' = failures + 1

---------------------------------------------------------------------------
(* certdist: Reconcile and reconcileOne *)

Proceed(r, label, p) ==
    /\ dpc' = [dpc EXCEPT ![r] = label]
    /\ pass' = [pass EXCEPT ![r] = p]
EndPass(r) == Proceed(r, "idle", NoPass)

\* What reconcileOne will write to the distribution row.
Record(status, fp, version) == Pass([status |-> status, fp |-> fp], version, NoCert)

\* A wake of Run: not the leader, or nothing to do, and the pass is over.
List(r) ==
    /\ dpc[r] = "idle"
    /\ leader[r] /\ Listed(cert)
    /\ Proceed(r, "getDist", NoPass)
    /\ UNCHANGED <<lockVars, certVars, workVars, failures>>

\* Reconcile looks at the flag again before each certificate.
GetDist(r) ==
    /\ dpc[r] = "getDist"
    /\ IF leader[r] THEN Proceed(r, "readSource", Pass(dist, 0, NoCert))
                    ELSE EndPass(r)
    /\ UNCHANGED <<lockVars, certVars, workVars, failures>>

\* The half of needsPush that looks at the distribution row.
KnownStale(d, version) == d.status # "synced" \/ d.fp # version

ReadSource_TrustsRow(r) ==
    /\ dpc[r] = "readSource"
    /\ LET d == pass[r].dist  p == Pass(d, source, NoCert) IN
       IF source = 0 THEN Proceed(r, "upsert", Record("pending", d.fp, 0))
       ELSE IF KnownStale(d, source) THEN Proceed(r, "push", p) ELSE EndPass(r)
    /\ UNCHANGED <<lockVars, certVars, workVars, failures>>

\* ReadLeafSecret: absent while the certificate is still being issued.
ReadSource(r) ==
    /\ dpc[r] = "readSource"
    /\ LET d == pass[r].dist  p == Pass(d, source, NoCert) IN
       IF source = 0 THEN Proceed(r, "upsert", Record("pending", d.fp, 0))
       ELSE Proceed(r, IF KnownStale(d, source) THEN "push" ELSE "readTenant", p)
    /\ UNCHANGED <<lockVars, certVars, workVars, failures>>

\* The other half of needsPush: is it still there?  "Cannot tell" is a push.
ReadTenant(r) ==
    /\ dpc[r] = "readTenant"
    /\ \/ tenant = pass[r].version /\ EndPass(r) /\ UNCHANGED failures
       \/ tenant # pass[r].version /\ Proceed(r, "push", pass[r]) /\ UNCHANGED failures
       \/ CanFail /\ Proceed(r, "push", pass[r])
    /\ UNCHANGED <<lockVars, certVars, workVars>>

\* CreateOrUpdateTLSSecret in the project's cluster.
Deliver(version) == tenant' = version /\ pushed' = pushed \cup {version}

Push(r) ==
    /\ dpc[r] = "push"
    /\ Deliver(pass[r].version)
    /\ Proceed(r, "upsert", Record("synced", pass[r].version, pass[r].version))
    /\ UNCHANGED <<lockVars, cert, dist, approval, crd, source, workVars, failures>>

PassFails_ForgetsLast(r) ==
    /\ dpc[r] \in {"readSource", "push"}
    /\ CanFail
    /\ Proceed(r, "upsert", Record("error", pass[r].version, 0))
    /\ UNCHANGED <<lockVars, certVars, workVars>>

\* ReadLeafSecret or CreateOrUpdateTLSSecret fails, or only its answer is lost:
\* the error is recorded with the fingerprint of the last push that succeeded.
PassFails(r) ==
    /\ dpc[r] \in {"readSource", "push"}
    /\ CanFail
    /\ Proceed(r, "upsert", Record("error", pass[r].dist.fp, 0))
    /\ \/ UNCHANGED <<tenant, pushed>>
       \/ dpc[r] = "push" /\ Deliver(pass[r].version)
    /\ UNCHANGED <<lockVars, cert, dist, approval, crd, source, workVars>>

\* upsertDist.  The foreign key refuses a row for a certificate that is gone.
Upsert(r) ==
    /\ dpc[r] = "upsert"
    /\ IF cert = NoCert
       THEN UNCHANGED dist /\ EndPass(r)
       ELSE /\ dist' = pass[r].dist
            /\ IF pass[r].dist.status = "synced"
               THEN Proceed(r, "getCert", Pass(NoDist, pass[r].version, NoCert))
               ELSE EndPass(r)
    /\ UNCHANGED <<lockVars, cert, approval, clusters, workVars, failures>>

GetCert_NoCheck(r) ==
    /\ dpc[r] = "getCert"
    /\ Proceed(r, "setMeta", Pass(NoDist, pass[r].version, cert))
    /\ UNCHANGED <<lockVars, certVars, workVars, failures>>

\* SetIssuedMeta: GetByID ...
GetCert(r) ==
    /\ dpc[r] = "getCert"
    /\ IF cert = NoCert THEN EndPass(r)
       ELSE Proceed(r, "setMeta", Pass(NoDist, pass[r].version, cert))
    /\ UNCHANGED <<lockVars, certVars, workVars, failures>>

\* ... and Update.
SetMeta(r) ==
    /\ dpc[r] = "setMeta"
    /\ cert' = [pass[r].cert EXCEPT !.fp = pass[r].version]
    /\ EndPass(r)
    /\ UNCHANGED <<lockVars, dist, approval, clusters, workVars, failures>>

\* Any other call fails, or reconcileOne panics: logged, the next wake retries.
PassAborts(r) ==
    /\ dpc[r] # "idle"
    /\ CanFail
    /\ EndPass(r)
    /\ UNCHANGED <<lockVars, certVars, workVars>>

Distribute(r) ==
    \/ List(r) \/ GetDist(r) \/ ReadSource(r) \/ ReadTenant(r) \/ Push(r)
    \/ Upsert(r) \/ GetCert(r) \/ SetMeta(r)

---------------------------------------------------------------------------
(* The API: approval callbacks, Status, Resync and Delete *)

Goto(w, label, l) ==
    /\ pc' = [pc EXCEPT ![w] = label]
    /\ loc' = [loc EXCEPT ![w] = l]
Return(w) == Goto(w, "idle", NoRequest)
Holding(c, status) == Request([c EXCEPT !.status = status], NoDist)

Decide_AppliesAnyway(w) ==
    /\ pc[w] = "idle"
    /\ \E d \in {"approved", "rejected"} :
          /\ approval = "pending" /\ approval' = d
          /\ IF cert = NoCert THEN Return(w)
             ELSE Goto(w, "apply", Request(cert, NoDist))
    /\ UNCHANGED <<lockVars, cert, dist, clusters, passVars, failures>>

\* The approval engine decides and calls OnApproved or OnRejected, which read
\* the row, or OnCancelled, which deletes it, and its distribution row by
\* cascade, in whatever state it is.
Decide(w) ==
    /\ pc[w] = "idle"
    /\ \/ /\ approval = "pending" /\ approval' = "approved"
          /\ IF cert = NoCert THEN Return(w)
             ELSE Goto(w, "apply", Request(cert, NoDist))
          /\ UNCHANGED <<cert, dist>>
       \/ /\ approval = "pending" /\ approval' = "rejected"
          /\ IF cert = NoCert THEN Return(w)
             ELSE Goto(w, "save", Holding(cert, "error"))
          /\ UNCHANGED <<cert, dist>>
       \/ /\ approval \in {"pending", "approved"}
          /\ approval' = IF approval = "approved" THEN "revoked" ELSE "cancelled"
          /\ cert' = NoCert /\ dist' = NoDist
          /\ Return(w)
    /\ UNCHANGED <<lockVars, clusters, passVars, failures>>

\* OnApproved applies the Certificate object and will save issuing, or error.
Apply(w) ==
    /\ pc[w] = "apply"
    /\ \/ /\ crd' = TRUE
          /\ Goto(w, "save", Holding(loc[w].cert, "issuing"))
          /\ UNCHANGED failures
       \/ /\ CanFail
          /\ Goto(w, "save", Holding(loc[w].cert, "error"))
          /\ UNCHANGED crd
    /\ UNCHANGED <<lockVars, cert, dist, approval, source, tenant, pushed, passVars>>

\* The other requests start by reading the row.
Begin(w, op) ==
    /\ pc[w] = "idle"
    /\ cert # NoCert
    /\ Goto(w, op, IF op = "status" THEN Request(cert, NoDist) ELSE NoRequest)
    /\ UNCHANGED <<lockVars, certVars, passVars, failures>>

\* statusManaged reads the Ready condition: True once the key pair is issued;
\* otherwise, or while renewing, still issuing or failed for good.
ReadCondition(w) ==
    /\ pc[w] = "status"
    /\ IF ~crd THEN Return(w)
       ELSE \E s \in {"ready", "issuing", "error"} :
               /\ s = "ready" => source # 0
               /\ Goto(w, "save", Holding(loc[w].cert, s))
    /\ UNCHANGED <<lockVars, certVars, passVars, failures>>

\* repo.Update at the end of OnApproved, OnRejected and Status.
SaveCert(w) ==
    /\ pc[w] = "save"
    /\ cert' = loc[w].cert
    /\ Return(w)
    /\ UNCHANGED <<lockVars, dist, approval, clusters, passVars, failures>>

\* Resync reads the distribution row ...
ReadDist(w) ==
    /\ pc[w] = "resync"
    /\ Goto(w, "requestPush", Request(NoCert, dist))
    /\ UNCHANGED <<lockVars, certVars, passVars, failures>>

\* ... and writes it back as pending, or a new one.
RequestPush(w) ==
    /\ pc[w] = "requestPush"
    /\ dist' = IF cert = NoCert THEN dist
               ELSE [status |-> "pending", fp |-> loc[w].dist.fp]
    /\ Return(w)
    /\ UNCHANGED <<lockVars, cert, approval, clusters, passVars, failures>>

\* Delete, past its checks for domains and clients that use the certificate:
\* one in use is refused, as if the request had not come.
DeleteCert(w) ==
    /\ pc[w] = "delete"
    /\ cert' = NoCert /\ dist' = NoDist
    /\ Goto(w, "deleteObject", loc[w])
    /\ UNCHANGED <<lockVars, approval, clusters, passVars, failures>>

\* Both deletions in the clusters are best effort.  cert-manager keeps the
\* Secret of a Certificate object that is gone.
DeleteObject(w) ==
    /\ pc[w] = "deleteObject"
    /\ \/ crd' = FALSE /\ UNCHANGED failures
       \/ CanFail /\ UNCHANGED crd
    /\ Goto(w, "deleteSecret", loc[w])
    /\ UNCHANGED <<lockVars, cert, dist, approval, source, tenant, pushed, passVars>>

DeleteSecret(w) ==
    /\ pc[w] = "deleteSecret"
    /\ \/ tenant' = 0 /\ UNCHANGED failures
       \/ CanFail /\ UNCHANGED tenant
    /\ Return(w)
    /\ UNCHANGED <<lockVars, cert, dist, approval, crd, source, pushed, passVars>>

\* A call fails: the handler returns the error.
RequestFails(w) ==
    /\ pc[w] \in {"apply", "status", "save", "resync", "requestPush", "delete"}
    /\ CanFail
    /\ Return(w)
    /\ UNCHANGED <<lockVars, certVars, passVars>>

Serve(w) ==
    \/ Decide(w) \/ \E op \in Ops : Begin(w, op)
    \/ Apply(w) \/ ReadCondition(w) \/ SaveCert(w) \/ ReadDist(w)
    \/ RequestPush(w) \/ DeleteCert(w) \/ DeleteObject(w) \/ DeleteSecret(w)
    \/ RequestFails(w)

---------------------------------------------------------------------------
(* The environment *)

\* cert-manager issues the key pair, and renews it.
Issue ==
    /\ crd /\ source < MaxVersion
    /\ source' = source + 1
    /\ UNCHANGED <<lockVars, cert, dist, approval, crd, tenant, pushed, passVars,
                   workVars, failures>>

\* Somebody deletes the Secret in the project's cluster.
Drift ==
    /\ tenant # 0 /\ CanFail
    /\ tenant' = 0
    /\ UNCHANGED <<lockVars, cert, dist, approval, crd, source, pushed, passVars,
                   workVars>>

Elect(r) == Attempt(r) /\ UNCHANGED <<certVars, passVars, workVars, failures>>

Disturb(r) ==
    /\ CanFail
    /\ \/ LoseSession(r) /\ UNCHANGED passVars
       \/ Restart(r) /\ EndPass(r)
    /\ UNCHANGED <<certVars, workVars>>

Next ==
    \/ \E r \in Replicas : \/ Distribute(r) \/ PassFails(r) \/ PassAborts(r)
                           \/ Elect(r) \/ Disturb(r)
    \/ \E w \in Workers : Serve(w)
    \/ Issue \/ Drift

Spec == Init /\ [][Next]_vars

\* The tickers of the gate and of the distributor never stop, and a pass that
\* has begun goes on.  Nobody has to send a request or issue a certificate.
FairSpec ==
    Spec /\ \A r \in Replicas : WF_vars(Elect(r)) /\ WF_vars(Distribute(r))

---------------------------------------------------------------------------

\* Types of the rows, the clusters and what passes and requests hold.
TypeOK ==
    /\ LockTypeOK
    /\ cert \in Certs
    /\ dist \in Dists
    /\ approval \in {"pending", "approved", "rejected", "cancelled", "revoked"}
    /\ crd \in BOOLEAN
    /\ source \in Versions /\ tenant \in Versions /\ pushed \subseteq Versions
    /\ dpc \in [Replicas -> PassLabels] /\ pass \in [Replicas -> Passes]
    /\ pc \in [Workers -> RequestLabels] /\ loc \in [Workers -> Requests]
    /\ failures \in 0..MaxFailures

WasPushed(fp) == fp \in pushed \cup {0}

\* What the books say was pushed was pushed: the fingerprint in the
\* distribution row and in the certificate row is one that reached the
\* project's cluster, whatever failed, however many replicas believe they
\* lead, and whichever request writes an old row back.
RecordedWasPushed == WasPushed(dist.fp) /\ WasPushed(cert.fp)

\* Its inductive form: so are the rows that passes and requests hold, and what
\* a pass will record.
PassBacked(r) ==
    /\ WasPushed(pass[r].dist.fp) /\ WasPushed(pass[r].cert.fp)
    /\ dpc[r] \in {"upsert", "getCert", "setMeta"} => WasPushed(pass[r].version)

RequestBacked(w) == WasPushed(loc[w].dist.fp) /\ WasPushed(loc[w].cert.fp)

PushedInv ==
    /\ RecordedWasPushed
    /\ \A r \in Replicas : PassBacked(r)
    /\ \A w \in Workers : RequestBacked(w)

\* No key pair is requested, issued or distributed for a certificate whose
\* create was not approved, although Status, Resync and the distributor run on
\* whatever rows they find.
IssuedOnlyIfApproved ==
    crd \/ source # 0 \/ pushed # {} => approval \in {"approved", "revoked"}

\* Self-healing: a certificate that stays listed is eventually, and from then
\* on, present in the project's cluster in its latest version, although two
\* replicas may push at once, an old pass may overwrite a newer push, and the
\* Secret may be deleted from outside (needsPush).
Converges == <>[]Listed(cert) => <>[](tenant = source)

\* Losing sessions and restarting, the replicas end up with a leader.
LeaderElected == <>[](\E r \in Replicas : leader[r] /\ lock = r)

---------------------------------------------------------------------------

\* managed_certificate_service.go: "The distributor is now the sole writer of
\* Fingerprint."  No request changes the fingerprint of an existing row.
DistributorSoleWriter ==
    [][\A w \in Workers :
          pc[w] = "save" /\ pc'[w] = "idle" /\ failures' = failures /\ cert # NoCert
              => cert'.fp = cert.fp]_vars
=============================================================================
