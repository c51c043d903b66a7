---------------------------- MODULE ClientAccess ----------------------------
(***************************************************************************)
(* API clients, their credentials and their attachments to routes:         *)
(* internal/services/clients, the client part of the deploy of a route     *)
(* (services/route_deploy_clients.go, route_assembler.go) and the          *)
(* repositories they use.                                                  *)
(*                                                                         *)
(* A credential is a version number: 0 is none, a new key, JWT config, CA, *)
(* address list, header list or method list is a new version.  What the    *)
(* cluster lets through is, per route and client, the versions deployed.   *)
(* A worker serves one request; consecutive reads are one step, every      *)
(* write is one.  Decisions of the approval engine are one step here and   *)
(* then call back into the attachment service.                             *)
(***************************************************************************)
EXTENDS Integers, FiniteSets, Sequences, RouteState

CONSTANTS
    Workers,      \* requests being served at the same time
    Clients,      \* API clients
    Routes,       \* deployed routes in client security mode
    Configs,      \* the sets of methods an attachment may enable
    Credentials,  \* the credentials that requests set and clear
    Ops,          \* the requests that are sent
    MaxVersion,   \* bound: versions of a credential
    MaxApprovals, \* bound: approvals that are opened
    MaxFailures   \* bound: calls that fail

\* The methods of an attachment: EnableAPIKey, EnableJWT, EnableMTLS,
\* EnableIPAllowlist, EnableHeaderAuth.  The first three get routes of their own.
PerClientKinds == {"apiKey", "jwt", "mtls"}
ListKinds == {"ip", "header"}
Kinds == PerClientKinds \cup ListKinds
RowKinds == PerClientKinds \cup {"methods"}

AttachmentStatus == {"none", "pending_attach", "approved", "active",
                     "pending_detach", "removed", "rejected"}
AttachmentOps == {"attach", "detach", "approve", "reject", "cancel"}
RouteOps == {"submit", "reject_update", "approve_update", "deploy"}

ASSUME SetsAssumption == /\ IsFiniteSet(Workers)
                         /\ Configs \subseteq SUBSET Kinds
                         /\ Credentials \subseteq Kinds \cup {"methods"}
                         /\ Ops \subseteq {"set", "clear", "toggle", "delete"}
                                          \cup AttachmentOps \cup RouteOps
ASSUME BoundsAssumption == {MaxVersion, MaxApprovals, MaxFailures} \subseteq Nat

VARIABLES
    alive,           \* clients: the ids that have a row
    client,          \* clients: versions of the credentials kept in the row
    lists,           \* client_ip_addresses, client_headers: their versions
    version,         \* the last version given out
    att,             \* client_route_attachments, by client and route
    approvals,       \* approvals of attachments, in the order they were opened
    route,           \* routes: the status
    approvalEnabled, \* projects.approval_enabled
    served,          \* what the cluster lets through, by route
    granted,         \* history: <<client, route, methods>> ever granted
    override,        \* history: <<client, route>> whose granted approval was cancelled
    missed,          \* history: routes whose redeploy was not queued when due
    pc, loc, failures

rows == <<alive, client, lists, version>>
attachments == <<att, approvals, granted, override>>
vars == <<rows, attachments, route, approvalEnabled, served, missed,
          pc, loc, failures>>

Versions == 0..MaxVersion
AttRows == [status : AttachmentStatus, enabled : SUBSET Kinds]
NoAtt == [status |-> "none", enabled |-> {}]
Access == [Kinds \cup {"methods"} -> Versions]
NoAccess == [k \in Kinds \cup {"methods"} |-> 0]
NoLoc == [op |-> "none", c |-> "none", r |-> "none", k |-> "none", row |-> NoAtt,
          cred |-> 0, status |-> "active", id |-> 0, todo |-> {}, ok |-> TRUE]

Init ==
    /\ alive = Clients
    /\ client = [c \in Clients |-> [k \in RowKinds |-> 0]]
    /\ lists = [c \in Clients |-> [k \in ListKinds |-> 0]]
    /\ version = 0
    /\ att = [c \in Clients |-> [r \in Routes |-> NoAtt]]
    /\ approvals = << >>
    /\ route = [r \in Routes |-> "active"]
    /\ approvalEnabled \in BOOLEAN
    /\ served = [r \in Routes |-> [base |-> [c \in Clients |-> NoAccess],
                                   open |-> TRUE,
                                   own |-> [c \in Clients |-> NoAccess]]]
    /\ granted = {}
    /\ override = {}
    /\ missed = {}
    /\ pc = [w \in Workers |-> "idle"]
    /\ loc = [w \in Workers |-> NoLoc]
    /\ failures = 0

Goto(w, label, l) == pc' = [pc EXCEPT ![w] = label] /\ loc' = [loc EXCEPT ![w] = l]
Continue(w, label) == Goto(w, label, loc[w])
Return(w) == Goto(w, "idle", NoLoc)
Step(w, label) == pc[w] = label /\ UNCHANGED failures
Begin(w, op) == op \in Ops /\ Step(w, "idle")
Fails(w, label) == pc[w] = label /\ failures < MaxFailures /\ failures' = failures + 1

\* The current version of a credential, wherever it is stored.
Cred(c, k) == IF k \in RowKinds THEN client[c][k] ELSE lists[c][k]

\* A redeploy of the route is on its way, or the route is not live yet.
Queued(r) == route[r] \in {"approved", "pending_deploy"}

---------------------------------------------------------------------------
\* Credentials.  GetByID reads the row, the request changes its columns and
\* Save writes the row back as a whole; addresses and headers have tables.

\* Which active attachments a change of credential k concerns; a change of the
\* CA concerns none, it is left to the next deploy of the domain.
Affected_IgnoresLists(c, k) ==
    {r \in Routes : /\ att[c][r].status = "active"
                    /\ k = "methods" \/ k \in att[c][r].enabled \cap {"apiKey", "jwt"}}
Affected(c, k) ==
    {r \in Routes : /\ att[c][r].status = "active"
                    /\ k = "methods" \/ k \in att[c][r].enabled \ {"mtls"}}

\* A request that puts a new version into the row.
SetCredential(w, c, k) ==
    /\ Begin(w, "set")
    /\ c \in alive /\ k \in Credentials /\ version < MaxVersion
    /\ version' = version + 1
    /\ Goto(w, "saveClient", [NoLoc EXCEPT !.op = "set", !.c = c, !.k = k,
                              !.cred = [client[c] EXCEPT ![k] = version + 1]])
    /\ UNCHANGED <<alive, client, lists, attachments, route, approvalEnabled,
                   served, missed>>

\* A request that clears it; without one to clear the row is written unchanged
\* or the request is refused.
ClearCredential(w, c, k) ==
    /\ Begin(w, "clear")
    /\ c \in alive /\ k \in Credentials /\ client[c][k] # 0
    /\ Goto(w, "saveClient", [NoLoc EXCEPT !.op = "clear", !.c = c, !.k = k,
                              !.cred = [client[c] EXCEPT ![k] = 0]])
    /\ UNCHANGED <<rows, attachments, route, approvalEnabled, served, missed>>

GenerateAPIKey(w, c) == SetCredential(w, c, "apiKey")
RevokeAPIKey(w, c) == ClearCredential(w, c, "apiKey")
ConfigureJWT(w, c) == SetCredential(w, c, "jwt")
RemoveJWT(w, c) == ClearCredential(w, c, "jwt")
UpdateClientMTLS(w, c) == SetCredential(w, c, "mtls") \/ ClearCredential(w, c, "mtls")
SetAllowedMethods(w, c) == SetCredential(w, c, "methods") \/ ClearCredential(w, c, "methods")

\* ClientRepository.Update: the whole row, inserted again if it is gone.
SaveClient(w) ==
    LET l == loc[w] IN
    /\ Step(w, "saveClient")
    /\ client' = [client EXCEPT ![l.c] = l.cred]
    /\ alive' = alive \cup {l.c}
    /\ IF l.k = "mtls"
       THEN /\ Return(w)
            /\ missed' = missed \cup {r \in Routes : "mtls" \in att[l.c][r].enabled}
       ELSE Continue(w, "list") /\ UNCHANGED missed
    /\ UNCHANGED <<lists, version, attachments, route, approvalEnabled, served>>

\* One row more in a list.
AddToList(w, c, k) ==
    /\ Begin(w, "set")
    /\ c \in alive /\ k \in Credentials /\ version < MaxVersion
    /\ version' = version + 1
    /\ lists' = [lists EXCEPT ![c][k] = version + 1]
    /\ Goto(w, "list", [NoLoc EXCEPT !.op = "set", !.c = c, !.k = k])
    /\ UNCHANGED <<alive, client, attachments, route, approvalEnabled, served, missed>>

\* One row less: the last one of the list, or one of several.
RemoveFromList(w, c, k) ==
    /\ Begin(w, "clear")
    /\ k \in Credentials /\ lists[c][k] # 0
    /\ \/ lists' = [lists EXCEPT ![c][k] = 0] /\ UNCHANGED version
       \/ /\ version < MaxVersion /\ version' = version + 1
          /\ lists' = [lists EXCEPT ![c][k] = version + 1]
    /\ Goto(w, "list", [NoLoc EXCEPT !.op = "clear", !.c = c, !.k = k])
    /\ UNCHANGED <<alive, client, attachments, route, approvalEnabled, served, missed>>

AddIP(w, c) == AddToList(w, c, "ip")
RemoveIP(w, c) == RemoveFromList(w, c, "ip")
AddHeader(w, c) == AddToList(w, c, "header")
RemoveHeader(w, c) == RemoveFromList(w, c, "header")

\* cascadeToAttachedRoutes: list the attachments the credential concerns...
ListAttachments(w) ==
    /\ Step(w, "list")
    /\ Goto(w, "cascade", [loc[w] EXCEPT !.todo = Affected(loc[w].c, loc[w].k)])
    /\ UNCHANGED <<rows, attachments, route, approvalEnabled, served, missed>>

\* ... and queue a redeploy of every route that is active.  The rest is skipped.
CascadeRoute(w, r) ==
    /\ Step(w, "cascade")
    /\ r \in loc[w].todo
    /\ Goto(w, "cascade", [loc[w] EXCEPT !.todo = @ \ {r}])
    /\ \/ /\ route[r] = "active"
          /\ Allowed("ClientCascade", route[r], "pending_deploy")
          /\ route' = [route EXCEPT ![r] = "pending_deploy"]
          /\ UNCHANGED missed
       \/ /\ route[r] # "active"
          /\ missed' = IF Queued(r) THEN missed ELSE missed \cup {r}
          /\ UNCHANGED route
    /\ UNCHANGED <<rows, attachments, approvalEnabled, served>>

\* One bad row does not stop the fan-out: its error is collected.
CascadeFails(w, r) ==
    /\ Fails(w, "cascade")
    /\ r \in loc[w].todo
    /\ Goto(w, "cascade", [loc[w] EXCEPT !.todo = @ \ {r}])
    /\ missed' = missed \cup {r}
    /\ UNCHANGED <<rows, attachments, route, approvalEnabled, served>>

CascadeDone(w) ==
    /\ Step(w, "cascade") /\ loc[w].todo = {}
    /\ Return(w)
    /\ UNCHANGED <<rows, attachments, route, approvalEnabled, served, missed>>

\* Delete: the row and, by the foreign keys, its lists and attachments.  The
\* Secrets are removed as far as possible; routes are not queued.
DeleteClient(w, c) ==
    /\ Begin(w, "delete")
    /\ c \in alive
    /\ alive' = alive \ {c}
    /\ client' = [client EXCEPT ![c] = [k \in RowKinds |-> 0]]
    /\ lists' = [lists EXCEPT ![c] = [k \in ListKinds |-> 0]]
    /\ missed' = missed \cup {r \in Routes : att[c][r] # NoAtt}
    /\ att' = [att EXCEPT ![c] = [r \in Routes |-> NoAtt]]
    /\ UNCHANGED <<version, approvals, granted, override, route, approvalEnabled,
                   served, pc, loc>>

---------------------------------------------------------------------------
\* Attachments.

\* The checks AttachFromRoute and AttachFromClient make before they write.
MayAttach(c, r, enabled) ==
    /\ c \in alive
    /\ att[c][r].status \in {"none", "removed", "rejected"}
    /\ enabled \cap (PerClientKinds \cup {"ip"}) # {}
    /\ \A k \in enabled : Cred(c, k) # 0

Attach(w, c, r, enabled, site) ==
    /\ Begin(w, "attach")
    /\ MayAttach(c, r, enabled)
    /\ Len(approvals) < MaxApprovals
    /\ Goto(w, "storeAttachment",
            [NoLoc EXCEPT !.op = site, !.c = c, !.r = r, !.status = route[r],
                          !.row = [status |-> "pending_attach", enabled |-> enabled]])
    /\ UNCHANGED <<rows, attachments, route, approvalEnabled, served, missed>>
AttachFromRoute(w, c, r, enabled) == Attach(w, c, r, enabled, "AttachFromRoute")
AttachFromClient(w, c, r, enabled) == Attach(w, c, r, enabled, "AttachFromClient")

\* The row is stored first; then the project's switch decides how it goes on.
StoreAttachment(w) ==
    LET l == loc[w] IN
    /\ Step(w, "storeAttachment")
    /\ att' = [att EXCEPT ![l.c][l.r] = l.row]
    /\ Continue(w, IF approvalEnabled THEN "submit" ELSE "queueRoute")
    /\ UNCHANGED <<rows, approvals, granted, override, route, approvalEnabled,
                   served, missed>>

\* RequestDetach: only an active attachment; nothing is written before the
\* project's switch is read.
RequestDetach(w, c, r) ==
    /\ Begin(w, "detach")
    /\ att[c][r].status = "active"
    /\ Len(approvals) < MaxApprovals
    /\ Goto(w, IF approvalEnabled THEN "storeDetach" ELSE "queueRoute",
            [NoLoc EXCEPT !.op = "RequestDetach", !.c = c, !.r = r,
                          !.status = route[r], !.row = att[c][r]])
    /\ UNCHANGED <<rows, attachments, route, approvalEnabled, served, missed>>

StoreDetach(w) ==
    LET l == loc[w] IN
    /\ Step(w, "storeDetach")
    /\ att' = [att EXCEPT ![l.c][l.r] = [l.row EXCEPT !.status = "pending_detach"]]
    /\ Continue(w, "submit")
    /\ UNCHANGED <<rows, approvals, granted, override, route, approvalEnabled,
                   served, missed>>

\* Without approvals the route is moved first, so that a refused transition
\* leaves the attachment alone.
QueueRoute(w) ==
    LET l == loc[w] IN
    /\ Step(w, "queueRoute")
    /\ IF Allowed(l.op, l.status, "pending_deploy")
       THEN /\ route' = IF l.status = "pending_deploy" THEN route
                        ELSE [route EXCEPT ![l.r] = "pending_deploy"]
            /\ Continue(w, "settle")
       ELSE Return(w) /\ UNCHANGED route
    /\ UNCHANGED <<rows, attachments, approvalEnabled, served, missed>>

Settle(w) ==
    LET l == loc[w]
        detach == l.op = "RequestDetach" IN
    /\ Step(w, "settle")
    /\ att' = [att EXCEPT ![l.c][l.r] =
                  [l.row EXCEPT !.status = IF detach THEN "removed" ELSE "approved"]]
    /\ granted' = IF detach THEN granted ELSE granted \cup {<<l.c, l.r, l.row.enabled>>}
    /\ Return(w)
    /\ UNCHANGED <<rows, approvals, override, route, approvalEnabled, served, missed>>

\* Engine.Submit.  The approval names the attachment and the action, not the
\* methods; `enabled' records what was submitted.
Submit(w) ==
    LET l == loc[w] IN
    /\ Step(w, "submit")
    /\ Len(approvals) < MaxApprovals
    /\ approvals' = Append(approvals,
            [c |-> l.c, r |-> l.r, status |-> "pending", enabled |-> l.row.enabled,
             action |-> IF l.op = "RequestDetach" THEN "detach" ELSE "attach"])
    /\ Return(w)
    /\ UNCHANGED <<rows, att, granted, override, route, approvalEnabled, served, missed>>

\* The engine decides and calls back; the callback reads the attachment.
Outcome == [approve |-> "approved", reject |-> "rejected", cancel |-> "cancelled"]
Decide(w, i, op) ==
    LET a == approvals[i] IN
    /\ Begin(w, op)
    /\ a.status = "pending" \/ (op = "cancel" /\ a.status = "approved")
    /\ approvals' = [approvals EXCEPT ![i].status = Outcome[op]]
    /\ granted' = IF op = "approve" /\ a.action = "attach"
                  THEN granted \cup {<<a.c, a.r, a.enabled>>} ELSE granted
    /\ override' = IF a.status = "approved" THEN override \cup {<<a.c, a.r>>} ELSE override
    /\ IF att[a.c][a.r] = NoAtt THEN UNCHANGED <<pc, loc>>
       ELSE Goto(w, "callback", [NoLoc EXCEPT !.op = op, !.c = a.c, !.r = a.r,
                                              !.id = i, !.row = att[a.c][a.r]])
    /\ UNCHANGED <<rows, att, route, approvalEnabled, served, missed>>

\* OnApproved, OnRejected, OnCancelled: a detach that is approved removes the
\* attachment; whatever is refused is rejected, a detach too.
Callback(w) ==
    LET l == loc[w]
        detach == approvals[l.id].action = "detach" IN
    /\ Step(w, "callback")
    /\ att' = [att EXCEPT ![l.c][l.r] = [l.row EXCEPT !.status =
                  IF l.op # "approve" THEN "rejected"
                  ELSE IF detach THEN "removed" ELSE "approved"]]
    /\ IF l.op = "approve" /\ route[l.r] = "active"
       THEN Continue(w, "requeue") /\ UNCHANGED missed
       ELSE /\ Return(w)
            /\ missed' = IF l.op = "approve" /\ ~Queued(l.r)
                         THEN missed \cup {l.r} ELSE missed
    /\ UNCHANGED <<rows, approvals, granted, override, route, approvalEnabled, served>>

\* updateRouteStatus reads the route again and moves it, if the table allows.
Requeue(w) ==
    LET r == loc[w].r IN
    /\ Step(w, "requeue")
    /\ IF Allowed("AttachmentApproved", route[r], "pending_deploy")
       THEN route' = [route EXCEPT ![r] = "pending_deploy"] /\ UNCHANGED missed
       ELSE missed' = missed \cup {r} /\ UNCHANGED route
    /\ Return(w)
    /\ UNCHANGED <<rows, attachments, approvalEnabled, served>>

\* A call fails: the request ends where it is, what was written stays.
WriteFails(w) ==
    /\ \E label \in {"saveClient", "list", "storeAttachment", "storeDetach",
                      "queueRoute", "settle", "submit", "callback", "requeue"} :
          Fails(w, label)
    /\ missed' = CASE pc[w] \in {"list", "requeue"} ->
                        missed \cup (IF pc[w] = "list" THEN Routes ELSE {loc[w].r})
                   [] pc[w] = "callback" -> missed \cup {loc[w].r}
                   [] OTHER -> missed
    /\ Return(w)
    /\ UNCHANGED <<rows, attachments, route, approvalEnabled, served>>

---------------------------------------------------------------------------
\* The route itself: an update is submitted, refused or approved while clients
\* change (RouteLifecycle has the calls), and Deploy.

SubmitUpdate(w, r) ==
    /\ Begin(w, "submit")
    /\ Allowed("RouteUpdate", route[r], "pending_update") /\ route[r] = "active"
    /\ route' = [route EXCEPT ![r] = "pending_update"]
    /\ UNCHANGED <<rows, attachments, approvalEnabled, served, missed, pc, loc>>

ReviewUpdate(w, r) ==
    /\ \/ /\ Begin(w, "reject_update")
          /\ <<route[r], "active">> \in LegalTransitions("ApprovalRejected")
          /\ route' = [route EXCEPT ![r] = "active"]
       \/ /\ Begin(w, "approve_update")
          /\ <<route[r], "pending_deploy">> \in LegalTransitions("ApprovalApproved")
          /\ route' = [route EXCEPT ![r] = "pending_deploy"]
    /\ UNCHANGED <<rows, attachments, approvalEnabled, served, missed, pc, loc>>

Included_Requested(c, r) == att[c][r].status \in {"active", "approved", "pending_attach"}

\* ListActiveByRouteID and ListApprovedByRouteID
Included(c, r) == att[c][r].status \in {"active", "approved"}

\* Which clients the policy of the base route takes addresses, headers and
\* methods from; the others bring theirs to routes of their own.
ClientIPCIDRs(c, r) == "ip" \in att[c][r].enabled
                         /\ att[c][r].enabled \cap {"apiKey", "jwt"} = {}
ClientHeaders(c, r) == "header" \in att[c][r].enabled
                         /\ att[c][r].enabled \cap PerClientKinds = {}
ClientMethods(c, r) == att[c][r].enabled \cap PerClientKinds = {}
BaseAccess(c, r) ==
    [k \in Kinds \cup {"methods"} |->
        IF /\ Included(c, r)
           /\ \/ k = "ip" /\ ClientIPCIDRs(c, r)
              \/ k = "header" /\ ClientHeaders(c, r)
              \/ k = "methods" /\ ClientMethods(c, r)
        THEN Cred(c, k) ELSE 0]

\* buildClientIPAuthorizationConfig and deploySecurityPolicy with the default
\* traffic policy allow-all: does the base route let everybody through?
BaseOpen_IgnoresOwnRoutes(r) ==
    \A c \in Clients : BaseAccess(c, r) = NoAccess
BaseOpen(r) ==
    /\ \A c \in Clients : BaseAccess(c, r) = NoAccess
    /\ \A c \in Clients : Included(c, r) => att[c][r].enabled \cap PerClientKinds = {}

\* categorizeClientAttachments: a client gets a route of its own if one of the
\* methods its attachment enables is configured.
HasPerClientAuth(c, r) ==
    \E k \in PerClientKinds \cap att[c][r].enabled : Cred(c, k) # 0
OwnAccess(c, r) ==
    [k \in Kinds \cup {"methods"} |->
        IF k = "methods" \/ k \in att[c][r].enabled THEN Cred(c, k) ELSE 0]

BeginDeploy(w, r) ==
    /\ Begin(w, "deploy")
    /\ route[r] \in {"approved", "pending_deploy"}
    /\ Goto(w, "applyBase", [NoLoc EXCEPT !.op = "deploy", !.r = r, !.status = route[r]])
    /\ UNCHANGED <<rows, attachments, route, approvalEnabled, served, missed>>

\* deploySecurityPolicy, then the clients that get routes of their own are listed.
ApplyBase(w) ==
    LET r == loc[w].r IN
    /\ Step(w, "applyBase")
    /\ served' = [served EXCEPT ![r].base = [c \in Clients |-> BaseAccess(c, r)],
                                ![r].open = BaseOpen(r)]
    /\ Goto(w, "applyOwn", [loc[w] EXCEPT
            !.cred = [c \in Clients |-> OwnAccess(c, r)],
            !.todo = {c \in Clients : Included(c, r) /\ HasPerClientAuth(c, r)}])
    /\ UNCHANGED <<rows, attachments, route, approvalEnabled, missed>>

\* deployAPIKeyRoutes: Secret, route and policies of one client.
ApplyOwn(w, c) ==
    LET l == loc[w] IN
    /\ Step(w, "applyOwn")
    /\ c \in l.todo
    /\ served' = [served EXCEPT ![l.r].own[c] = l.cred[c]]
    /\ Goto(w, "applyOwn", [l EXCEPT !.todo = @ \ {c}])
    /\ UNCHANGED <<rows, attachments, route, approvalEnabled, missed>>

Cleanup_KeepsAll(w) ==
    /\ Step(w, "applyOwn") /\ loc[w].todo = {}
    /\ Continue(w, "markActive")
    /\ UNCHANGED <<rows, attachments, route, approvalEnabled, served, missed>>

\* cleanupStaleAPIKeyRoutes: the routes of clients that are no longer attached
\* with a method that needs one.  Whether the method is configured is not asked.
Cleanup(w) ==
    LET r == loc[w].r
        expected == {c \in Clients : /\ Included(c, r)
                                     /\ att[c][r].enabled \cap PerClientKinds # {}} IN
    /\ Step(w, "applyOwn") /\ loc[w].todo = {}
    /\ served' = [served EXCEPT ![r].own =
                     [c \in Clients |-> IF c \in expected THEN @[c] ELSE NoAccess]]
    /\ Continue(w, "markActive")
    /\ UNCHANGED <<rows, attachments, route, approvalEnabled, missed>>

\* A failed cleanup is logged and the deploy goes on.
CleanupFails(w) ==
    /\ Fails(w, "applyOwn") /\ loc[w].todo = {}
    /\ Goto(w, "markActive", [loc[w] EXCEPT !.ok = FALSE])
    /\ UNCHANGED <<rows, attachments, route, approvalEnabled, served, missed>>

\* updateClientAttachmentStatuses: one UPDATE over the attachments of the route.
MarkActive(w) ==
    LET r == loc[w].r IN
    /\ Step(w, "markActive")
    /\ att' = [c \in Clients |-> [att[c] EXCEPT ![r].status =
                                    IF @ = "approved" THEN "active" ELSE @]]
    /\ Continue(w, "finish")
    /\ UNCHANGED <<rows, approvals, granted, override, route, approvalEnabled,
                   served, missed>>

\* Its failure is logged as well: what was deployed stays approved.
MarkFails(w) ==
    /\ Fails(w, "markActive")
    /\ Goto(w, "finish", [loc[w] EXCEPT !.ok = FALSE])
    /\ UNCHANGED <<rows, attachments, route, approvalEnabled, served, missed>>

\* finishDeploy
FinishDeploy(w) ==
    LET l == loc[w] IN
    /\ Step(w, "finish")
    /\ route' = [route EXCEPT ![l.r] = "active"]
    /\ missed' = IF l.ok THEN missed \ {l.r} ELSE missed \cup {l.r}
    /\ Return(w)
    /\ UNCHANGED <<rows, attachments, approvalEnabled, served>>

\* A call to Kubernetes fails: the route stays queued, the deploy can be repeated.
DeployFails(w) ==
    /\ \/ Fails(w, "applyBase")
       \/ Fails(w, "applyOwn") /\ loc[w].todo # {}
       \/ Fails(w, "finish")
    /\ Return(w)
    /\ UNCHANGED <<rows, attachments, route, approvalEnabled, served, missed>>

\* ProjectService.Update: the approval switch.
Toggle(w) ==
    /\ Begin(w, "toggle")
    /\ approvalEnabled' = ~approvalEnabled
    /\ UNCHANGED <<rows, attachments, route, served, missed, pc, loc>>

Next ==
    \E w \in Workers :
        \/ \E c \in Clients :
              \/ GenerateAPIKey(w, c) \/ RevokeAPIKey(w, c)
              \/ ConfigureJWT(w, c) \/ RemoveJWT(w, c)
              \/ UpdateClientMTLS(w, c) \/ SetAllowedMethods(w, c)
              \/ AddIP(w, c) \/ RemoveIP(w, c) \/ AddHeader(w, c) \/ RemoveHeader(w, c)
              \/ DeleteClient(w, c) \/ ApplyOwn(w, c)
              \/ \E r \in Routes :
                    \/ \E e \in Configs :
                          AttachFromRoute(w, c, r, e) \/ AttachFromClient(w, c, r, e)
                    \/ RequestDetach(w, c, r)
        \/ \E r \in Routes :
              \/ CascadeRoute(w, r) \/ CascadeFails(w, r)
              \/ SubmitUpdate(w, r) \/ ReviewUpdate(w, r) \/ BeginDeploy(w, r)
        \/ \E i \in DOMAIN approvals :
              \E op \in {"approve", "reject", "cancel"} : Decide(w, i, op)
        \/ SaveClient(w) \/ ListAttachments(w) \/ CascadeDone(w)
        \/ StoreAttachment(w) \/ StoreDetach(w) \/ QueueRoute(w) \/ Settle(w)
        \/ Submit(w) \/ Callback(w) \/ Requeue(w) \/ WriteFails(w)
        \/ ApplyBase(w) \/ Cleanup(w) \/ CleanupFails(w) \/ MarkActive(w)
        \/ MarkFails(w) \/ FinishDeploy(w) \/ DeployFails(w) \/ Toggle(w)

Spec == Init /\ [][Next]_vars

---------------------------------------------------------------------------
Quiet == \A w \in Workers : pc[w] = "idle"
Settled(r) == Quiet /\ route[r] = "active" /\ r \notin missed

\* Rows and what is served are well typed.
TypeOK ==
    /\ alive \subseteq Clients
    /\ client \in [Clients -> [RowKinds -> Versions]]
    /\ lists \in [Clients -> [ListKinds -> Versions]]
    /\ att \in [Clients -> [Routes -> AttRows]]
    /\ route \in [Routes -> RouteStatus]
    /\ served \in [Routes -> [base : [Clients -> Access], open : BOOLEAN,
                              own : [Clients -> Access]]]
    /\ missed \subseteq Routes /\ failures \in 0..MaxFailures

\* A client whose attachment is active is let through a route that is active and
\* owes no redeploy with exactly its current credentials: every change either
\* reaches the route through the cascade or leaves it queued.  (A method that
\* is no longer configured is the business of RevokedCredentialRemoved.)
ActiveClientIsCurrent ==
    \A r \in Routes, c \in Clients :
        Settled(r) /\ att[c][r].status = "active" =>
            /\ served[r].base[c] = BaseAccess(c, r)
            /\ HasPerClientAuth(c, r) => served[r].own[c] = OwnAccess(c, r)

\* A client that was detached, or approved and not yet deployed, is not let
\* through a route that is active and owes no redeploy.
DetachedClientIsGone ==
    \A r \in Routes, c \in Clients :
        Settled(r) /\ att[c][r].status \in {"removed", "approved"} =>
            served[r].own[c] = NoAccess /\ served[r].base[c] = NoAccess

\* Whoever has a route of its own was granted the methods it uses there, unless
\* a granted approval was cancelled (its attachment can be stored again under
\* an approval that is still open).
ServedClientWasGranted ==
    \A r \in Routes, c \in Clients :
        served[r].own[c] # NoAccess /\ <<c, r>> \notin override =>
            \E g \in granted :
                /\ g[1] = c /\ g[2] = r
                /\ \A k \in Kinds : served[r].own[c][k] # 0 => k \in g[3]

\* A route that has clients with routes of their own does not let everybody
\* through its base route.
BaseRouteIsGuarded ==
    \A r \in Routes, c \in Clients :
        Quiet /\ att[c][r].status = "active" /\ att[c][r].enabled \cap PerClientKinds # {} =>
            ~served[r].open

\* client_auth.go:112: the Secrets of a revoked key "will be cleaned up during
\* route undeploy/redeploy".  After a redeploy without failures a client that has
\* no configured method left is not let through.
RevokedCredentialRemoved ==
    \A r \in Routes, c \in Clients :
        Settled(r) /\ att[c][r].status = "active" /\ ~HasPerClientAuth(c, r) =>
            served[r].own[c] = NoAccess
=============================================================================
