------------------------------ MODULE Gateways ------------------------------
(***************************************************************************)
(* A gateway template, the domains and the streams that use it, the L4     *)
(* routes of the streams, and the Gateways in the cluster                  *)
(* (services/domain_template_service.go, domain_service.go,                *)
(* stream_service.go, stream_port_collision.go and their repositories).    *)
(*                                                                         *)
(* A listener is a pair of a transport and a port.  Domains listen on TCP  *)
(* ports that the template names; streams claim ports of the range of the  *)
(* template; a route of a stream takes one of its claims.  On a template   *)
(* that merges Gateways all of them share one proxy.  A request reads and  *)
(* checks in one step and writes in later ones, each failing call is a     *)
(* step of its own, and the server may restart between any two.            *)
(***************************************************************************)
EXTENDS Naturals, FiniteSets

CONSTANTS
    Workers,      \* requests served at the same time
    Domains, Streams, Routes, \* ids
    Existing,     \* streams that may be there from the start
    StreamOf,     \* the stream of a route
    TransportOf,  \* the protocol of a route: TCP or UDP
    Names,        \* names of hostname-routed listeners
    Ports, Reserved, \* port numbers, and those that Envoy itself binds
    ListenerSets, \* listeners requests ask for: name -> port or 0, and a range
    ClaimSets,    \* claims requests ask for
    MaxRequests,  \* bound: requests
    MaxFailures,  \* bound: calls that fail
    MaxRestarts   \* bound: restarts of the server

Claims == {"TCP", "UDP"} \X Ports
Listeners == [host : [Names -> Ports \cup {0}], range : SUBSET Ports]

ASSUME InputsAssumption == /\ ListenerSets \subseteq Listeners
                           /\ ClaimSets \subseteq SUBSET Claims
                           /\ Existing \subseteq Streams /\ 0 \notin Ports /\ Reserved \subseteq Ports
                           /\ StreamOf \in [Routes -> Streams]
                           /\ TransportOf \in [Routes -> {"TCP", "UDP"}]
\* Ids tell domains, streams and routes apart, and none is a word of the model.
ASSUME NamesAssumption ==
    /\ Domains \cap Streams = {} /\ Domains \cap Routes = {} /\ Streams \cap Routes = {}
    /\ {"none", "template", "ports"} \cap (Domains \cup Streams \cup Routes) = {}
ASSUME BoundsAssumption == {MaxRequests, MaxFailures, MaxRestarts} \subseteq Nat

None == "none"
NoListeners == [host |-> [n \in Names |-> 0], range |-> {}]
NoTemplate == [status |-> None, merge |-> FALSE, ls |-> NoListeners]
Deleted == [NoTemplate EXCEPT !.status = "deleted"] \* a new one has another id
NoDomain == [status |-> None, bound |-> {}]
NoStream == [status |-> None, ports |-> {}]
NoRoute == [status |-> None, port |-> 0, proposal |-> 0, deployed |-> 0]

VARIABLES
    template,  \* the row of domain_templates
    class, proxy, \* its GatewayClass and its EnvoyProxy are in the cluster
    domain,    \* domains
    stream,    \* streams
    route,     \* routes, with the port of the pending approval and of the
               \* latest deployed version
    live,      \* the listeners of each Gateway in the cluster
    reconcile, \* streams the reconciliation at startup has still to apply
    loc,       \* what each worker holds in memory
    requests, failures, restarts,
    blurred    \* history: ids, and "ports", whose requests overlapped or lost a write

rows == <<template, domain, stream, route>>
cluster == <<class, proxy, live>>
vars == <<rows, cluster, reconcile, loc, requests, failures, restarts, blurred>>

Idle == [op |-> "idle", at |-> "idle", id |-> None, tpl |-> NoTemplate,
         dom |-> NoDomain, str |-> NoStream, rte |-> NoRoute]

HostPorts(ls) == {ls.host[n] : n \in Names} \ {0}
Tcp(ports) == {<<"TCP", p>> : p \in ports}

\* ValidateTemplateListeners; a range is one listener and may hold fixed ports.
ValidateTemplateListeners(ls) ==
    /\ ls # NoListeners
    /\ HostPorts(ls) \cap Reserved = {}
    /\ \A m, n \in Names : m # n /\ ls.host[m] = ls.host[n] => ls.host[n] = 0

HasTemplate == template \notin {NoTemplate, Deleted}

\* Nothing yet, or a template with the streams that were created before.
Init ==
    /\ \/ template = NoTemplate /\ stream = [s \in Streams |-> NoStream]
       \/ /\ \E ls \in ListenerSets, merge \in BOOLEAN :
                /\ ValidateTemplateListeners(ls)
                /\ template = [status |-> "active", merge |-> merge, ls |-> ls]
          /\ \E s \in Existing, ports \in ClaimSets \ {{}} :
                /\ \A c \in ports : c[2] \in template.ls.range \ Reserved
                /\ template.merge => ports \cap Tcp(HostPorts(template.ls)) = {}
                /\ stream = [[t \in Streams |-> NoStream] EXCEPT
                               ![s] = [status |-> "active", ports |-> ports]]
    /\ class = (template # NoTemplate) /\ proxy = class
    /\ domain = [d \in Domains |-> NoDomain]
    /\ route = [r \in Routes |-> NoRoute]
    /\ live = [g \in Domains \cup Streams |-> IF g \in Streams THEN stream[g].ports ELSE {}]
    /\ reconcile = {}
    /\ loc = [w \in Workers |-> Idle]
    /\ requests = 0 /\ failures = 0 /\ restarts = 0
    /\ blurred = {}

---------------------------------------------------------------------------
At(w, label) == loc[w].at = label
Goto(w, label) == loc' = [loc EXCEPT ![w].at = label]
Return(w) == loc' = [loc EXCEPT ![w] = Idle]
Busy(v) == loc[v] # Idle
Fail == failures < MaxFailures /\ failures' = failures + 1
Blur(id) == blurred' = blurred \cup {id}

\* The operations that check a port and write it in a later step.
PortOps == {"createDomain", "createStream", "updateStream", "updateTemplate",
            "createRoute", "updateRoute"}

\* A worker takes up a request with what it has read.
Begin(w, l) ==
    /\ At(w, "idle")
    /\ requests < MaxRequests /\ requests' = requests + 1
    /\ loc' = [loc EXCEPT ![w] = l]
    /\ blurred' = blurred
          \cup {loc[v].id : v \in {u \in Workers : Busy(u) /\ loc[u].id = l.id}}
          \cup IF l.op \in PortOps /\ \E v \in Workers : loc[v].op \in PortOps
               THEN {"ports"} ELSE {}
    /\ UNCHANGED <<rows, cluster, reconcile, failures, restarts>>

---------------------------------------------------------------------------
\* Ports: what the template offers, what is claimed and what is used.

\* ValidateBoundListeners, and the ports that the bound names stand for.
ValidateBoundListeners(ls, bound) == bound # {} /\ \A n \in bound : ls.host[n] # 0
BoundListenerPorts(ls, bound) == {ls.host[n] : n \in bound} \ {0}

\* resolveHostnameListeners: names that are gone stand for every listener.
ResolveHostnameListeners(ls, bound) ==
    Tcp(IF BoundListenerPorts(ls, bound) = {} THEN HostPorts(ls)
        ELSE BoundListenerPorts(ls, bound))

ClaimedPortsByTemplate(except) == UNION {stream[s].ports : s \in Streams \ {except}}
DomainPortsByTemplate ==
    Tcp(UNION {BoundListenerPorts(template.ls, domain[d].bound) : d \in Domains})
TemplateDomainDefaults(t) == IF t.merge THEN Tcp(HostPorts(t.ls)) ELSE {}

CheckDomainPortsAgainstStreams(t, bound) ==
    t.merge => Tcp(BoundListenerPorts(t.ls, bound)) \cap ClaimedPortsByTemplate(None) = {}

\* Mutant of CheckMergedTemplateSet: only the ports in use are looked at.
CheckMergedTemplateSet_UsedOnly(t) ==
    t.merge => ClaimedPortsByTemplate(None) \cap DomainPortsByTemplate = {}
CheckMergedTemplateSet(t) ==
    t.merge => ClaimedPortsByTemplate(None)
                  \cap (DomainPortsByTemplate \cup TemplateDomainDefaults(t)) = {}

\* validateStreamPorts: the rules for every port, and on a merged template
\* those for ports that others have.
ValidateStreamPorts(s, ports) ==
    /\ ports # {}
    /\ \A c \in ports : c[2] \notin Reserved /\ c[2] \in template.ls.range
    /\ template.merge =>
          ports \cap (ClaimedPortsByTemplate(s) \cup DomainPortsByTemplate
                        \cup TemplateDomainDefaults(template)) = {}

\* Mutant of UsedPortsByStream: the version in the cluster is not counted.
UsedPortsByStream_RowsOnly(s, except) ==
    {c \in Claims : \E r \in Routes \ {except} :
        /\ StreamOf[r] = s /\ TransportOf[r] = c[1]
        /\ route[r].status \notin {None, "rejected"}
        /\ c[2] \in {route[r].port, route[r].proposal}}

\* UsedPortsByStream: by the row, by a pending approval, by the latest deployed
\* version; a rejected route holds nothing.
UsedPortsByStream(s, except) ==
    {c \in Claims : \E r \in Routes \ {except} :
        /\ StreamOf[r] = s /\ TransportOf[r] = c[1]
        /\ route[r].status \notin {None, "rejected"}
        /\ c[2] \in {route[r].port, route[r].proposal, route[r].deployed}}
CheckUsedClaimsKept(s, ports) == UsedPortsByStream(s, None) \subseteq ports

\* CheckRoutePort: claimed by the stream and used by no other route of it.
CheckRoutePort(r, p) ==
    /\ p \notin Reserved
    /\ <<TransportOf[r], p>> \in stream[StreamOf[r]].ports
    /\ <<TransportOf[r], p>> \notin UsedPortsByStream(StreamOf[r], r)

\* The unique index on (stream_id, protocol, listener_port) of migration 50.
IndexAllows(r, row) ==
    row.status # "rejected" =>
        \A q \in Routes \ {r} :
            ~(/\ StreamOf[q] = StreamOf[r] /\ TransportOf[q] = TransportOf[r]
              /\ route[q].status \notin {None, "rejected"} /\ route[q].port = row.port)

---------------------------------------------------------------------------
\* Templates.

CreateTemplate(w, ls, merge) ==
    /\ template = NoTemplate
    /\ ValidateTemplateListeners(ls)
    /\ Begin(w, [Idle EXCEPT !.op = "createTemplate", !.id = "template", !.at = "insertTemplate",
                    !.tpl = [status |-> "pending", merge |-> merge, ls |-> ls]])

InsertTemplate(w) ==
    /\ At(w, "insertTemplate")
    /\ IF template = NoTemplate
       THEN template' = loc[w].tpl /\ Goto(w, "createProxy")
       ELSE Return(w) /\ UNCHANGED template
    /\ UNCHANGED <<domain, stream, route, cluster, reconcile, requests, failures, restarts, blurred>>

CreateEnvoyProxy(w) ==
    /\ At(w, "createProxy")
    /\ proxy' = TRUE
    /\ Goto(w, "createClass")
    /\ UNCHANGED <<rows, class, live, reconcile, requests, failures, restarts, blurred>>

CreateGatewayClass(w) ==
    /\ At(w, "createClass")
    /\ class' = TRUE
    /\ loc' = [loc EXCEPT ![w].tpl.status = "active", ![w].at = "saveTemplate"]
    /\ UNCHANGED <<rows, proxy, live, reconcile, requests, failures, restarts, blurred>>

\* A call fails: the EnvoyProxy of a class that was not created is removed.
TemplateCallFails(w) ==
    /\ loc[w].at \in {"createProxy", "createClass"} /\ Fail
    /\ proxy' = (proxy /\ At(w, "createProxy"))
    /\ loc' = [loc EXCEPT ![w].tpl.status = "error", ![w].at = "saveTemplate"]
    /\ UNCHANGED <<rows, class, live, reconcile, requests, restarts, blurred>>

\* Save writes the whole row, and inserts it again when it is gone.
SaveTemplate(w) ==
    /\ At(w, "saveTemplate")
    /\ template' = loc[w].tpl
    /\ Return(w)
    /\ UNCHANGED <<domain, stream, route, cluster, reconcile, requests, failures, restarts, blurred>>

\* Update: the new listeners reach the row only; no Gateway is applied.
UpdateTemplate(w, ls) ==
    /\ HasTemplate
    /\ ValidateTemplateListeners(ls)
    /\ CheckMergedTemplateSet([template EXCEPT !.ls = ls])
    /\ Begin(w, [Idle EXCEPT !.op = "updateTemplate", !.id = "template", !.at = "saveTemplate",
                    !.tpl = [template EXCEPT !.ls = ls]])

\* Update of a setting of the proxy, which is deleted and created again.
UpdateProxy(w) ==
    /\ HasTemplate
    /\ Begin(w, [Idle EXCEPT !.op = "updateProxy", !.id = "template", !.at = "replaceProxy",
                    !.tpl = template])
ReplaceProxy(w) ==
    /\ At(w, "replaceProxy")
    /\ \/ proxy' = TRUE /\ UNCHANGED failures
       \/ proxy' = FALSE /\ Fail
    /\ Goto(w, "saveTemplate")
    /\ UNCHANGED <<rows, class, live, reconcile, requests, restarts, blurred>>

InUse == \/ \E d \in Domains : domain[d] # NoDomain
         \/ \E s \in Streams : stream[s] # NoStream
DeleteTemplate(w) ==
    /\ HasTemplate /\ ~InUse
    /\ Begin(w, [Idle EXCEPT !.op = "deleteTemplate", !.id = "template", !.at = "deleteClass",
                    !.tpl = template])

\* Failures of these two calls are logged only.
DeleteClass(w) ==
    /\ At(w, "deleteClass")
    /\ \/ class' = FALSE /\ proxy' = FALSE /\ UNCHANGED failures
       \/ Fail /\ class' \in {class, FALSE} /\ proxy' \in {proxy, FALSE}
    /\ Goto(w, "deleteTemplate")
    /\ UNCHANGED <<rows, live, reconcile, requests, restarts, blurred>>

\* The foreign keys of domains and streams refuse the delete of a row in use.
DeleteTemplateRow(w) ==
    /\ At(w, "deleteTemplate")
    /\ template' = IF InUse THEN template ELSE Deleted
    /\ Return(w)
    /\ UNCHANGED <<domain, stream, route, cluster, reconcile, requests, failures, restarts, blurred>>

---------------------------------------------------------------------------
\* Domains.

CreateDomain(w, d, bound) ==
    /\ domain[d] = NoDomain /\ template.status = "active"
    /\ ValidateBoundListeners(template.ls, bound)
    /\ CheckDomainPortsAgainstStreams(template, bound)
    /\ Begin(w, [Idle EXCEPT !.op = "createDomain", !.id = d, !.at = "insertDomain",
                    !.tpl = template, !.dom = [status |-> "pending", bound |-> bound]])

InsertDomain(w) ==
    LET l == loc[w] IN
    /\ At(w, "insertDomain")
    /\ IF domain[l.id] = NoDomain /\ HasTemplate
       THEN domain' = [domain EXCEPT ![l.id] = l.dom] /\ Goto(w, "createGateway")
       ELSE Return(w) /\ UNCHANGED domain
    /\ UNCHANGED <<template, stream, route, cluster, reconcile, requests, failures, restarts, blurred>>

Settle(w, status) == loc' = [loc EXCEPT ![w].dom.status = status, ![w].at = "saveDomain"]

\* CreateGateway does not replace a Gateway that is there.
CreateGateway(w) ==
    LET l == loc[w] IN
    /\ At(w, "createGateway")
    /\ IF live[l.id] = {}
       THEN /\ live' = [live EXCEPT ![l.id] = ResolveHostnameListeners(l.tpl.ls, l.dom.bound)]
            /\ Settle(w, "active")
       ELSE Settle(w, "error") /\ UNCHANGED live
    /\ UNCHANGED <<rows, class, proxy, reconcile, requests, failures, restarts, blurred>>

\* Update: the row, then the Gateway from the row and the template of now.
UpdateDomain(w, d) ==
    /\ domain[d] # NoDomain
    /\ Begin(w, [Idle EXCEPT !.op = "updateDomain", !.id = d, !.at = "storeDomain",
                    !.dom = domain[d]])

\* Save: a row that is gone is inserted again if the template is there.
StoredDomain(l) == IF ~HasTemplate THEN domain ELSE [domain EXCEPT ![l.id] = l.dom]
StoreDomain(w) ==
    /\ At(w, "storeDomain")
    /\ domain' = StoredDomain(loc[w])
    /\ IF ~HasTemplate THEN Return(w) ELSE Goto(w, "applyGateway")
    /\ UNCHANGED <<template, stream, route, cluster, reconcile, requests, failures, restarts, blurred>>

ApplyGateway(w) ==
    LET l == loc[w] IN
    /\ At(w, "applyGateway")
    /\ IF ~HasTemplate
       THEN Settle(w, "error") /\ UNCHANGED live
       ELSE /\ live' = [live EXCEPT ![l.id] = ResolveHostnameListeners(template.ls, l.dom.bound)]
            /\ Settle(w, "active")
    /\ UNCHANGED <<rows, class, proxy, reconcile, requests, failures, restarts, blurred>>

\* Mutant of GatewayCallFails: a template that cannot be read is none.
GatewayCallFails_FailsOpen(w) ==
    /\ loc[w].at \in {"createGateway", "applyGateway"} /\ Fail
    /\ live' = [live EXCEPT ![loc[w].id] =
                   IF At(w, "applyGateway") THEN ResolveHostnameListeners(NoListeners, loc[w].dom.bound)
                   ELSE @]
    /\ Settle(w, "error")
    /\ UNCHANGED <<rows, class, proxy, reconcile, requests, restarts, blurred>>

\* The template cannot be read, or the call to the cluster fails.
GatewayCallFails(w) ==
    /\ loc[w].at \in {"createGateway", "applyGateway"} /\ Fail
    /\ Settle(w, "error")
    /\ UNCHANGED <<rows, cluster, reconcile, requests, restarts, blurred>>

\* The result of this save is ignored.
SaveDomain(w) ==
    /\ At(w, "saveDomain")
    /\ \/ domain' = StoredDomain(loc[w]) /\ UNCHANGED <<failures, blurred>>
       \/ Fail /\ Blur(loc[w].id) /\ UNCHANGED domain
    /\ Return(w)
    /\ UNCHANGED <<template, stream, route, cluster, reconcile, requests, restarts>>

DeleteDomain(w, d) ==
    /\ domain[d] # NoDomain
    /\ Begin(w, [Idle EXCEPT !.op = "deleteDomain", !.id = d, !.at = "deleteGateway"])

\* A failure to delete the Gateway of a domain or a stream is logged only.
DeleteGateway(w) ==
    /\ At(w, "deleteGateway")
    /\ \/ live' = [live EXCEPT ![loc[w].id] = {}] /\ UNCHANGED failures
       \/ Fail /\ UNCHANGED live
    /\ Goto(w, "deleteRow")
    /\ UNCHANGED <<rows, class, proxy, reconcile, requests, restarts, blurred>>

\* The routes of a stream go with its row.
DeleteRow(w) ==
    LET id == loc[w].id IN
    /\ At(w, "deleteRow")
    /\ IF id \in Domains
       THEN domain' = [domain EXCEPT ![id] = NoDomain] /\ UNCHANGED <<stream, route>>
       ELSE /\ stream' = [stream EXCEPT ![id] = NoStream]
            /\ route' = [r \in Routes |-> IF StreamOf[r] = id THEN NoRoute ELSE route[r]]
            /\ UNCHANGED domain
    /\ Return(w)
    /\ UNCHANGED <<template, cluster, reconcile, requests, failures, restarts, blurred>>

---------------------------------------------------------------------------
\* Streams.

\* The template needs a range; it need not be active.
CreateStream(w, s, ports) ==
    /\ stream[s] = NoStream /\ HasTemplate
    /\ ValidateStreamPorts(s, ports)
    /\ Begin(w, [Idle EXCEPT !.op = "createStream", !.id = s, !.at = "insertStream",
                    !.str = [status |-> "pending", ports |-> ports]])

InsertStream(w) ==
    LET l == loc[w] IN
    /\ At(w, "insertStream")
    /\ IF stream[l.id] = NoStream /\ HasTemplate
       THEN stream' = [stream EXCEPT ![l.id] = l.str] /\ Goto(w, "applyStream")
       ELSE Return(w) /\ UNCHANGED stream
    /\ UNCHANGED <<template, domain, route, cluster, reconcile, requests, failures, restarts, blurred>>

\* Update of the claims; every claim in use is kept.
UpdateStream(w, s, ports) ==
    /\ stream[s] # NoStream
    /\ ValidateStreamPorts(s, ports)
    /\ CheckUsedClaimsKept(s, ports)
    /\ Begin(w, [Idle EXCEPT !.op = "updateStream", !.id = s, !.at = "storeStream",
                    !.str = [stream[s] EXCEPT !.ports = ports]])

\* Update of the name only: the whole row is written, the cluster left alone.
RenameStream(w, s) ==
    /\ stream[s] # NoStream
    /\ Begin(w, [Idle EXCEPT !.op = "renameStream", !.id = s, !.at = "storeStream", !.str = stream[s]])

StoreStream(w) ==
    LET l == loc[w] IN
    /\ At(w, "storeStream")
    /\ IF ~HasTemplate THEN Return(w) /\ UNCHANGED stream
       ELSE /\ stream' = [stream EXCEPT ![l.id] = l.str]
            /\ IF l.op = "renameStream" THEN Return(w) ELSE Goto(w, "applyStream")
    /\ UNCHANGED <<template, domain, route, cluster, reconcile, requests, failures, restarts, blurred>>

\* ApplyGateway of StreamService: one listener per claim.
ApplyStream(w) ==
    LET l == loc[w] IN
    /\ At(w, "applyStream")
    /\ \/ /\ live' = [live EXCEPT ![l.id] = l.str.ports]
          /\ loc' = [loc EXCEPT ![w].str.status = "active", ![w].at = "streamStatus"]
          /\ UNCHANGED failures
       \/ /\ Fail /\ UNCHANGED live
          /\ loc' = [loc EXCEPT ![w].str.status = "error", ![w].at = "streamStatus"]
    /\ UNCHANGED <<rows, class, proxy, reconcile, requests, restarts, blurred>>

\* UpdateStatus writes the status of a row that is there and nothing else.
StreamStatus(w) ==
    LET l == loc[w] IN
    /\ At(w, "streamStatus")
    /\ \/ /\ stream' = IF stream[l.id] = NoStream THEN stream
                       ELSE [stream EXCEPT ![l.id].status = l.str.status]
          /\ UNCHANGED <<failures, blurred>>
       \/ Fail /\ Blur(l.id) /\ UNCHANGED stream
    /\ Return(w)
    /\ UNCHANGED <<template, domain, route, cluster, reconcile, requests, restarts>>

DeleteStream(w, s) ==
    /\ stream[s] # NoStream
    /\ \A r \in Routes : StreamOf[r] = s => route[r] = NoRoute
    /\ Begin(w, [Idle EXCEPT !.op = "deleteStream", !.id = s, !.at = "deleteGateway"])

\* The server stops anywhere and starts again; it then goes through the streams.
Restart ==
    /\ restarts < MaxRestarts /\ restarts' = restarts + 1
    /\ loc' = [w \in Workers |-> Idle]
    /\ reconcile' = {s \in Streams : stream[s] # NoStream}
    /\ UNCHANGED <<rows, cluster, requests, failures, blurred>>

\* Mutant of ReconcileGateways: streams that are marked active are left out.
ReconcileGateways_SkipsActive(w, s) ==
    /\ s \in reconcile /\ reconcile' = reconcile \ {s}
    /\ At(w, "idle")
    /\ loc' = [loc EXCEPT ![w] =
          IF stream[s].status \in {None, "active"} THEN Idle
          ELSE [Idle EXCEPT !.op = "reconcile", !.id = s, !.at = "applyStream", !.str = stream[s]]]
    /\ blurred' = IF \E v \in Workers : Busy(v) /\ loc[v].id = s THEN blurred \cup {s} ELSE blurred
    /\ UNCHANGED <<rows, cluster, requests, failures, restarts>>

\* ReconcileGateways reads each stream again just before it is applied.
ReconcileGateways(w, s) ==
    /\ s \in reconcile /\ reconcile' = reconcile \ {s}
    /\ At(w, "idle")
    /\ loc' = [loc EXCEPT ![w] =
          IF stream[s] = NoStream THEN Idle
          ELSE [Idle EXCEPT !.op = "reconcile", !.id = s, !.at = "applyStream", !.str = stream[s]]]
    /\ blurred' = IF \E v \in Workers : Busy(v) /\ loc[v].id = s THEN blurred \cup {s} ELSE blurred
    /\ UNCHANGED <<rows, cluster, requests, failures, restarts>>

---------------------------------------------------------------------------
\* Routes of streams: the port that is checked, stored, proposed and deployed.

CreateRoute(w, r, p) ==
    /\ route[r] = NoRoute /\ stream[StreamOf[r]] # NoStream
    /\ CheckRoutePort(r, p)
    /\ Begin(w, [Idle EXCEPT !.op = "createRoute", !.id = r, !.at = "storeRoute",
                    !.rte = [NoRoute EXCEPT !.status = "pending_create", !.port = p, !.proposal = p]])

\* An update is proposed; the row keeps its port until the approval.
UpdateRoute(w, r, p) ==
    /\ route[r].status \in {"approved", "active", "rejected", "pending_deploy"}
    /\ CheckRoutePort(r, p)
    /\ Begin(w, [Idle EXCEPT !.op = "updateRoute", !.id = r, !.at = "storeRoute",
                    !.rte = [route[r] EXCEPT !.status = "pending_update", !.proposal = p]])

StoreRoute(w) ==
    LET l == loc[w] IN
    /\ At(w, "storeRoute")
    /\ route' = IF stream[StreamOf[l.id]] # NoStream /\ IndexAllows(l.id, l.rte)
                THEN [route EXCEPT ![l.id] = [l.rte EXCEPT !.deployed = route[l.id].deployed]]
                ELSE route
    /\ Return(w)
    /\ UNCHANGED <<template, domain, stream, cluster, reconcile, requests, failures, restarts, blurred>>

RouteStep(r, row) ==
    /\ route' = [route EXCEPT ![r] = row]
    /\ UNCHANGED <<template, domain, stream, cluster, reconcile, loc, requests, failures,
                   restarts, blurred>>

\* OnApproved writes the proposed port, if the index allows.
ApproveRoute(r) ==
    \/ /\ route[r].status = "pending_create"
       /\ RouteStep(r, [route[r] EXCEPT !.status = "approved", !.proposal = 0])
    \/ /\ route[r].status = "pending_update"
       /\ LET new == [route[r] EXCEPT !.status = "pending_deploy", !.port = route[r].proposal,
                                       !.proposal = 0] IN
          RouteStep(r, IF IndexAllows(r, new) THEN new ELSE [route[r] EXCEPT !.proposal = 0])

\* OnRejected and OnCancelled.
RefuseRoute(r) ==
    \/ /\ route[r].status = "pending_create"
       /\ \/ RouteStep(r, [route[r] EXCEPT !.status = "rejected", !.proposal = 0])
          \/ RouteStep(r, NoRoute)
    \/ /\ route[r].status = "pending_update"
       /\ RouteStep(r, [route[r] EXCEPT !.status = "active", !.proposal = 0])

\* deployL4 looks once more that the port is claimed; the Gateway is not touched.
DeployRoute(r) ==
    /\ route[r].status \in {"approved", "pending_deploy"}
    /\ <<TransportOf[r], route[r].port>> \in stream[StreamOf[r]].ports
    /\ RouteStep(r, [route[r] EXCEPT !.status = "active", !.deployed = route[r].port])

\* A delete that was approved and deployed: object and row are gone.
RemoveRoute(r) ==
    /\ route[r].status \in {"approved", "active", "rejected", "pending_deploy"}
    /\ RouteStep(r, NoRoute)

---------------------------------------------------------------------------
Next ==
    \/ Restart
    \/ \E r \in Routes : ApproveRoute(r) \/ RefuseRoute(r) \/ DeployRoute(r) \/ RemoveRoute(r)
    \/ \E w \in Workers :
          \/ \E ls \in ListenerSets :
                (\E merge \in BOOLEAN : CreateTemplate(w, ls, merge)) \/ UpdateTemplate(w, ls)
          \/ UpdateProxy(w) \/ DeleteTemplate(w)
          \/ InsertTemplate(w) \/ CreateEnvoyProxy(w) \/ CreateGatewayClass(w)
          \/ TemplateCallFails(w) \/ SaveTemplate(w) \/ ReplaceProxy(w)
          \/ DeleteClass(w) \/ DeleteTemplateRow(w)
          \/ \E d \in Domains :
                \/ \E bound \in SUBSET Names : CreateDomain(w, d, bound)
                \/ UpdateDomain(w, d) \/ DeleteDomain(w, d)
          \/ InsertDomain(w) \/ CreateGateway(w) \/ StoreDomain(w) \/ ApplyGateway(w)
          \/ GatewayCallFails(w) \/ SaveDomain(w) \/ DeleteGateway(w) \/ DeleteRow(w)
          \/ \E s \in Streams :
                \/ \E ports \in ClaimSets : CreateStream(w, s, ports) \/ UpdateStream(w, s, ports)
                \/ RenameStream(w, s) \/ DeleteStream(w, s) \/ ReconcileGateways(w, s)
          \/ InsertStream(w) \/ StoreStream(w) \/ ApplyStream(w) \/ StreamStatus(w)
          \/ \E r \in Routes, p \in Ports : CreateRoute(w, r, p) \/ UpdateRoute(w, r, p)
          \/ StoreRoute(w)

Spec == Init /\ [][Next]_vars

---------------------------------------------------------------------------
\* Rows are well typed, and those of domains and streams have their template.
TypeOK ==
    /\ template.status \in {None, "deleted", "pending", "active", "error"} /\ template.ls \in Listeners
    /\ domain \in [Domains -> [status : {None, "pending", "active", "error"}, bound : SUBSET Names]]
    /\ stream \in [Streams -> [status : {None, "pending", "active", "error"}, ports : SUBSET Claims]]
    /\ \A g \in Domains \cup Streams : live[g] \subseteq Claims
    /\ ~HasTemplate => ~InUse
    /\ \A r \in Routes : route[r] # NoRoute => stream[StreamOf[r]] # NoStream

\* On a merged template nobody has the port of another: the claims of two
\* streams are disjoint, and none is a port of the template, whatever sequence
\* of changes to claims, domains and listeners led there.  (Requests that check
\* at the same time can both pass.)
ClaimsDisjoint ==
    template.merge /\ {"ports", "template"} \cap blurred = {} =>
        \A s \in Streams \ blurred :
            /\ stream[s].ports \cap Tcp(HostPorts(template.ls)) = {}
            /\ \A t \in Streams \ (blurred \cup {s}) : stream[s].ports \cap stream[t].ports = {}

\* A port that a route was deployed on stays a claim of its stream, and of two
\* routes at most one is deployed on it: also while an approved move of the
\* route to another port still waits for its deploy.
DeployedPortsHeld ==
    \A r \in Routes :
        LET s == StreamOf[r]
            c == <<TransportOf[r], route[r].deployed>> IN
        route[r].deployed # 0 /\ {"ports", s, r} \cap blurred = {} =>
            /\ c \in stream[s].ports
            /\ \A q \in Routes \ {r} :
                  StreamOf[q] = s /\ q \notin blurred => <<TransportOf[q], route[q].deployed>> # c

\* A stream that is active, that nobody works on and that the reconciliation
\* has passed, has exactly its claims as listeners: also when the server stopped
\* between the row and the Gateway.
SettledStreamIsLive ==
    \A s \in Streams \ (reconcile \cup blurred) :
        stream[s].status = "active" /\ (\A w \in Workers : loc[w].id # s) =>
            live[s] = stream[s].ports

\* A Gateway loses its last listener only to the delete of its domain or stream,
\* or because the template has none left: never because the template could not
\* be read or a call failed.
GatewayNotEmptied ==
    [][\A g \in Domains \cup Streams : live[g] # {} /\ live'[g] = {} =>
          \/ \E w \in Workers : loc[w].id = g /\ loc[w].op \in {"deleteDomain", "deleteStream"}
          \/ g \in Domains /\ HostPorts(template.ls) = {}]_vars
=============================================================================
