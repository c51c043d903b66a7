---------------------------- MODULE GatewaysProofs ----------------------------
(***************************************************************************)
(* Theorems about Gateways, for any domains, streams, routes, listeners    *)
(* and ports and any number of requests, failures and restarts.            *)
(***************************************************************************)
EXTENDS Gateways, TLAPS

TemplateLabels == {"insertTemplate", "createProxy", "createClass", "saveTemplate", "replaceProxy",
                   "deleteClass", "deleteTemplate"}
DomainLabels == {"insertDomain", "createGateway", "storeDomain", "applyGateway", "saveDomain"}
StreamLabels == {"insertStream", "storeStream", "applyStream", "streamStatus"}
Labels == {"idle", "deleteGateway", "deleteRow", "storeRoute"} \cup TemplateLabels \cup DomainLabels
             \cup StreamLabels
Ops == {"idle", "createTemplate", "updateTemplate", "updateProxy", "deleteTemplate", "createDomain",
        "updateDomain", "deleteDomain", "createStream", "updateStream", "renameStream", "deleteStream",
        "reconcile", "createRoute", "updateRoute"}
There == {"pending", "active", "error"}
RouteStatus == {None, "pending_create", "pending_update", "approved", "active", "rejected", "pending_deploy"}

TemplateRows == [status : {None, "deleted"} \cup There, merge : BOOLEAN, ls : Listeners]
DomainRows == [status : {None} \cup There, bound : SUBSET Names]
StreamRows == [status : {None} \cup There, ports : SUBSET Claims]
RouteRows == [status : RouteStatus, port : Ports \cup {0}, proposal : Ports \cup {0}, deployed : Ports \cup {0}]
Locals == [op : Ops, at : Labels, id : Domains \cup Streams \cup Routes \cup {"template", None},
           tpl : TemplateRows, dom : DomainRows, str : StreamRows, rte : RouteRows]

StateTyped ==
    /\ template \in TemplateRows
    /\ domain \in [Domains -> DomainRows] /\ stream \in [Streams -> StreamRows]
    /\ route \in [Routes -> RouteRows]
    /\ live \in [Domains \cup Streams -> SUBSET Claims]
    /\ loc \in [Workers -> Locals]

\* What a worker holds at each of its steps.
InPlace(l) ==
    /\ l.at = "idle" => l = Idle
    /\ l.at \in TemplateLabels => l.id = "template"
    /\ l.at \in {"insertTemplate", "createProxy", "createClass"} => l.op = "createTemplate"
    /\ l.at = "replaceProxy" => l.op = "updateProxy"
    /\ l.at = "saveTemplate" => l.op \in {"createTemplate", "updateTemplate", "updateProxy"}
    /\ l.at \in TemplateLabels \ {"deleteClass", "deleteTemplate"} => l.tpl.status \in There
    /\ l.at \in DomainLabels => l.id \in Domains
    /\ l.at \in {"deleteGateway", "deleteRow"} =>
          (l.op = "deleteDomain" /\ l.id \in Domains) \/ (l.op = "deleteStream" /\ l.id \in Streams)
    /\ l.at \in StreamLabels => l.id \in Streams /\ l.str.ports # {} /\ l.str.status \in There
    /\ l.at = "insertStream" => l.op = "createStream"
    /\ l.at = "storeStream" => l.op \in {"updateStream", "renameStream"}
    /\ l.at = "storeRoute" => /\ l.id \in Routes /\ l.rte.proposal \in Ports
                              /\ \/ l.op = "createRoute" /\ l.rte.status = "pending_create"
                                    /\ l.rte.port = l.rte.proposal
                                 \/ l.op = "updateRoute" /\ l.rte.status = "pending_update"

\* Rows that are not there are empty, the others are not.
RowsWhole ==
    /\ template.status = None => template = NoTemplate
    /\ template.status = "deleted" => template = Deleted
    /\ \A s \in Streams : IF stream[s].status = None THEN stream[s] = NoStream ELSE stream[s].ports # {}
    /\ \A r \in Routes : route[r].status = None => route[r] = NoRoute
    /\ ~HasTemplate => ~InUse
    /\ \A r \in Routes : route[r] # NoRoute => stream[StreamOf[r]] # NoStream
    /\ \A w \in Workers : loc[w].at \in {"insertStream", "storeStream"} => template # NoTemplate
TypedInv == StateTyped /\ (\A w \in Workers : InPlace(loc[w])) /\ RowsWhole

---------------------------------------------------------------------------
\* Requests on one id did not overlap, nor did requests that check ports.
Alone ==
    /\ \A v, w \in Workers : ~At(v, "idle") /\ ~At(w, "idle") /\ loc[v].id = loc[w].id
                               /\ loc[w].id \notin blurred => v = w
    /\ \A v, w \in Workers : {loc[v].op, loc[w].op} \subseteq PortOps /\ "ports" \notin blurred => v = w

---------------------------------------------------------------------------
\* Claims.  What a request has checked still holds when it writes.
Clear(ls, ports) == ports \cap Tcp(HostPorts(ls)) = {}
Claiming(l) == l.at \in {"insertStream", "storeStream"} /\ l.op # "renameStream"
ClaimsChecked ==
    \A w \in Workers :
        Claiming(loc[w]) /\ template.merge /\ {"ports", "template", loc[w].id} \cap blurred = {} =>
            /\ Clear(template.ls, loc[w].str.ports)
            /\ \A t \in Streams \ (blurred \cup {loc[w].id}) : loc[w].str.ports \cap stream[t].ports = {}
Retemplating(l) == l.at \in {"createProxy", "createClass", "replaceProxy", "saveTemplate"}
TemplateChecked ==
    \A w \in Workers : Retemplating(loc[w]) /\ "template" \notin blurred =>
        /\ loc[w].tpl.merge = template.merge
        /\ loc[w].op # "updateTemplate" => loc[w].tpl.ls = template.ls
        /\ loc[w].op = "updateTemplate" /\ template.merge /\ "ports" \notin blurred =>
              \A s \in Streams \ blurred : Clear(loc[w].tpl.ls, stream[s].ports)
RenamesKeep ==
    \A w \in Workers : At(w, "storeStream") /\ loc[w].op = "renameStream" /\ loc[w].id \notin blurred =>
        loc[w].str = stream[loc[w].id]
ClaimsInv == ClaimsDisjoint /\ ClaimsChecked /\ TemplateChecked /\ RenamesKeep

---------------------------------------------------------------------------
\* Routes.  The ports that a route is deployed on or may be deployed on without
\* a further check against the other routes.
Prospects(row) == ({row.deployed}
                    \cup (IF row.status \in {"pending_create", "pending_update"} THEN {row.proposal} ELSE {})
                    \cup (IF row.status \in {"pending_create", "approved", "pending_deploy"} THEN {row.port} ELSE {}))
                  \ {0}
Rivals(q, r) == q # r /\ StreamOf[q] = StreamOf[r] /\ TransportOf[q] = TransportOf[r]
ProspectsApart ==
    "ports" \notin blurred => \A q, r \in Routes \ blurred : Rivals(q, r) => Prospects(route[q]) \cap Prospects(route[r]) = {}
ProspectsClaimed ==
    \A r \in Routes : {"ports", StreamOf[r], r} \cap blurred = {} =>
        \A p \in Prospects(route[r]) : <<TransportOf[r], p>> \in stream[StreamOf[r]].ports
\* A route that was never approved is not deployed, and the request that creates
\* a route finds none.
Undeployed ==
    /\ \A r \in Routes \ blurred : route[r].status \in {None, "rejected", "pending_create"} => route[r].deployed = 0
    /\ \A w \in Workers : At(w, "storeRoute") /\ loc[w].op = "createRoute" /\ loc[w].id \notin blurred =>
          route[loc[w].id] = NoRoute
\* The port that a request has checked is still free and claimed, and claims
\* about to be written cover what the routes of the stream need.
PortChecked ==
    \A w \in Workers : At(w, "storeRoute") =>
        LET r == loc[w].id IN
        /\ {"ports", r} \cap blurred = {} =>
              \A q \in Routes \ blurred : Rivals(q, r) => loc[w].rte.proposal \notin Prospects(route[q])
        /\ {"ports", r, StreamOf[r]} \cap blurred = {} =>
              \/ stream[StreamOf[r]] = NoStream
              \/ <<TransportOf[r], loc[w].rte.proposal>> \in stream[StreamOf[r]].ports
NeedsCovered ==
    \A w \in Workers : At(w, "storeStream") /\ loc[w].op = "updateStream" /\ {"ports", loc[w].id} \cap blurred = {} =>
        \A r \in Routes \ blurred : StreamOf[r] = loc[w].id =>
            \A p \in Prospects(route[r]) : <<TransportOf[r], p>> \in loc[w].str.ports
RoutesInv == ProspectsApart /\ ProspectsClaimed /\ Undeployed /\ PortChecked /\ NeedsCovered

---------------------------------------------------------------------------
\* Gateways of streams.
Unwritten(s) == \A w \in Workers : loc[w].id = s => loc[w].at = "storeStream"
LiveInv ==
    /\ \A s \in Streams \ (reconcile \cup blurred) :
          stream[s].status = "active" /\ Unwritten(s) => live[s] = stream[s].ports
    /\ \A w \in Workers : loc[w].id \notin blurred =>
          /\ At(w, "insertStream") => stream[loc[w].id] = NoStream
          /\ At(w, "applyStream") => loc[w].str.ports = stream[loc[w].id].ports
          /\ At(w, "streamStatus") /\ loc[w].str.status = "active" => live[loc[w].id] = stream[loc[w].id].ports

GatewaysInv == TypedInv /\ Alone /\ ClaimsInv /\ RoutesInv /\ LiveInv

---------------------------------------------------------------------------
\* What a request begins with: it has checked what it read.
Startable(l) ==
    /\ l \in Locals /\ InPlace(l)
    /\ l.at \in {"insertTemplate", "saveTemplate", "replaceProxy", "deleteClass", "insertDomain", "storeDomain",
                 "deleteGateway", "insertStream", "storeStream", "storeRoute"}
    /\ l.at \in {"saveTemplate", "replaceProxy"} =>
          /\ l.tpl.merge = template.merge /\ l.op # "createTemplate"
          /\ l.op # "updateTemplate" => l.tpl.ls = template.ls
          /\ l.op = "updateTemplate" /\ template.merge => \A s \in Streams : Clear(l.tpl.ls, stream[s].ports)
    /\ Claiming(l) /\ template.merge =>
          /\ Clear(template.ls, l.str.ports)
          /\ \A t \in Streams \ {l.id} : l.str.ports \cap stream[t].ports = {}
    /\ l.at \in {"insertStream", "storeStream"} => template # NoTemplate
    /\ l.at = "insertStream" => stream[l.id] = NoStream
    /\ l.at = "storeStream" /\ l.op = "renameStream" => l.str = stream[l.id]
    /\ l.at = "storeStream" /\ l.op = "updateStream" => UsedPortsByStream(l.id, None) \subseteq l.str.ports
    /\ l.at = "storeRoute" => CheckRoutePort(l.id, l.rte.proposal)
    /\ l.at = "storeRoute" /\ l.op = "createRoute" => route[l.id] = NoRoute

\* The requests that a worker can take up.
Request(w) ==
    \/ \E ls \in ListenerSets : (\E merge \in BOOLEAN : CreateTemplate(w, ls, merge)) \/ UpdateTemplate(w, ls)
    \/ UpdateProxy(w) \/ DeleteTemplate(w)
    \/ \E d \in Domains :
          (\E bound \in SUBSET Names : CreateDomain(w, d, bound)) \/ UpdateDomain(w, d) \/ DeleteDomain(w, d)
    \/ \E s \in Streams : \/ \E ports \in ClaimSets : CreateStream(w, s, ports) \/ UpdateStream(w, s, ports)
                          \/ RenameStream(w, s) \/ DeleteStream(w, s)
    \/ \E r \in Routes, p \in Ports : CreateRoute(w, r, p) \/ UpdateRoute(w, r, p)

\* The rows of a new process.
LEMMA EmptyRows ==
    /\ NoTemplate \in TemplateRows /\ Deleted \in TemplateRows /\ NoDomain \in DomainRows
    /\ NoStream \in StreamRows /\ NoRoute \in RouteRows
    /\ Idle \in Locals /\ InPlace(Idle)
<1>1. NoListeners \in Listeners
  BY DEF NoListeners, Listeners
<1>2. NoTemplate \in TemplateRows /\ Deleted \in TemplateRows
  BY <1>1 DEF NoTemplate, Deleted, TemplateRows
<1>3. NoDomain \in DomainRows /\ NoStream \in StreamRows /\ NoRoute \in RouteRows
  BY DEF NoDomain, DomainRows, NoStream, StreamRows, NoRoute, RouteRows, RouteStatus
<1>4. Idle \in Locals
  BY <1>2, <1>3 DEF Idle, Locals, Ops, Labels
<1>5. InPlace(Idle)
  BY DEF Idle, InPlace, TemplateLabels, DomainLabels, StreamLabels
<1> QED  BY <1>2, <1>3, <1>4, <1>5

\* A template that is there, and ports that nobody else has.
LEMMA TemplateThere ==
    ASSUME TypedInv
    PROVE  /\ HasTemplate <=> template.status \in There
           /\ template.merge => HasTemplate
<1>1. template.status \in {None, "deleted"} \cup There
  BY DEF TypedInv, StateTyped, TemplateRows
<1>2. template.status = None <=> template = NoTemplate
  BY DEF TypedInv, RowsWhole, NoTemplate
<1>3. template.status = "deleted" <=> template = Deleted
  BY DEF TypedInv, RowsWhole, NoTemplate, Deleted
<1>4. ~NoTemplate.merge /\ ~Deleted.merge
  BY DEF NoTemplate, Deleted
<1> QED  BY <1>1, <1>2, <1>3, <1>4 DEF HasTemplate, There, None
LEMMA ClaimsOfOthers ==
    ASSUME NEW x, NEW ports
    PROVE  ports \cap ClaimedPortsByTemplate(x) = {} => \A t \in Streams \ {x} : ports \cap stream[t].ports = {}
BY DEF ClaimedPortsByTemplate

\* A request begins with what it has checked.
LEMMA RequestsStart ==
    ASSUME TypedInv, NEW w \in Workers, Request(w)
    PROVE  \E l : Startable(l) /\ Begin(w, l)
<1>0. /\ template \in TemplateRows /\ domain \in [Domains -> DomainRows] /\ stream \in [Streams -> StreamRows]
      /\ route \in [Routes -> RouteRows]
      /\ NoTemplate \in TemplateRows /\ NoDomain \in DomainRows /\ NoStream \in StreamRows /\ NoRoute \in RouteRows
      /\ HasTemplate <=> template.status \in There
  BY EmptyRows, TemplateThere DEF TypedInv, StateTyped
<1>1. CASE \E ls \in ListenerSets, merge \in BOOLEAN : CreateTemplate(w, ls, merge)
  <2>1. PICK ls \in ListenerSets, merge \in BOOLEAN : CreateTemplate(w, ls, merge)
    BY <1>1
  <2> DEFINE l == [Idle EXCEPT !.op = "createTemplate", !.id = "template", !.at = "insertTemplate",
                    !.tpl = [status |-> "pending", merge |-> merge, ls |-> ls]]
  <2>2. l \in Locals
    BY <1>0, InputsAssumption DEF Locals, Idle, Ops, Labels, TemplateLabels, DomainLabels, StreamLabels, TemplateRows, Listeners, There
  <2>3. Startable(l)
    BY <2>1, <2>2, <1>0 DEF CreateTemplate, Startable, InPlace, Claiming, Idle, TemplateLabels, DomainLabels, StreamLabels, There
  <2> QED  BY <2>1, <2>3 DEF CreateTemplate
<1>2. CASE \E ls \in ListenerSets : UpdateTemplate(w, ls)
  <2>1. PICK ls \in ListenerSets : UpdateTemplate(w, ls)
    BY <1>2
  <2> DEFINE l == [Idle EXCEPT !.op = "updateTemplate", !.id = "template", !.at = "saveTemplate",
                    !.tpl = [template EXCEPT !.ls = ls]]
  <2>a. [template EXCEPT !.ls = ls] \in TemplateRows /\ [template EXCEPT !.ls = ls].merge = template.merge
          /\ [template EXCEPT !.ls = ls].ls = ls /\ [template EXCEPT !.ls = ls].status = template.status
    BY <1>0, InputsAssumption DEF TemplateRows
  <2>b. template.merge => ClaimedPortsByTemplate(None) \cap Tcp(HostPorts(ls)) = {}
    BY <2>1, <2>a DEF UpdateTemplate, CheckMergedTemplateSet, TemplateDomainDefaults
  <2>c. template.merge => \A s \in Streams : Clear(ls, stream[s].ports)
    BY <2>b, NamesAssumption DEF ClaimedPortsByTemplate, Clear, None
  <2>d. template.status \in There
    BY <2>1, <1>0 DEF UpdateTemplate
  <2>2. l \in Locals
    BY <1>0, <2>a, <2>b, <2>c, <2>d, InputsAssumption DEF Locals, Idle, Ops, Labels, TemplateLabels, DomainLabels, StreamLabels
  <2>3. Startable(l)
    BY <2>1, <2>2, <1>0, <2>a, <2>b, <2>c, <2>d DEF UpdateTemplate, Startable, InPlace, Claiming, Idle, TemplateLabels, DomainLabels, StreamLabels
  <2> QED  BY <2>1, <2>3 DEF UpdateTemplate
<1>3. CASE UpdateProxy(w)
  <2>1. UpdateProxy(w)
    BY <1>3
  <2> DEFINE l == [Idle EXCEPT !.op = "updateProxy", !.id = "template", !.at = "replaceProxy",
                    !.tpl = template]
  <2>a. template.status \in There
    BY <2>1, <1>0 DEF UpdateProxy
  <2>2. l \in Locals
    BY <1>0, <2>a, InputsAssumption DEF Locals, Idle, Ops, Labels, TemplateLabels, DomainLabels, StreamLabels
  <2>3. Startable(l)
    BY <2>1, <2>2, <1>0, <2>a DEF UpdateProxy, Startable, InPlace, Claiming, Idle, TemplateLabels, DomainLabels, StreamLabels
  <2> QED  BY <2>1, <2>3 DEF UpdateProxy
<1>4. CASE DeleteTemplate(w)
  <2>1. DeleteTemplate(w)
    BY <1>4
  <2> DEFINE l == [Idle EXCEPT !.op = "deleteTemplate", !.id = "template", !.at = "deleteClass",
                    !.tpl = template]
  <2>2. l \in Locals
    BY <1>0, InputsAssumption DEF Locals, Idle, Ops, Labels, TemplateLabels, DomainLabels, StreamLabels
  <2>3. Startable(l)
    BY <2>1, <2>2, <1>0 DEF DeleteTemplate, Startable, InPlace, Claiming, Idle, TemplateLabels, DomainLabels, StreamLabels
  <2> QED  BY <2>1, <2>3 DEF DeleteTemplate
<1>5. CASE \E d \in Domains, bound \in SUBSET Names : CreateDomain(w, d, bound)
  <2>1. PICK d \in Domains, bound \in SUBSET Names : CreateDomain(w, d, bound)
    BY <1>5
  <2> DEFINE l == [Idle EXCEPT !.op = "createDomain", !.id = d, !.at = "insertDomain",
                    !.tpl = template, !.dom = [status |-> "pending", bound |-> bound]]
  <2>2. l \in Locals
    BY <1>0, InputsAssumption DEF Locals, Idle, Ops, Labels, TemplateLabels, DomainLabels, StreamLabels, DomainRows, There
  <2>3. Startable(l)
    BY <2>1, <2>2, <1>0 DEF CreateDomain, Startable, InPlace, Claiming, Idle, TemplateLabels, DomainLabels, StreamLabels
  <2> QED  BY <2>1, <2>3 DEF CreateDomain
<1>6. CASE \E d \in Domains : UpdateDomain(w, d)
  <2>1. PICK d \in Domains : UpdateDomain(w, d)
    BY <1>6
  <2> DEFINE l == [Idle EXCEPT !.op = "updateDomain", !.id = d, !.at = "storeDomain",
                    !.dom = domain[d]]
  <2>2. l \in Locals
    BY <1>0, InputsAssumption DEF Locals, Idle, Ops, Labels, TemplateLabels, DomainLabels, StreamLabels
  <2>3. Startable(l)
    BY <2>1, <2>2, <1>0 DEF UpdateDomain, Startable, InPlace, Claiming, Idle, TemplateLabels, DomainLabels, StreamLabels
  <2> QED  BY <2>1, <2>3 DEF UpdateDomain
<1>7. CASE \E d \in Domains : DeleteDomain(w, d)
  <2>1. PICK d \in Domains : DeleteDomain(w, d)
    BY <1>7
  <2> DEFINE l == [Idle EXCEPT !.op = "deleteDomain", !.id = d, !.at = "deleteGateway"]
  <2>2. l \in Locals
    BY <1>0, InputsAssumption DEF Locals, Idle, Ops, Labels, TemplateLabels, DomainLabels, StreamLabels
  <2>3. Startable(l)
    BY <2>1, <2>2, <1>0 DEF DeleteDomain, Startable, InPlace, Claiming, Idle, TemplateLabels, DomainLabels, StreamLabels
  <2> QED  BY <2>1, <2>3 DEF DeleteDomain
<1>8. CASE \E s \in Streams, ports \in ClaimSets : CreateStream(w, s, ports)
  <2>1. PICK s \in Streams, ports \in ClaimSets : CreateStream(w, s, ports)
    BY <1>8
  <2> DEFINE l == [Idle EXCEPT !.op = "createStream", !.id = s, !.at = "insertStream",
                    !.str = [status |-> "pending", ports |-> ports]]
  <2>a. /\ ports # {} /\ stream[s] = NoStream /\ template # NoTemplate
        /\ template.merge => ports \cap ClaimedPortsByTemplate(s) = {} /\ Clear(template.ls, ports)
    BY <2>1 DEF CreateStream, ValidateStreamPorts, TemplateDomainDefaults, HasTemplate, Clear
  <2>b. template.merge => \A t \in Streams \ {s} : ports \cap stream[t].ports = {}
    BY <2>a, ClaimsOfOthers
  <2>2. l \in Locals
    BY <1>0, <2>a, <2>b, InputsAssumption DEF Locals, Idle, Ops, Labels, TemplateLabels, DomainLabels, StreamLabels, StreamRows, There
  <2>3. Startable(l)
    BY <2>1, <2>2, <1>0, <2>a, <2>b DEF CreateStream, Startable, InPlace, Claiming, Idle, TemplateLabels, DomainLabels, StreamLabels, There
  <2> QED  BY <2>1, <2>3 DEF CreateStream
<1>9. CASE \E s \in Streams, ports \in ClaimSets : UpdateStream(w, s, ports)
  <2>1. PICK s \in Streams, ports \in ClaimSets : UpdateStream(w, s, ports)
    BY <1>9
  <2> DEFINE l == [Idle EXCEPT !.op = "updateStream", !.id = s, !.at = "storeStream",
                    !.str = [stream[s] EXCEPT !.ports = ports]]
  <2>a. /\ ports # {} /\ stream[s] # NoStream /\ UsedPortsByStream(s, None) \subseteq ports
        /\ template.merge => ports \cap ClaimedPortsByTemplate(s) = {} /\ Clear(template.ls, ports)
    BY <2>1 DEF UpdateStream, ValidateStreamPorts, TemplateDomainDefaults, HasTemplate, Clear, CheckUsedClaimsKept
  <2>b. template.merge => \A t \in Streams \ {s} : ports \cap stream[t].ports = {}
    BY <2>a, ClaimsOfOthers
  <2>c. stream[s].status \in There /\ template # NoTemplate
    BY <2>a, <1>0 DEF TypedInv, RowsWhole, InUse, HasTemplate, StreamRows
  <2>d. [stream[s] EXCEPT !.ports = ports] \in StreamRows /\ [stream[s] EXCEPT !.ports = ports].ports = ports
          /\ [stream[s] EXCEPT !.ports = ports].status = stream[s].status
    BY <1>0, InputsAssumption DEF StreamRows
  <2>2. l \in Locals
    BY <1>0, <2>a, <2>b, <2>c, <2>d, InputsAssumption DEF Locals, Idle, Ops, Labels, TemplateLabels, DomainLabels, StreamLabels
  <2>3. Startable(l)
    BY <2>1, <2>2, <1>0, <2>a, <2>b, <2>c, <2>d DEF UpdateStream, Startable, InPlace, Claiming, Idle, TemplateLabels, DomainLabels, StreamLabels
  <2> QED  BY <2>1, <2>3 DEF UpdateStream
<1>10. CASE \E s \in Streams : RenameStream(w, s)
  <2>1. PICK s \in Streams : RenameStream(w, s)
    BY <1>10
  <2> DEFINE l == [Idle EXCEPT !.op = "renameStream", !.id = s, !.at = "storeStream", !.str = stream[s]]
  <2>a. stream[s].status \in There /\ template # NoTemplate /\ stream[s].ports # {}
    BY <2>1, <1>0 DEF RenameStream, TypedInv, RowsWhole, InUse, HasTemplate, StreamRows
  <2>2. l \in Locals
    BY <1>0, <2>a, InputsAssumption DEF Locals, Idle, Ops, Labels, TemplateLabels, DomainLabels, StreamLabels
  <2>3. Startable(l)
    BY <2>1, <2>2, <1>0, <2>a DEF RenameStream, Startable, InPlace, Claiming, Idle, TemplateLabels, DomainLabels, StreamLabels
  <2> QED  BY <2>1, <2>3 DEF RenameStream
<1>11. CASE \E s \in Streams : DeleteStream(w, s)
  <2>1. PICK s \in Streams : DeleteStream(w, s)
    BY <1>11
  <2> DEFINE l == [Idle EXCEPT !.op = "deleteStream", !.id = s, !.at = "deleteGateway"]
  <2>2. l \in Locals
    BY <1>0, InputsAssumption DEF Locals, Idle, Ops, Labels, TemplateLabels, DomainLabels, StreamLabels
  <2>3. Startable(l)
    BY <2>1, <2>2, <1>0 DEF DeleteStream, Startable, InPlace, Claiming, Idle, TemplateLabels, DomainLabels, StreamLabels
  <2> QED  BY <2>1, <2>3 DEF DeleteStream
<1>12. CASE \E r \in Routes, p \in Ports : CreateRoute(w, r, p)
  <2>1. PICK r \in Routes, p \in Ports : CreateRoute(w, r, p)
    BY <1>12
  <2> DEFINE l == [Idle EXCEPT !.op = "createRoute", !.id = r, !.at = "storeRoute",
                    !.rte = [NoRoute EXCEPT !.status = "pending_create", !.port = p, !.proposal = p]]
  <2>a. LET row == [NoRoute EXCEPT !.status = "pending_create", !.port = p, !.proposal = p] IN
           /\ row \in RouteRows /\ row.status = "pending_create" /\ row.port = p /\ row.proposal = p
    BY DEF NoRoute, RouteRows, RouteStatus
  <2>2. l \in Locals
    BY <1>0, <2>a, InputsAssumption DEF Locals, Idle, Ops, Labels, TemplateLabels, DomainLabels, StreamLabels
  <2>3. Startable(l)
    BY <2>1, <2>2, <1>0, <2>a DEF CreateRoute, Startable, InPlace, Claiming, Idle, TemplateLabels, DomainLabels, StreamLabels
  <2> QED  BY <2>1, <2>3 DEF CreateRoute
<1>13. CASE \E r \in Routes, p \in Ports : UpdateRoute(w, r, p)
  <2>1. PICK r \in Routes, p \in Ports : UpdateRoute(w, r, p)
    BY <1>13
  <2> DEFINE l == [Idle EXCEPT !.op = "updateRoute", !.id = r, !.at = "storeRoute",
                    !.rte = [route[r] EXCEPT !.status = "pending_update", !.proposal = p]]
  <2>a. LET row == [route[r] EXCEPT !.status = "pending_update", !.proposal = p] IN
           /\ row \in RouteRows /\ row.status = "pending_update" /\ row.proposal = p
    BY <1>0 DEF RouteRows, RouteStatus
  <2>2. l \in Locals
    BY <1>0, <2>a, InputsAssumption DEF Locals, Idle, Ops, Labels, TemplateLabels, DomainLabels, StreamLabels
  <2>3. Startable(l)
    BY <2>1, <2>2, <1>0, <2>a DEF UpdateRoute, Startable, InPlace, Claiming, Idle, TemplateLabels, DomainLabels, StreamLabels
  <2> QED  BY <2>1, <2>3 DEF UpdateRoute
<1> QED  BY <1>1, <1>2, <1>3, <1>4, <1>5, <1>6, <1>7, <1>8, <1>9, <1>10, <1>11, <1>12, <1>13 DEF Request

---------------------------------------------------------------------------
\* A worker returns, or goes on with its request at its next step.
Advances(w) ==
    /\ ~At(w, "idle") /\ loc[w] \in Locals /\ InPlace(loc[w])
    /\ loc' \in [Workers -> Locals] /\ InPlace(loc'[w])
    /\ \A v \in Workers \ {w} : loc'[v] = loc[v]
    /\ \/ loc'[w] = Idle
       \/ /\ loc'[w].at # "idle" /\ loc'[w].id = loc[w].id /\ loc'[w].op = loc[w].op /\ loc'[w].rte = loc[w].rte
          /\ loc'[w].tpl.ls = loc[w].tpl.ls /\ loc'[w].tpl.merge = loc[w].tpl.merge
          /\ loc'[w].str.ports = loc[w].str.ports

\* The label at which each step is taken, by the label it leads to.
Follows(a, b) ==
    /\ b \notin {"insertTemplate", "replaceProxy", "deleteClass", "insertDomain", "storeDomain", "deleteGateway",
                 "insertStream", "storeStream", "storeRoute"}
    /\ b = "createProxy" => a = "insertTemplate"
    /\ b = "createClass" => a = "createProxy"
    /\ b = "saveTemplate" => a \in {"createProxy", "createClass", "replaceProxy"}
    /\ b = "deleteTemplate" => a = "deleteClass"
    /\ b = "createGateway" => a = "insertDomain"
    /\ b = "applyGateway" => a = "storeDomain"
    /\ b = "saveDomain" => a \in {"createGateway", "applyGateway"}
    /\ b = "deleteRow" => a = "deleteGateway"
    /\ b = "applyStream" => a \in {"insertStream", "storeStream"}
    /\ b = "streamStatus" => a = "applyStream"

LEMMA Returning ==
    ASSUME TypedInv, NEW w \in Workers, ~At(w, "idle"), Return(w)
    PROVE  Advances(w) /\ loc'[w] = Idle /\ Follows(loc[w].at, loc'[w].at)
<1>1. Advances(w) /\ loc'[w] = Idle
  BY EmptyRows DEF TypedInv, StateTyped, Return, Advances
<1> QED  BY <1>1 DEF Idle, Follows

\* A worker goes on: its label and the status of the row it holds may change.
LEMMA GoingOn ==
    ASSUME TypedInv, NEW w \in Workers, ~At(w, "idle"), NEW m \in Locals, InPlace(m),
           m.at # "idle", Follows(loc[w].at, m.at), m.id = loc[w].id, m.op = loc[w].op, m.rte = loc[w].rte,
           m.tpl.ls = loc[w].tpl.ls, m.tpl.merge = loc[w].tpl.merge, m.str.ports = loc[w].str.ports,
           loc' = [loc EXCEPT ![w] = m]
    PROVE  Advances(w) /\ Follows(loc[w].at, loc'[w].at) /\ loc'[w] = m
<1>1. loc \in [Workers -> Locals] /\ InPlace(loc[w])
  BY DEF TypedInv, StateTyped
<1>2. loc'[w] = m /\ loc' \in [Workers -> Locals] /\ \A v \in Workers \ {w} : loc'[v] = loc[v]
  BY <1>1
<1> QED  BY <1>1, <1>2 DEF Advances
LEMMA Relabelling ==
    ASSUME TypedInv, NEW w \in Workers, ~At(w, "idle"), NEW a \in Labels \ {"idle"}, Follows(loc[w].at, a),
           InPlace([loc[w] EXCEPT !.at = a]), Goto(w, a)
    PROVE  /\ Advances(w) /\ Follows(loc[w].at, loc'[w].at)
           /\ loc'[w].at = a /\ loc'[w].tpl = loc[w].tpl /\ loc'[w].str = loc[w].str
<1> DEFINE m == [loc[w] EXCEPT !.at = a]
<1>1. loc \in [Workers -> Locals]
  BY DEF TypedInv, StateTyped
<1>2. /\ m \in Locals /\ m.at = a /\ m.id = loc[w].id /\ m.op = loc[w].op /\ m.rte = loc[w].rte
      /\ m.tpl = loc[w].tpl /\ m.str = loc[w].str
  BY <1>1 DEF Locals
<1>3. loc' = [loc EXCEPT ![w] = m] /\ InPlace(m)
  BY DEF Goto
<1> HIDE DEF m
<1>4. m.at # "idle" /\ Follows(loc[w].at, m.at)
  BY <1>2
<1>5. Advances(w) /\ Follows(loc[w].at, loc'[w].at) /\ loc'[w] = m
  BY <1>2, <1>3, <1>4, GoingOn
<1> QED  BY <1>2, <1>5

\* The three ways in which a step records the outcome in the row it holds.
LEMMA TemplateResult ==
    ASSUME TypedInv, NEW w \in Workers, NEW x \in There, loc[w].at \in {"createProxy", "createClass"},
           loc' = [loc EXCEPT ![w].tpl.status = x, ![w].at = "saveTemplate"]
    PROVE  Advances(w) /\ Follows(loc[w].at, loc'[w].at) /\ loc'[w].at = "saveTemplate"
<1>0. /\ loc \in [Workers -> Locals] /\ loc[w] \in Locals /\ InPlace(loc[w])
      /\ loc[w].tpl \in TemplateRows /\ loc[w].dom \in DomainRows /\ loc[w].str \in StreamRows
  BY DEF TypedInv, StateTyped, Locals
<1> DEFINE t == [loc[w].tpl EXCEPT !.status = x]
           m == [loc[w] EXCEPT !.at = "saveTemplate", !.tpl = t]
<1>1. t \in TemplateRows /\ t.status = x /\ t.ls = loc[w].tpl.ls /\ t.merge = loc[w].tpl.merge
  BY <1>0 DEF TemplateRows
<1>2. loc' = [loc EXCEPT ![w] = m]
  BY <1>0 DEF Locals
<1>3. InPlace(m)
  BY <1>0, <1>1 DEF InPlace, Locals, TemplateLabels, DomainLabels, StreamLabels
<1>4. Follows(loc[w].at, "saveTemplate") /\ ~At(w, "idle")
  BY DEF Follows, At
<1>5. /\ m \in Locals /\ m.at = "saveTemplate" /\ m.id = loc[w].id /\ m.op = loc[w].op /\ m.rte = loc[w].rte
      /\ m.tpl = t /\ m.str = loc[w].str
  BY <1>0, <1>1 DEF Locals, Labels, TemplateLabels, DomainLabels, StreamLabels
<1> HIDE DEF m, t
<1>6. m.tpl.ls = loc[w].tpl.ls /\ m.tpl.merge = loc[w].tpl.merge /\ m.str.ports = loc[w].str.ports
  BY <1>1, <1>5
<1>7. m.at # "idle" /\ Follows(loc[w].at, m.at)
  BY <1>4, <1>5
<1>8. Advances(w) /\ Follows(loc[w].at, loc'[w].at) /\ loc'[w] = m
  BY <1>2, <1>3, <1>4, <1>5, <1>6, <1>7, GoingOn
<1> QED  BY <1>1, <1>5, <1>8
LEMMA DomainResult ==
    ASSUME TypedInv, NEW w \in Workers, NEW x \in There, loc[w].at \in {"createGateway", "applyGateway"}, Settle(w, x)
    PROVE  Advances(w) /\ Follows(loc[w].at, loc'[w].at) /\ loc'[w].at = "saveDomain"
<1>0. /\ loc \in [Workers -> Locals] /\ loc[w] \in Locals /\ InPlace(loc[w])
      /\ loc[w].tpl \in TemplateRows /\ loc[w].dom \in DomainRows /\ loc[w].str \in StreamRows
  BY DEF TypedInv, StateTyped, Locals
<1> DEFINE d == [loc[w].dom EXCEPT !.status = x]
           m == [loc[w] EXCEPT !.at = "saveDomain", !.dom = d]
<1>1. d \in DomainRows
  BY <1>0 DEF DomainRows
<1>2. loc' = [loc EXCEPT ![w] = m]
  BY <1>0 DEF Locals, Settle
<1>3. InPlace(m)
  BY <1>0, <1>1 DEF InPlace, Locals, TemplateLabels, DomainLabels, StreamLabels
<1>4. Follows(loc[w].at, "saveDomain") /\ ~At(w, "idle")
  BY DEF Follows, At
<1>5. /\ m \in Locals /\ m.at = "saveDomain" /\ m.id = loc[w].id /\ m.op = loc[w].op /\ m.rte = loc[w].rte
      /\ m.dom = d /\ m.tpl = loc[w].tpl /\ m.str = loc[w].str
  BY <1>0, <1>1 DEF Locals, Labels, TemplateLabels, DomainLabels, StreamLabels
<1> HIDE DEF m, d
<1>6. m.tpl.ls = loc[w].tpl.ls /\ m.tpl.merge = loc[w].tpl.merge /\ m.str.ports = loc[w].str.ports
  BY <1>1, <1>5
<1>7. m.at # "idle" /\ Follows(loc[w].at, m.at)
  BY <1>4, <1>5
<1>8. Advances(w) /\ Follows(loc[w].at, loc'[w].at) /\ loc'[w] = m
  BY <1>2, <1>3, <1>4, <1>5, <1>6, <1>7, GoingOn
<1> QED  BY <1>1, <1>5, <1>8
LEMMA StreamResult ==
    ASSUME TypedInv, NEW w \in Workers, NEW x \in There, loc[w].at = "applyStream",
           loc' = [loc EXCEPT ![w].str.status = x, ![w].at = "streamStatus"]
    PROVE  Advances(w) /\ Follows(loc[w].at, loc'[w].at) /\ loc'[w].at = "streamStatus" /\ loc'[w].str.status = x
<1>0. /\ loc \in [Workers -> Locals] /\ loc[w] \in Locals /\ InPlace(loc[w])
      /\ loc[w].tpl \in TemplateRows /\ loc[w].dom \in DomainRows /\ loc[w].str \in StreamRows
  BY DEF TypedInv, StateTyped, Locals
<1> DEFINE s == [loc[w].str EXCEPT !.status = x]
           m == [loc[w] EXCEPT !.at = "streamStatus", !.str = s]
<1>1. s \in StreamRows /\ s.status = x /\ s.ports = loc[w].str.ports
  BY <1>0 DEF StreamRows
<1>2. loc' = [loc EXCEPT ![w] = m]
  BY <1>0 DEF Locals
<1>3. InPlace(m)
  BY <1>0, <1>1 DEF InPlace, Locals, TemplateLabels, DomainLabels, StreamLabels
<1>4. Follows(loc[w].at, "streamStatus") /\ ~At(w, "idle")
  BY DEF Follows, At
<1>5. /\ m \in Locals /\ m.at = "streamStatus" /\ m.id = loc[w].id /\ m.op = loc[w].op /\ m.rte = loc[w].rte
      /\ m.str = s /\ m.tpl = loc[w].tpl
  BY <1>0, <1>1 DEF Locals, Labels, TemplateLabels, DomainLabels, StreamLabels
<1> HIDE DEF m, s
<1>6. m.tpl.ls = loc[w].tpl.ls /\ m.tpl.merge = loc[w].tpl.merge /\ m.str.ports = loc[w].str.ports
  BY <1>1, <1>5
<1>7. m.at # "idle" /\ Follows(loc[w].at, m.at)
  BY <1>4, <1>5
<1>8. Advances(w) /\ Follows(loc[w].at, loc'[w].at) /\ loc'[w] = m
  BY <1>2, <1>3, <1>4, <1>5, <1>6, <1>7, GoingOn
<1> QED  BY <1>1, <1>5, <1>8

\* The steps that a worker takes once it has taken up a request.
Step(w) ==
    \/ InsertTemplate(w) \/ CreateEnvoyProxy(w) \/ CreateGatewayClass(w) \/ TemplateCallFails(w) \/ SaveTemplate(w)
    \/ ReplaceProxy(w) \/ DeleteClass(w) \/ DeleteTemplateRow(w)
    \/ InsertDomain(w) \/ CreateGateway(w) \/ StoreDomain(w) \/ ApplyGateway(w) \/ GatewayCallFails(w)
    \/ SaveDomain(w) \/ DeleteGateway(w) \/ DeleteRow(w)
    \/ InsertStream(w) \/ StoreStream(w) \/ ApplyStream(w) \/ StreamStatus(w) \/ StoreRoute(w)

LEMMA ResolvedListeners ==
    ASSUME NEW ls \in Listeners, NEW bound \in SUBSET Names
    PROVE  ResolveHostnameListeners(ls, bound) \subseteq Claims
BY DEF ResolveHostnameListeners, BoundListenerPorts, HostPorts, Tcp, Claims, Listeners

\* Every step leads a worker to its next label, or ends the request.
LEMMA StepsAdvance ==
    ASSUME TypedInv, NEW w \in Workers, Step(w)
    PROVE  Advances(w) /\ Follows(loc[w].at, loc'[w].at)
<1>0. loc[w] \in Locals /\ InPlace(loc[w])
  BY DEF TypedInv, StateTyped
<1>1. CASE InsertTemplate(w)
  <2>1. ~At(w, "idle") /\ (Return(w) \/ Goto(w, "createProxy"))
    BY <1>1 DEF InsertTemplate, At
  <2>2. InPlace([loc[w] EXCEPT !.at = "createProxy"]) /\ Follows(loc[w].at, "createProxy")
    BY <1>0, <1>1 DEF InsertTemplate, At, InPlace, Locals, Follows, TemplateLabels, DomainLabels, StreamLabels
  <2>3. "createProxy" \in Labels \ {"idle"}
    BY DEF Labels, TemplateLabels, DomainLabels, StreamLabels
  <2> QED  BY <2>1, <2>2, <2>3, Returning, Relabelling
<1>2. CASE CreateEnvoyProxy(w)
  <2>1. ~At(w, "idle") /\ (Return(w) \/ Goto(w, "createClass"))
    BY <1>2 DEF CreateEnvoyProxy, At
  <2>2. InPlace([loc[w] EXCEPT !.at = "createClass"]) /\ Follows(loc[w].at, "createClass")
    BY <1>0, <1>2 DEF CreateEnvoyProxy, At, InPlace, Locals, Follows, TemplateLabels, DomainLabels, StreamLabels
  <2>3. "createClass" \in Labels \ {"idle"}
    BY DEF Labels, TemplateLabels, DomainLabels, StreamLabels
  <2> QED  BY <2>1, <2>2, <2>3, Returning, Relabelling
<1>3. CASE ReplaceProxy(w)
  <2>1. ~At(w, "idle") /\ (Return(w) \/ Goto(w, "saveTemplate"))
    BY <1>3 DEF ReplaceProxy, At
  <2>2. InPlace([loc[w] EXCEPT !.at = "saveTemplate"]) /\ Follows(loc[w].at, "saveTemplate")
    BY <1>0, <1>3 DEF ReplaceProxy, At, InPlace, Locals, Follows, TemplateLabels, DomainLabels, StreamLabels
  <2>3. "saveTemplate" \in Labels \ {"idle"}
    BY DEF Labels, TemplateLabels, DomainLabels, StreamLabels
  <2> QED  BY <2>1, <2>2, <2>3, Returning, Relabelling
<1>4. CASE DeleteClass(w)
  <2>1. ~At(w, "idle") /\ (Return(w) \/ Goto(w, "deleteTemplate"))
    BY <1>4 DEF DeleteClass, At
  <2>2. InPlace([loc[w] EXCEPT !.at = "deleteTemplate"]) /\ Follows(loc[w].at, "deleteTemplate")
    BY <1>0, <1>4 DEF DeleteClass, At, InPlace, Locals, Follows, TemplateLabels, DomainLabels, StreamLabels
  <2>3. "deleteTemplate" \in Labels \ {"idle"}
    BY DEF Labels, TemplateLabels, DomainLabels, StreamLabels
  <2> QED  BY <2>1, <2>2, <2>3, Returning, Relabelling
<1>5. CASE InsertDomain(w)
  <2>1. ~At(w, "idle") /\ (Return(w) \/ Goto(w, "createGateway"))
    BY <1>5 DEF InsertDomain, At
  <2>2. InPlace([loc[w] EXCEPT !.at = "createGateway"]) /\ Follows(loc[w].at, "createGateway")
    BY <1>0, <1>5 DEF InsertDomain, At, InPlace, Locals, Follows, TemplateLabels, DomainLabels, StreamLabels
  <2>3. "createGateway" \in Labels \ {"idle"}
    BY DEF Labels, TemplateLabels, DomainLabels, StreamLabels
  <2> QED  BY <2>1, <2>2, <2>3, Returning, Relabelling
<1>6. CASE StoreDomain(w)
  <2>1. ~At(w, "idle") /\ (Return(w) \/ Goto(w, "applyGateway"))
    BY <1>6 DEF StoreDomain, At
  <2>2. InPlace([loc[w] EXCEPT !.at = "applyGateway"]) /\ Follows(loc[w].at, "applyGateway")
    BY <1>0, <1>6 DEF StoreDomain, At, InPlace, Locals, Follows, TemplateLabels, DomainLabels, StreamLabels
  <2>3. "applyGateway" \in Labels \ {"idle"}
    BY DEF Labels, TemplateLabels, DomainLabels, StreamLabels
  <2> QED  BY <2>1, <2>2, <2>3, Returning, Relabelling
<1>7. CASE DeleteGateway(w)
  <2>1. ~At(w, "idle") /\ (Return(w) \/ Goto(w, "deleteRow"))
    BY <1>7 DEF DeleteGateway, At
  <2>2. InPlace([loc[w] EXCEPT !.at = "deleteRow"]) /\ Follows(loc[w].at, "deleteRow")
    BY <1>0, <1>7 DEF DeleteGateway, At, InPlace, Locals, Follows, TemplateLabels, DomainLabels, StreamLabels
  <2>3. "deleteRow" \in Labels \ {"idle"}
    BY DEF Labels, TemplateLabels, DomainLabels, StreamLabels
  <2> QED  BY <2>1, <2>2, <2>3, Returning, Relabelling
<1>8. CASE InsertStream(w)
  <2>1. ~At(w, "idle") /\ (Return(w) \/ Goto(w, "applyStream"))
    BY <1>8 DEF InsertStream, At
  <2>2. InPlace([loc[w] EXCEPT !.at = "applyStream"]) /\ Follows(loc[w].at, "applyStream")
    BY <1>0, <1>8 DEF InsertStream, At, InPlace, Locals, Follows, TemplateLabels, DomainLabels, StreamLabels
  <2>3. "applyStream" \in Labels \ {"idle"}
    BY DEF Labels, TemplateLabels, DomainLabels, StreamLabels
  <2> QED  BY <2>1, <2>2, <2>3, Returning, Relabelling
<1>9. CASE StoreStream(w)
  <2>1. ~At(w, "idle") /\ (Return(w) \/ Goto(w, "applyStream"))
    BY <1>9 DEF StoreStream, At
  <2>2. InPlace([loc[w] EXCEPT !.at = "applyStream"]) /\ Follows(loc[w].at, "applyStream")
    BY <1>0, <1>9 DEF StoreStream, At, InPlace, Locals, Follows, TemplateLabels, DomainLabels, StreamLabels
  <2>3. "applyStream" \in Labels \ {"idle"}
    BY DEF Labels, TemplateLabels, DomainLabels, StreamLabels
  <2> QED  BY <2>1, <2>2, <2>3, Returning, Relabelling
<1>10. CASE SaveTemplate(w)
  <2>1. ~At(w, "idle") /\ Return(w)
    BY <1>10 DEF SaveTemplate, At
  <2> QED  BY <2>1, Returning
<1>11. CASE DeleteTemplateRow(w)
  <2>1. ~At(w, "idle") /\ Return(w)
    BY <1>11 DEF DeleteTemplateRow, At
  <2> QED  BY <2>1, Returning
<1>12. CASE SaveDomain(w)
  <2>1. ~At(w, "idle") /\ Return(w)
    BY <1>12 DEF SaveDomain, At
  <2> QED  BY <2>1, Returning
<1>13. CASE DeleteRow(w)
  <2>1. ~At(w, "idle") /\ Return(w)
    BY <1>13 DEF DeleteRow, At
  <2> QED  BY <2>1, Returning
<1>14. CASE StreamStatus(w)
  <2>1. ~At(w, "idle") /\ Return(w)
    BY <1>14 DEF StreamStatus, At
  <2> QED  BY <2>1, Returning
<1>15. CASE StoreRoute(w)
  <2>1. ~At(w, "idle") /\ Return(w)
    BY <1>15 DEF StoreRoute, At
  <2> QED  BY <2>1, Returning
<1>16. CASE CreateGatewayClass(w)
  BY <1>16, TemplateResult DEF CreateGatewayClass, At, There
<1>17. CASE TemplateCallFails(w)
  BY <1>17, TemplateResult DEF TemplateCallFails, At, There
<1>18. CASE CreateGateway(w)
  BY <1>18, DomainResult DEF CreateGateway, At, There
<1>19. CASE ApplyGateway(w)
  BY <1>19, DomainResult DEF ApplyGateway, At, There
<1>20. CASE GatewayCallFails(w)
  BY <1>20, DomainResult DEF GatewayCallFails, At, There
<1>21. CASE ApplyStream(w)
  BY <1>21, StreamResult DEF ApplyStream, At, There
<1> QED  BY <1>1, <1>2, <1>3, <1>4, <1>5, <1>6, <1>7, <1>8, <1>9, <1>10, <1>11, <1>12, <1>13, <1>14, <1>15, <1>16, <1>17, <1>18, <1>19, <1>20, <1>21 DEF Step

LEMMA StepsTyped ==
    ASSUME TypedInv, NEW w \in Workers, Step(w)
    PROVE  StateTyped'
<1>0. /\ loc[w] \in Locals /\ InPlace(loc[w]) /\ loc' \in [Workers -> Locals]
      /\ loc[w].tpl \in TemplateRows /\ loc[w].dom \in DomainRows /\ loc[w].str \in StreamRows /\ loc[w].rte \in RouteRows
  BY StepsAdvance DEF TypedInv, StateTyped, Advances, Locals
<1>1. /\ template \in TemplateRows /\ domain \in [Domains -> DomainRows] /\ stream \in [Streams -> StreamRows]
      /\ route \in [Routes -> RouteRows] /\ live \in [Domains \cup Streams -> SUBSET Claims]
  BY DEF TypedInv, StateTyped
<1>2. Deleted \in TemplateRows /\ NoDomain \in DomainRows /\ NoStream \in StreamRows /\ NoRoute \in RouteRows
  BY EmptyRows
<1>3. template' \in TemplateRows
  BY <1>0, <1>1, <1>2 DEF Step, InsertTemplate, CreateEnvoyProxy, CreateGatewayClass, TemplateCallFails, SaveTemplate, ReplaceProxy,
        DeleteClass, DeleteTemplateRow, InsertDomain, CreateGateway, StoreDomain, ApplyGateway, GatewayCallFails, SaveDomain,
        DeleteGateway, DeleteRow, InsertStream, StoreStream, ApplyStream, StreamStatus, StoreRoute, rows, cluster
<1>4. domain' \in [Domains -> DomainRows]
  BY <1>0, <1>1, <1>2 DEF Step, InsertTemplate, CreateEnvoyProxy, CreateGatewayClass, TemplateCallFails, SaveTemplate, ReplaceProxy,
        DeleteClass, DeleteTemplateRow, InsertDomain, CreateGateway, StoreDomain, ApplyGateway, GatewayCallFails, SaveDomain,
        DeleteGateway, DeleteRow, InsertStream, StoreStream, ApplyStream, StreamStatus, StoreRoute, rows, cluster, StoredDomain
<1>5. stream' \in [Streams -> StreamRows]
  <2>1. CASE StreamStatus(w)
    <3>1. [stream[loc[w].id] EXCEPT !.status = loc[w].str.status] \in StreamRows
      BY <1>0, <1>1, <2>1 DEF StreamStatus, At, InPlace, StreamLabels, StreamRows
    <3> QED  BY <1>1, <2>1, <3>1 DEF StreamStatus
  <2> QED
    BY <2>1, <1>0, <1>1, <1>2 DEF Step, InsertTemplate, CreateEnvoyProxy, CreateGatewayClass, TemplateCallFails, SaveTemplate, ReplaceProxy,
        DeleteClass, DeleteTemplateRow, InsertDomain, CreateGateway, StoreDomain, ApplyGateway, GatewayCallFails, SaveDomain,
        DeleteGateway, DeleteRow, InsertStream, StoreStream, ApplyStream, StoreRoute, rows, cluster
<1>6. route' \in [Routes -> RouteRows]
  <2>1. CASE StoreRoute(w)
    <3>1. [loc[w].rte EXCEPT !.deployed = route[loc[w].id].deployed] \in RouteRows
      BY <1>0, <1>1, <2>1 DEF StoreRoute, At, InPlace, RouteRows
    <3> QED  BY <1>1, <2>1, <3>1 DEF StoreRoute
  <2>2. CASE DeleteRow(w)
    BY <2>2, <1>1, <1>2 DEF DeleteRow
  <2> QED
    BY <2>1, <2>2, <1>1 DEF Step, InsertTemplate, CreateEnvoyProxy, CreateGatewayClass, TemplateCallFails, SaveTemplate, ReplaceProxy,
        DeleteClass, DeleteTemplateRow, InsertDomain, CreateGateway, StoreDomain, ApplyGateway, GatewayCallFails, SaveDomain,
        DeleteGateway, InsertStream, StoreStream, ApplyStream, StreamStatus, rows, cluster
<1>7. live' \in [Domains \cup Streams -> SUBSET Claims]
  <2>1. CASE CreateGateway(w)
    BY <2>1, <1>0, <1>1, ResolvedListeners DEF CreateGateway, TemplateRows, DomainRows
  <2>2. CASE ApplyGateway(w)
    BY <2>2, <1>0, <1>1, ResolvedListeners DEF ApplyGateway, TemplateRows, DomainRows
  <2>3. CASE ApplyStream(w)
    BY <2>3, <1>0, <1>1 DEF ApplyStream, StreamRows
  <2> QED
    BY <2>1, <2>2, <2>3, <1>1 DEF Step, InsertTemplate, CreateEnvoyProxy, CreateGatewayClass, TemplateCallFails, SaveTemplate, ReplaceProxy,
        DeleteClass, DeleteTemplateRow, InsertDomain, StoreDomain, GatewayCallFails, SaveDomain,
        DeleteGateway, DeleteRow, InsertStream, StoreStream, StreamStatus, StoreRoute, rows, cluster
<1> QED  BY <1>0, <1>3, <1>4, <1>5, <1>6, <1>7 DEF StateTyped

---------------------------------------------------------------------------
\* Which steps write what.
LEMMA StepsWrite ==
    ASSUME TypedInv, NEW w \in Workers, Step(w)
    PROVE  /\ reconcile' = reconcile
           /\ blurred' = blurred \/ blurred' = blurred \cup {loc[w].id}
           /\ template' = template \/ InsertTemplate(w) \/ SaveTemplate(w) \/ DeleteTemplateRow(w)
           /\ domain' = domain \/ InsertDomain(w) \/ StoreDomain(w) \/ SaveDomain(w) \/ DeleteRow(w)
           /\ stream' = stream \/ InsertStream(w) \/ StoreStream(w) \/ StreamStatus(w) \/ DeleteRow(w)
           /\ route' = route \/ StoreRoute(w) \/ DeleteRow(w)
           /\ (\A s \in Streams : live'[s] = live[s]) \/ ApplyStream(w) \/ DeleteGateway(w)
<1>1. reconcile' = reconcile
  BY DEF Step, InsertTemplate, CreateEnvoyProxy, CreateGatewayClass, TemplateCallFails, SaveTemplate,
        ReplaceProxy, DeleteClass, DeleteTemplateRow, InsertDomain, CreateGateway, StoreDomain, ApplyGateway,
        GatewayCallFails, SaveDomain, DeleteGateway, DeleteRow, InsertStream, StoreStream, ApplyStream,
        StreamStatus, StoreRoute
<1>2. blurred' = blurred \/ blurred' = blurred \cup {loc[w].id}
  BY DEF Step, InsertTemplate, CreateEnvoyProxy, CreateGatewayClass, TemplateCallFails, SaveTemplate,
        ReplaceProxy, DeleteClass, DeleteTemplateRow, InsertDomain, CreateGateway, StoreDomain, ApplyGateway,
        GatewayCallFails, SaveDomain, DeleteGateway, DeleteRow, InsertStream, StoreStream, ApplyStream,
        StreamStatus, StoreRoute, Blur
<1>3. template' = template \/ InsertTemplate(w) \/ SaveTemplate(w) \/ DeleteTemplateRow(w)
  BY DEF Step, CreateEnvoyProxy, CreateGatewayClass, TemplateCallFails, ReplaceProxy, DeleteClass, InsertDomain,
        CreateGateway, StoreDomain, ApplyGateway, GatewayCallFails, SaveDomain, DeleteGateway, DeleteRow,
        InsertStream, StoreStream, ApplyStream, StreamStatus, StoreRoute, rows
<1>4. domain' = domain \/ InsertDomain(w) \/ StoreDomain(w) \/ SaveDomain(w) \/ DeleteRow(w)
  BY DEF Step, InsertTemplate, CreateEnvoyProxy, CreateGatewayClass, TemplateCallFails, SaveTemplate,
        ReplaceProxy, DeleteClass, DeleteTemplateRow, CreateGateway, ApplyGateway, GatewayCallFails,
        DeleteGateway, InsertStream, StoreStream, ApplyStream, StreamStatus, StoreRoute, rows
<1>5. stream' = stream \/ InsertStream(w) \/ StoreStream(w) \/ StreamStatus(w) \/ DeleteRow(w)
  BY DEF Step, InsertTemplate, CreateEnvoyProxy, CreateGatewayClass, TemplateCallFails, SaveTemplate,
        ReplaceProxy, DeleteClass, DeleteTemplateRow, InsertDomain, CreateGateway, StoreDomain, ApplyGateway,
        GatewayCallFails, SaveDomain, DeleteGateway, ApplyStream, StoreRoute, rows
<1>6. route' = route \/ StoreRoute(w) \/ DeleteRow(w)
  BY DEF Step, InsertTemplate, CreateEnvoyProxy, CreateGatewayClass, TemplateCallFails, SaveTemplate,
        ReplaceProxy, DeleteClass, DeleteTemplateRow, InsertDomain, CreateGateway, StoreDomain, ApplyGateway,
        GatewayCallFails, SaveDomain, DeleteGateway, InsertStream, StoreStream, ApplyStream, StreamStatus, rows
<1>7. (\A s \in Streams : live'[s] = live[s]) \/ ApplyStream(w) \/ DeleteGateway(w)
  <2>1. CASE CreateGateway(w) \/ ApplyGateway(w)
    <3>1. loc[w].id \in Domains /\ live \in [Domains \cup Streams -> SUBSET Claims]
      BY <2>1 DEF CreateGateway, ApplyGateway, At, TypedInv, StateTyped, InPlace, DomainLabels
    <3> QED  BY <2>1, <3>1, NamesAssumption DEF CreateGateway, ApplyGateway
  <2> QED
    BY <2>1 DEF Step, InsertTemplate, CreateEnvoyProxy, CreateGatewayClass, TemplateCallFails, SaveTemplate,
        ReplaceProxy, DeleteClass, DeleteTemplateRow, InsertDomain, StoreDomain, GatewayCallFails, SaveDomain,
        DeleteRow, InsertStream, StoreStream, StreamStatus, StoreRoute, cluster
<1> QED  BY <1>1, <1>2, <1>3, <1>4, <1>5, <1>6, <1>7

\* A worker takes up a request, or a stream that the reconciliation applies.
Reconciling(l) ==
    l \in Locals /\ InPlace(l) /\ l.at = "applyStream" /\ l.op = "reconcile" /\ l.str = stream[l.id]
Takes(w, l) ==
    /\ At(w, "idle") /\ loc' = [loc EXCEPT ![w] = l]
    /\ \/ Startable(l) /\ reconcile' = reconcile
       \/ Reconciling(l) /\ reconcile' = reconcile \ {l.id}
    /\ blurred \subseteq blurred'
    /\ (\E v \in Workers : ~At(v, "idle") /\ loc[v].id = l.id) => l.id \in blurred'
    /\ l.op \in PortOps /\ (\E v \in Workers : loc[v].op \in PortOps) => "ports" \in blurred'
    /\ UNCHANGED <<rows, live>>
\* The reconciliation finds that the stream is gone.
Passes(s) == /\ s \in reconcile /\ reconcile' = reconcile \ {s} /\ stream[s] = NoStream
             /\ blurred \subseteq blurred' /\ UNCHANGED <<rows, live, loc>>
RouteAction(r) == ApproveRoute(r) \/ RefuseRoute(r) \/ DeployRoute(r) \/ RemoveRoute(r)

LEMMA IdleWorkers ==
    ASSUME TypedInv, NEW v \in Workers
    PROVE  At(v, "idle") <=> loc[v] = Idle
BY DEF TypedInv, InPlace, At, Idle

LEMMA Reconciles ==
    ASSUME TypedInv, NEW w \in Workers, NEW s \in Streams, ReconcileGateways(w, s)
    PROVE  Passes(s) \/ \E l : Takes(w, l)
<1>0. loc \in [Workers -> Locals] /\ loc[w] = Idle /\ stream \in [Streams -> StreamRows]
  BY IdleWorkers DEF ReconcileGateways, TypedInv, StateTyped
<1>1. CASE stream[s] = NoStream
  BY <1>0, <1>1 DEF ReconcileGateways, Passes, rows, cluster
<1>2. CASE stream[s] # NoStream
  <2> DEFINE l == [Idle EXCEPT !.op = "reconcile", !.id = s, !.at = "applyStream", !.str = stream[s]]
  <2>1. stream[s].status \in There /\ stream[s].ports # {}
    BY <1>0, <1>2 DEF TypedInv, RowsWhole, StreamRows
  <2>2. l \in Locals /\ l.id = s /\ l.op = "reconcile" /\ l.at = "applyStream" /\ l.str = stream[s]
    BY <1>0, EmptyRows DEF Idle, Locals, Ops, Labels, TemplateLabels, DomainLabels, StreamLabels
  <2>3. InPlace(l)
    BY <2>1, <2>2 DEF InPlace, TemplateLabels, DomainLabels, StreamLabels
  <2>4. loc' = [loc EXCEPT ![w] = l] /\ reconcile' = reconcile \ {s}
    BY <1>2 DEF ReconcileGateways
  <2> HIDE DEF l
  <2>5. (\E v \in Workers : ~At(v, "idle") /\ loc[v].id = s) => s \in blurred'
    BY IdleWorkers DEF ReconcileGateways, Busy
  <2>6. blurred \subseteq blurred' /\ At(w, "idle") /\ UNCHANGED <<rows, live>>
    BY DEF ReconcileGateways, cluster
  <2>7. l.op \notin PortOps
    BY <2>2 DEF PortOps
  <2>8. Reconciling(l)
    BY <2>2, <2>3 DEF Reconciling
  <2> QED  BY <2>2, <2>4, <2>5, <2>6, <2>7, <2>8 DEF Takes
<1> QED  BY <1>1, <1>2

LEMMA Begins ==
    ASSUME TypedInv, NEW w \in Workers, NEW l, Startable(l), Begin(w, l)
    PROVE  Takes(w, l)
<1>1. (\E v \in Workers : ~At(v, "idle") /\ loc[v].id = l.id) => l.id \in blurred'
  BY IdleWorkers DEF Begin, Busy
<1>2. /\ blurred \subseteq blurred' /\ At(w, "idle") /\ UNCHANGED <<rows, live>> /\ reconcile' = reconcile
      /\ loc' = [loc EXCEPT ![w] = l]
      /\ l.op \in PortOps /\ (\E v \in Workers : loc[v].op \in PortOps) => "ports" \in blurred'
  BY DEF Begin, cluster
<1> QED  BY <1>1, <1>2 DEF Takes

\* What can happen next.
LEMMA NextCases ==
    ASSUME TypedInv, Next
    PROVE  \/ Restart
           \/ \E r \in Routes : RouteAction(r)
           \/ \E s \in Streams : Passes(s)
           \/ \E w \in Workers : Step(w) \/ \E l : Takes(w, l)
<1>1. Restart \/ (\E r \in Routes : RouteAction(r))
        \/ \E w \in Workers : Step(w) \/ Request(w) \/ \E s \in Streams : ReconcileGateways(w, s)
  BY DEF Next, RouteAction, Step, Request
<1>2. \A w \in Workers : Request(w) => \E l : Takes(w, l)
  BY RequestsStart, Begins
<1> QED  BY <1>1, <1>2, Reconciles

---------------------------------------------------------------------------
LEMMA Taken ==
    ASSUME TypedInv, NEW w \in Workers, NEW l, Takes(w, l)
    PROVE  /\ l \in Locals /\ InPlace(l) /\ l.at # "idle" /\ loc[w] = Idle
           /\ loc' \in [Workers -> Locals] /\ loc'[w] = l /\ \A v \in Workers \ {w} : loc'[v] = loc[v]
           /\ UNCHANGED <<template, domain, stream, route, live>>
<1>1. loc \in [Workers -> Locals] /\ loc[w] = Idle
  BY IdleWorkers DEF TypedInv, StateTyped, Takes
<1>2. l \in Locals /\ InPlace(l) /\ l.at # "idle"
  BY DEF Takes, Startable, Reconciling
<1>3. loc' = [loc EXCEPT ![w] = l]
  BY DEF Takes
<1>4. loc' \in [Workers -> Locals] /\ loc'[w] = l /\ \A v \in Workers \ {w} : loc'[v] = loc[v]
  BY <1>1, <1>2, <1>3
<1> QED  BY <1>1, <1>2, <1>4 DEF Takes, rows

\* What happens to a route between two requests takes away ports it may be
\* deployed on and adds none.
LEMMA RouteActions ==
    ASSUME TypedInv, NEW r \in Routes, RouteAction(r)
    PROVE  \E row \in RouteRows :
              /\ RouteStep(r, row) /\ route[r].status # None
              /\ row.status = None => row = NoRoute
              /\ Prospects(row) \subseteq Prospects(route[r])
              /\ row.status # "pending_create"
              /\ row.status = "rejected" => route[r].status = "pending_create" /\ row.deployed = route[r].deployed
<1>0. route[r] \in RouteRows /\ NoRoute \in RouteRows
  BY EmptyRows DEF TypedInv, StateTyped
<1> DEFINE Good(row) ==
      /\ row.status = None => row = NoRoute
      /\ Prospects(row) \subseteq Prospects(route[r])
      /\ row.status # "pending_create"
      /\ row.status = "rejected" => route[r].status = "pending_create" /\ row.deployed = route[r].deployed
<1>1. Good(NoRoute)
  BY DEF NoRoute, Prospects, None
<1>2. CASE ApproveRoute(r)
  <2>1. CASE route[r].status = "pending_create"
    <3> DEFINE row == [route[r] EXCEPT !.status = "approved", !.proposal = 0]
    <3>1. RouteStep(r, row)
      BY <1>2, <2>1 DEF ApproveRoute
    <3>2. row \in RouteRows /\ row.status = "approved" /\ row.port = route[r].port /\ row.proposal = 0 /\ row.deployed = route[r].deployed
      BY <1>0 DEF RouteRows, RouteStatus
    <3> HIDE DEF row
    <3>3. Good(row)
      BY <2>1, <3>2 DEF Prospects, None
    <3> QED  BY <2>1, <3>1, <3>2, <3>3 DEF None
  <2>2. CASE route[r].status = "pending_update"
    <3> DEFINE new == [route[r] EXCEPT !.status = "pending_deploy", !.port = route[r].proposal, !.proposal = 0]
               old == [route[r] EXCEPT !.proposal = 0]
    <3>1. RouteStep(r, new) \/ RouteStep(r, old)
      BY <1>2, <2>2 DEF ApproveRoute
    <3>2. /\ new \in RouteRows /\ new.status = "pending_deploy" /\ new.port = route[r].proposal /\ new.proposal = 0 /\ new.deployed = route[r].deployed
          /\ old \in RouteRows /\ old.status = "pending_update" /\ old.proposal = 0 /\ old.deployed = route[r].deployed
      BY <1>0, <2>2 DEF RouteRows, RouteStatus
    <3> HIDE DEF new, old
    <3>3. Good(new) /\ Good(old)
      BY <2>2, <3>2 DEF Prospects, None
    <3> QED  BY <2>2, <3>1, <3>2, <3>3 DEF None
  <2> QED  BY <1>2, <2>1, <2>2 DEF ApproveRoute
<1>3. CASE RefuseRoute(r)
  <2>1. CASE route[r].status = "pending_create"
    <3> DEFINE row == [route[r] EXCEPT !.status = "rejected", !.proposal = 0]
    <3>1. RouteStep(r, row) \/ RouteStep(r, NoRoute)
      BY <1>3, <2>1 DEF RefuseRoute
    <3>2. row \in RouteRows /\ row.status = "rejected" /\ row.proposal = 0 /\ row.deployed = route[r].deployed
      BY <1>0 DEF RouteRows, RouteStatus
    <3> HIDE DEF row
    <3>3. Good(row)
      BY <2>1, <3>2 DEF Prospects, None
    <3> QED  BY <1>0, <1>1, <2>1, <3>1, <3>2, <3>3 DEF None
  <2>2. CASE route[r].status = "pending_update"
    <3> DEFINE row == [route[r] EXCEPT !.status = "active", !.proposal = 0]
    <3>1. RouteStep(r, row)
      BY <1>3, <2>2 DEF RefuseRoute
    <3>2. row \in RouteRows /\ row.status = "active" /\ row.proposal = 0 /\ row.deployed = route[r].deployed
      BY <1>0 DEF RouteRows, RouteStatus
    <3> HIDE DEF row
    <3>3. Good(row)
      BY <2>2, <3>2 DEF Prospects, None
    <3> QED  BY <2>2, <3>1, <3>2, <3>3 DEF None
  <2> QED  BY <1>3, <2>1, <2>2 DEF RefuseRoute
<1>4. CASE DeployRoute(r)
  <2> DEFINE row == [route[r] EXCEPT !.status = "active", !.deployed = route[r].port]
  <2>1. RouteStep(r, row) /\ route[r].status \in {"approved", "pending_deploy"}
    BY <1>4 DEF DeployRoute
  <2>2. row \in RouteRows /\ row.status = "active" /\ row.deployed = route[r].port
    BY <1>0 DEF RouteRows, RouteStatus
  <2> HIDE DEF row
  <2>3. Good(row)
    BY <2>1, <2>2 DEF Prospects, None
  <2> QED  BY <2>1, <2>2, <2>3 DEF None
<1>5. CASE RemoveRoute(r)
  BY <1>0, <1>1, <1>5 DEF RemoveRoute, None
<1> QED  BY <1>2, <1>3, <1>4, <1>5 DEF RouteAction

\* Rows that are not there are empty, the others are not: by each step.
LEMMA StepsWhole ==
    ASSUME TypedInv, NEW w \in Workers, Step(w)
    PROVE  RowsWhole'
<1>0. /\ loc[w] \in Locals /\ InPlace(loc[w]) /\ RowsWhole /\ Advances(w) /\ Follows(loc[w].at, loc'[w].at)
      /\ stream \in [Streams -> StreamRows] /\ domain \in [Domains -> DomainRows] /\ route \in [Routes -> RouteRows]
  BY StepsAdvance DEF TypedInv, StateTyped
<1>w. /\ template' = template \/ InsertTemplate(w) \/ SaveTemplate(w) \/ DeleteTemplateRow(w)
      /\ domain' = domain \/ InsertDomain(w) \/ StoreDomain(w) \/ SaveDomain(w) \/ DeleteRow(w)
      /\ stream' = stream \/ InsertStream(w) \/ StoreStream(w) \/ StreamStatus(w) \/ DeleteRow(w)
      /\ route' = route \/ StoreRoute(w) \/ DeleteRow(w)
  BY StepsWrite
<1>1. template' = template \/ template'.status \in There \/ (template' = Deleted /\ ~InUse /\ DeleteTemplateRow(w))
  BY <1>0, <1>w DEF InsertTemplate, SaveTemplate, DeleteTemplateRow, At, InPlace, TemplateLabels
<1>2. Deleted.status = "deleted" /\ NoTemplate.status = None /\ Deleted # NoTemplate
  BY DEF Deleted, NoTemplate, None
<1>3. (template.status = None => template = NoTemplate)' /\ (template.status = "deleted" => template = Deleted)'
  BY <1>0, <1>1, <1>2 DEF RowsWhole, There, None
<1>4. (\A s \in Streams : IF stream[s].status = None THEN stream[s] = NoStream ELSE stream[s].ports # {})'
  <2>1. CASE StreamStatus(w)
    <3>1. /\ loc[w].id \in Streams /\ loc[w].str.status # None
          /\ stream' = stream \/ (stream[loc[w].id] # NoStream /\ stream' = [stream EXCEPT ![loc[w].id].status = loc[w].str.status])
      BY <1>0, <2>1 DEF StreamStatus, At, InPlace, StreamLabels, There, None
    <3>2. /\ [stream[loc[w].id] EXCEPT !.status = loc[w].str.status].ports = stream[loc[w].id].ports
          /\ [stream[loc[w].id] EXCEPT !.status = loc[w].str.status].status = loc[w].str.status
      BY <1>0, <3>1 DEF StreamRows
    <3> QED  BY <1>0, <3>1, <3>2 DEF RowsWhole
  <2>2. CASE InsertStream(w) \/ StoreStream(w)
    <3>1. loc[w].str.status # None /\ loc[w].str.ports # {}
      BY <1>0, <2>2 DEF InsertStream, StoreStream, At, InPlace, StreamLabels, There, None
    <3> QED  BY <1>0, <2>2, <3>1 DEF RowsWhole, InsertStream, StoreStream
  <2>3. CASE DeleteRow(w)
    <3>1. \A s \in Streams : stream'[s] \in {stream[s], NoStream}
      BY <1>0, <2>3 DEF DeleteRow
    <3>2. NoStream.status = None
      BY DEF NoStream
    <3> QED  BY <1>0, <3>1, <3>2 DEF RowsWhole
  <2> QED  BY <1>0, <1>w, <2>1, <2>2, <2>3 DEF RowsWhole
<1>5. (\A r \in Routes : route[r].status = None => route[r] = NoRoute)'
  <2>1. CASE StoreRoute(w)
    <3>1. loc[w].rte.status # None /\ loc[w].rte \in RouteRows
      BY <1>0, <2>1 DEF StoreRoute, At, InPlace, None, Locals
    <3>2. \A x : [loc[w].rte EXCEPT !.deployed = x].status = loc[w].rte.status
      BY <3>1 DEF RouteRows
    <3> QED  BY <1>0, <2>1, <3>1, <3>2 DEF RowsWhole, StoreRoute
  <2>2. CASE DeleteRow(w)
    BY <1>0, <2>2 DEF RowsWhole, DeleteRow
  <2> QED  BY <1>0, <1>w, <2>1, <2>2 DEF RowsWhole
<1>6. (~HasTemplate => ~InUse)'
  <2>1. CASE template' = template /\ domain' = domain /\ stream' = stream
    BY <1>0, <2>1 DEF RowsWhole, HasTemplate, InUse
  <2>2. CASE InsertTemplate(w) \/ SaveTemplate(w)
    <3>1. template' = template \/ template'.status \in There
      BY <1>0, <2>2 DEF InsertTemplate, SaveTemplate, At, InPlace, TemplateLabels
    <3>2. template'.status \in There => template' \notin {NoTemplate, Deleted}
      BY <1>2 DEF There, None
    <3>3. domain' = domain /\ stream' = stream
      BY <2>2 DEF InsertTemplate, SaveTemplate
    <3> QED  BY <1>0, <3>1, <3>2, <3>3 DEF RowsWhole, HasTemplate, InUse
  <2>3. CASE DeleteTemplateRow(w)
    BY <1>0, <2>3 DEF RowsWhole, HasTemplate, InUse, DeleteTemplateRow
  <2>4. CASE InsertDomain(w) \/ StoreDomain(w) \/ SaveDomain(w)
    BY <1>0, <2>4 DEF RowsWhole, HasTemplate, InUse, InsertDomain, StoreDomain, SaveDomain, StoredDomain
  <2>5. CASE InsertStream(w) \/ StoreStream(w)
    BY <1>0, <2>5 DEF RowsWhole, HasTemplate, InUse, InsertStream, StoreStream
  <2>6. CASE StreamStatus(w)
    BY <1>0, <2>6 DEF RowsWhole, HasTemplate, InUse, StreamStatus
  <2>7. CASE DeleteRow(w)
    BY <1>0, <2>7 DEF RowsWhole, HasTemplate, InUse, DeleteRow
  <2> QED  BY <1>w, <2>1, <2>2, <2>3, <2>4, <2>5, <2>6, <2>7
<1>7. (\A r \in Routes : route[r] # NoRoute => stream[StreamOf[r]] # NoStream)'
  <2>1. CASE StoreRoute(w)
    BY <1>0, <2>1 DEF RowsWhole, StoreRoute
  <2>2. CASE DeleteRow(w)
    BY <1>0, <2>2, InputsAssumption DEF RowsWhole, DeleteRow
  <2>3. CASE InsertStream(w) \/ StoreStream(w)
    <3>1. loc[w].str # NoStream
      BY <1>0, <2>3 DEF InsertStream, StoreStream, At, InPlace, StreamLabels, There, None, NoStream
    <3>2. \A s \in Streams : stream[s] # NoStream => stream'[s] # NoStream
      BY <1>0, <2>3, <3>1 DEF InsertStream, StoreStream
    <3>3. route' = route
      BY <2>3 DEF InsertStream, StoreStream
    <3> QED  BY <1>0, <3>2, <3>3, InputsAssumption DEF RowsWhole
  <2>4. CASE StreamStatus(w)
    <3>1. loc[w].id \in Streams /\ loc[w].str.status # None
      BY <1>0, <2>4 DEF StreamStatus, At, InPlace, StreamLabels, There, None
    <3>2. [stream[loc[w].id] EXCEPT !.status = loc[w].str.status].status = loc[w].str.status
      BY <1>0, <3>1 DEF StreamRows
    <3>3. \A s \in Streams : stream[s] # NoStream => stream'[s] # NoStream
      BY <1>0, <2>4, <3>1, <3>2 DEF StreamStatus, NoStream
    <3>4. route' = route
      BY <2>4 DEF StreamStatus
    <3> QED  BY <1>0, <3>3, <3>4, InputsAssumption DEF RowsWhole
  <2> QED  BY <1>0, <1>w, <2>1, <2>2, <2>3, <2>4 DEF RowsWhole
<1>8. (\A v \in Workers : loc[v].at \in {"insertStream", "storeStream"} => template # NoTemplate)'
  <2>1. template # NoTemplate => template' # NoTemplate
    BY <1>1, <1>2 DEF There, None
  <2>2. \A v \in Workers : loc'[v].at \in {"insertStream", "storeStream"} => loc'[v] = loc[v]
    BY <1>0 DEF Advances, Follows
  <2> QED  BY <1>0, <2>1, <2>2 DEF RowsWhole
<1> QED  BY <1>3, <1>4, <1>5, <1>6, <1>7, <1>8 DEF RowsWhole

\* Rows and what the workers hold are well formed from the start on.
LEMMA TypedAtFirst ==
    ASSUME Init
    PROVE  TypedInv
<1>0. NoTemplate \in TemplateRows /\ NoDomain \in DomainRows /\ NoStream \in StreamRows /\ NoRoute \in RouteRows
        /\ Idle \in Locals /\ InPlace(Idle) /\ Idle.at = "idle"
  BY EmptyRows DEF Idle
<1>1. /\ domain = [d \in Domains |-> NoDomain] /\ route = [r \in Routes |-> NoRoute]
      /\ loc = [w \in Workers |-> Idle]
      /\ live = [g \in Domains \cup Streams |-> IF g \in Streams THEN stream[g].ports ELSE {}]
  BY DEF Init
<1>2. /\ template \in TemplateRows /\ stream \in [Streams -> StreamRows]
      /\ template.status \in {None, "active"} /\ (template.status = None => template = NoTemplate)
      /\ template = NoTemplate => \A s \in Streams : stream[s] = NoStream
      /\ \A s \in Streams : stream[s] = NoStream \/ (stream[s].status = "active" /\ stream[s].ports # {})
  <2>1. CASE template = NoTemplate /\ stream = [s \in Streams |-> NoStream]
    BY <1>0, <2>1 DEF NoTemplate
  <2>2. CASE ~(template = NoTemplate /\ stream = [s \in Streams |-> NoStream])
    <3>1. PICK ls \in ListenerSets, merge \in BOOLEAN : template = [status |-> "active", merge |-> merge, ls |-> ls]
      BY <2>2 DEF Init
    <3>2. template \in TemplateRows /\ template.status = "active"
      BY <3>1, InputsAssumption DEF TemplateRows, There
    <3>3. PICK s \in Existing, ports \in ClaimSets \ {{}} :
             stream = [[t \in Streams |-> NoStream] EXCEPT ![s] = [status |-> "active", ports |-> ports]]
      BY <2>2 DEF Init
    <3>4. [status |-> "active", ports |-> ports] \in StreamRows
      BY <3>3, InputsAssumption DEF StreamRows, There
    <3>5. stream \in [Streams -> StreamRows]
      BY <1>0, <3>3, <3>4, InputsAssumption
    <3>6. \A t \in Streams : stream[t] = NoStream \/ (stream[t].status = "active" /\ stream[t].ports # {})
      BY <3>3, InputsAssumption
    <3>7. NoTemplate.status # "active"
      BY DEF NoTemplate, None
    <3> QED  BY <3>2, <3>5, <3>6, <3>7 DEF None
  <2> QED  BY <2>1, <2>2
<1>3. loc \in [Workers -> Locals] /\ \A w \in Workers : InPlace(loc[w]) /\ loc[w].at = "idle"
  BY <1>0, <1>1
<1>4. StateTyped
  <2>1. live \in [Domains \cup Streams -> SUBSET Claims]
    BY <1>1, <1>2 DEF StreamRows
  <2> QED  BY <1>0, <1>1, <1>2, <1>3, <2>1 DEF StateTyped
<1>5. RowsWhole
  <2>1. \A s \in Streams : IF stream[s].status = None THEN stream[s] = NoStream ELSE stream[s].ports # {}
    BY <1>2 DEF NoStream, None
  <2>2. ~HasTemplate => ~InUse
    <3>1. template # Deleted
      BY <1>2 DEF Deleted, NoTemplate, None
    <3> QED  BY <1>1, <1>2, <3>1 DEF HasTemplate, InUse
  <2> QED  BY <1>1, <1>2, <1>3, <2>1, <2>2 DEF RowsWhole, None
<1> QED  BY <1>3, <1>4, <1>5 DEF TypedInv

LEMMA RowsStay ==
    ASSUME TypedInv, UNCHANGED <<template, domain, stream, route, live>>, loc' \in [Workers -> Locals],
           \A v \in Workers : InPlace(loc'[v]),
           \A v \in Workers : loc'[v].at \in {"insertStream", "storeStream"} => template # NoTemplate
    PROVE  TypedInv'
<1>1. StateTyped'
  BY DEF TypedInv, StateTyped
<1>2. RowsWhole'
  BY DEF TypedInv, RowsWhole, HasTemplate, InUse
<1> QED  BY <1>1, <1>2 DEF TypedInv

LEMMA TypedKept ==
    ASSUME TypedInv, [Next]_vars
    PROVE  TypedInv'
<1>0. StateTyped /\ RowsWhole /\ (\A v \in Workers : InPlace(loc[v])) /\ Idle \in Locals /\ InPlace(Idle)
        /\ \A v \in Workers : loc[v].at \in {"insertStream", "storeStream"} => template # NoTemplate
  BY EmptyRows DEF TypedInv, RowsWhole
<1>1. CASE Restart
  <2>1. loc' = [w \in Workers |-> Idle] /\ UNCHANGED <<template, domain, stream, route, live>>
    BY <1>1 DEF Restart, rows, cluster
  <2> QED  BY <1>0, <2>1, RowsStay DEF Idle
<1>2. ASSUME NEW r \in Routes, RouteAction(r)
      PROVE  TypedInv'
  <2>1. PICK row \in RouteRows : /\ RouteStep(r, row) /\ route[r].status # None
                                 /\ row.status = None => row = NoRoute
    BY <1>2, RouteActions
  <2>2. route' = [route EXCEPT ![r] = row] /\ UNCHANGED <<template, domain, stream, live, loc>>
    BY <2>1 DEF RouteStep, cluster
  <2>3. StateTyped'
    BY <1>0, <2>2 DEF StateTyped
  <2>4. route[r] # NoRoute /\ route \in [Routes -> RouteRows]
    BY <1>0, <2>1 DEF NoRoute, StateTyped
  <2>5. RowsWhole'
    BY <1>0, <2>1, <2>2, <2>4 DEF RowsWhole, HasTemplate, InUse
  <2> QED  BY <1>0, <2>2, <2>3, <2>5 DEF TypedInv
<1>3. ASSUME NEW s \in Streams, Passes(s)
      PROVE  TypedInv'
  BY <1>0, <1>3, RowsStay DEF Passes, rows, StateTyped
<1>4. ASSUME NEW w \in Workers, Step(w)
      PROVE  TypedInv'
  <2>1. Advances(w) /\ StateTyped' /\ RowsWhole'
    BY <1>4, StepsAdvance, StepsTyped, StepsWhole
  <2> QED  BY <1>0, <2>1 DEF TypedInv, Advances
<1>5. ASSUME NEW w \in Workers, NEW l, Takes(w, l)
      PROVE  TypedInv'
  <2>1. /\ InPlace(l) /\ loc' \in [Workers -> Locals] /\ loc'[w] = l /\ \A v \in Workers \ {w} : loc'[v] = loc[v]
        /\ UNCHANGED <<template, domain, stream, route, live>>
    BY <1>5, Taken
  <2>2. l.at \in {"insertStream", "storeStream"} => template # NoTemplate
    BY <1>5 DEF Takes, Startable, Reconciling
  <2>3. /\ \A v \in Workers : InPlace(loc'[v])
        /\ \A v \in Workers : loc'[v].at \in {"insertStream", "storeStream"} => template # NoTemplate
    BY <1>0, <2>1, <2>2
  <2> QED  BY <2>1, <2>3, RowsStay
<1>6. CASE UNCHANGED vars
  BY <1>0, <1>6, RowsStay DEF vars, rows, cluster, StateTyped
<1> QED  BY <1>1, <1>2, <1>3, <1>4, <1>5, <1>6, NextCases

---------------------------------------------------------------------------
\* Requests on an id that is not blurred do not overlap.
LEMMA AloneAtFirst ==
    ASSUME Init
    PROVE  Alone
<1>1. \A w \in Workers : loc[w] = Idle
  BY DEF Init
<1> QED  BY <1>1 DEF Alone, At, Idle, PortOps

LEMMA AloneKept ==
    ASSUME TypedInv, Alone, [Next]_vars
    PROVE  Alone'
<1>0. Idle.at = "idle" /\ Idle.op \notin PortOps
  BY DEF Idle, PortOps
<1>1. CASE Restart
  BY <1>0, <1>1 DEF Restart, Alone, At
<1>2. ASSUME UNCHANGED loc, blurred \subseteq blurred'
      PROVE  Alone'
  BY <1>2 DEF Alone, At
<1>3. ASSUME NEW w \in Workers, Step(w)
      PROVE  Alone'
  <2>1. Advances(w) /\ blurred \subseteq blurred'
    BY <1>3, StepsAdvance, StepsWrite
  <2>2. \A v \in Workers : loc'[v].at # "idle" => loc[v].at # "idle" /\ loc'[v].id = loc[v].id
    BY <1>0, <2>1 DEF Advances, At
  <2>3. \A v \in Workers : loc'[v].op \in PortOps => loc[v].op \in PortOps
    BY <1>0, <2>1 DEF Advances
  <2> QED  BY <2>1, <2>2, <2>3 DEF Alone, At
<1>4. ASSUME NEW w \in Workers, NEW l, Takes(w, l)
      PROVE  Alone'
  <2>1. /\ loc[w] = Idle /\ loc'[w] = l /\ \A v \in Workers \ {w} : loc'[v] = loc[v]
    BY <1>4, Taken
  <2>2. /\ blurred \subseteq blurred'
        /\ (\E v \in Workers : loc[v].at # "idle" /\ loc[v].id = l.id) => l.id \in blurred'
        /\ l.op \in PortOps /\ (\E v \in Workers : loc[v].op \in PortOps) => "ports" \in blurred'
    BY <1>4 DEF Takes, At
  <2> QED  BY <2>1, <2>2 DEF Alone, At
<1>5. \A r \in Routes : RouteAction(r) => UNCHANGED <<loc, blurred>>
  BY RouteActions DEF RouteStep
<1>6. \A s \in Streams : Passes(s) => UNCHANGED loc /\ blurred \subseteq blurred'
  BY DEF Passes
<1> QED  BY <1>1, <1>2, <1>3, <1>4, <1>5, <1>6, NextCases DEF vars

---------------------------------------------------------------------------
\* Who writes the template, and who the claims of a stream.
LEMMA TemplateWrites ==
    ASSUME TypedInv, NEW w \in Workers, Step(w)
    PROVE  \/ template' = template
           \/ /\ loc[w].id = "template" /\ loc[w].at # "idle" /\ stream' = stream
              /\ \/ template' = Deleted /\ loc'[w] = Idle
                 \/ /\ loc[w].at = "insertTemplate" /\ loc[w].op = "createTemplate" /\ template = NoTemplate
                    /\ template' = loc[w].tpl /\ loc'[w].tpl = loc[w].tpl /\ loc'[w].op = loc[w].op
                 \/ loc[w].at = "saveTemplate" /\ template' = loc[w].tpl /\ loc'[w] = Idle
<1>0. loc[w] \in Locals /\ InPlace(loc[w]) /\ loc \in [Workers -> Locals] /\ Advances(w)
  BY StepsAdvance DEF TypedInv, StateTyped
<1>1. CASE InsertTemplate(w)
  <2>1. loc[w].id = "template" /\ loc[w].at = "insertTemplate" /\ loc[w].op = "createTemplate" /\ stream' = stream
    BY <1>0, <1>1 DEF InsertTemplate, At, InPlace, TemplateLabels
  <2>2. template' = template \/ (template = NoTemplate /\ template' = loc[w].tpl /\ Goto(w, "createProxy"))
    BY <1>1 DEF InsertTemplate
  <2>3. Goto(w, "createProxy") => loc'[w].tpl = loc[w].tpl /\ loc'[w].op = loc[w].op
    BY <1>0 DEF Goto, Locals
  <2> QED  BY <2>1, <2>2, <2>3
<1>2. CASE SaveTemplate(w)
  BY <1>0, <1>2 DEF SaveTemplate, Return, At, InPlace, TemplateLabels
<1>3. CASE DeleteTemplateRow(w)
  BY <1>0, <1>3 DEF DeleteTemplateRow, Return, At, InPlace, TemplateLabels
<1> QED  BY <1>1, <1>2, <1>3, StepsWrite

LEMMA StreamWrites ==
    ASSUME TypedInv, NEW w \in Workers, Step(w)
    PROVE  /\ \A s \in Streams : stream'[s] # stream[s] => loc[w].id = s /\ loc[w].at # "idle"
           /\ \A s \in Streams :
                 \/ stream'[s].ports = stream[s].ports
                 \/ stream'[s].ports = {}
                 \/ s = loc[w].id /\ loc[w].at \in {"insertStream", "storeStream"} /\ stream'[s] = loc[w].str
           /\ stream' # stream => template' = template
<1>0. loc[w] \in Locals /\ InPlace(loc[w]) /\ stream \in [Streams -> StreamRows] /\ NoStream.ports = {}
  BY DEF TypedInv, StateTyped, NoStream
<1>1. CASE InsertStream(w) \/ StoreStream(w)
  BY <1>0, <1>1 DEF InsertStream, StoreStream, At, InPlace, StreamLabels
<1>2. CASE StreamStatus(w)
  <2>1. loc[w].id \in Streams /\ loc[w].at = "streamStatus" /\ template' = template
    BY <1>0, <1>2 DEF StreamStatus, At, InPlace, StreamLabels
  <2>2. [stream[loc[w].id] EXCEPT !.status = loc[w].str.status].ports = stream[loc[w].id].ports
    BY <1>0, <2>1 DEF StreamRows
  <2>3. stream' = stream \/ stream' = [stream EXCEPT ![loc[w].id].status = loc[w].str.status]
    BY <1>2 DEF StreamStatus
  <2> QED  BY <1>0, <2>1, <2>2, <2>3
<1>3. CASE DeleteRow(w)
  BY <1>0, <1>3 DEF DeleteRow, At
<1> QED  BY <1>1, <1>2, <1>3, StepsWrite

---------------------------------------------------------------------------
\* What a request has checked of the claims still holds when it writes.
LEMMA ClaimsAtFirst ==
    ASSUME Init, TypedInv
    PROVE  ClaimsInv
<1>0. \A w \in Workers : loc[w] = Idle
  BY DEF Init
<1>1. ClaimsChecked /\ TemplateChecked /\ RenamesKeep
  BY <1>0 DEF ClaimsChecked, TemplateChecked, RenamesKeep, Claiming, Retemplating, At, Idle
<1>2. ClaimsDisjoint
  <2>1. CASE template = NoTemplate
    BY <2>1, TemplateThere DEF ClaimsDisjoint, HasTemplate
  <2>2. CASE template # NoTemplate
    <3>1. PICK s \in Existing, ports \in ClaimSets \ {{}} :
             /\ template.merge => ports \cap Tcp(HostPorts(template.ls)) = {}
             /\ stream = [[t \in Streams |-> NoStream] EXCEPT ![s] = [status |-> "active", ports |-> ports]]
      BY <2>2 DEF Init
    <3>2. \A t \in Streams : stream[t].ports = IF t = s THEN ports ELSE {}
      BY <3>1, InputsAssumption DEF NoStream
    <3> QED  BY <3>1, <3>2 DEF ClaimsDisjoint
  <2> QED  BY <2>1, <2>2
<1> QED  BY <1>1, <1>2 DEF ClaimsInv

\* Claims that are written are those that were checked, or were there before.
LEMMA ClaimsWritten ==
    ASSUME TypedInv, Alone, ClaimsInv, NEW w \in Workers, Step(w), NEW s \in Streams, s \notin blurred,
           stream'[s].ports # stream[s].ports, stream'[s].ports # {}
    PROVE  Claiming(loc[w]) /\ loc[w].op \in PortOps /\ loc[w].id = s /\ stream'[s].ports = loc[w].str.ports
<1>1. s = loc[w].id /\ loc[w].at \in {"insertStream", "storeStream"} /\ stream'[s] = loc[w].str
  BY StreamWrites
<1>2. InPlace(loc[w])
  BY DEF TypedInv
<1>3. loc[w].op # "renameStream"
  BY <1>1, <1>2 DEF InPlace, ClaimsInv, RenamesKeep, At
<1> QED  BY <1>1, <1>2, <1>3 DEF Claiming, InPlace, PortOps

LEMMA DisjointBySteps ==
    ASSUME TypedInv, Alone, ClaimsInv, NEW w \in Workers, Step(w)
    PROVE  ClaimsDisjoint'
<1>0. blurred \subseteq blurred' /\ ~Deleted.merge /\ InPlace(loc[w])
  BY StepsWrite DEF Deleted, NoTemplate, TypedInv
<1>1. CASE template' = template
  <2> SUFFICES ASSUME template.merge, {"ports", "template"} \cap blurred = {}
               PROVE  \A s \in Streams \ blurred :
                         /\ stream'[s].ports \cap Tcp(HostPorts(template.ls)) = {}
                         /\ \A t \in Streams \ (blurred \cup {s}) : stream'[s].ports \cap stream'[t].ports = {}
    BY <1>0, <1>1 DEF ClaimsDisjoint
  <2>1. \A s \in Streams \ blurred :
           /\ stream[s].ports \cap Tcp(HostPorts(template.ls)) = {}
           /\ \A t \in Streams \ (blurred \cup {s}) : stream[s].ports \cap stream[t].ports = {}
    BY DEF ClaimsInv, ClaimsDisjoint
  <2>2. \A s \in Streams : stream'[s] # stream[s] => loc[w].id = s
    BY StreamWrites
  <2>3. ASSUME NEW s \in Streams \ blurred
        PROVE  \/ stream'[s].ports = stream[s].ports
               \/ stream'[s].ports = {}
               \/ /\ loc[w].id = s
                  /\ Clear(template.ls, stream'[s].ports)
                  /\ \A t \in Streams \ (blurred \cup {s}) : stream'[s].ports \cap stream[t].ports = {}
    BY <2>3, ClaimsWritten DEF ClaimsInv, ClaimsChecked
  <2> QED  BY <2>1, <2>2, <2>3 DEF Clear
<1>2. CASE template' # template /\ template'.merge /\ {"ports", "template"} \cap blurred = {}
  <2>1. /\ stream' = stream /\ loc[w].id = "template"
        /\ \/ template = NoTemplate /\ loc[w].at = "insertTemplate"
           \/ loc[w].at = "saveTemplate" /\ template' = loc[w].tpl
    BY <1>0, <1>2, TemplateWrites
  <2>2. CASE template = NoTemplate
    <3>1. \A s \in Streams : stream[s].ports = {}
      BY <2>2 DEF TypedInv, RowsWhole, HasTemplate, InUse, NoStream
    <3> QED  BY <2>1, <3>1 DEF ClaimsDisjoint
  <2>3. CASE loc[w].at = "saveTemplate" /\ template' = loc[w].tpl
    <3>1. /\ template'.merge = template.merge
          /\ loc[w].op # "updateTemplate" => template'.ls = template.ls
          /\ loc[w].op = "updateTemplate" => \A s \in Streams \ blurred : Clear(template'.ls, stream[s].ports)
      BY <1>2, <2>3 DEF ClaimsInv, TemplateChecked, Retemplating
    <3>2. \A s \in Streams \ blurred :
             /\ stream[s].ports \cap Tcp(HostPorts(template.ls)) = {}
             /\ \A t \in Streams \ (blurred \cup {s}) : stream[s].ports \cap stream[t].ports = {}
      BY <1>2, <3>1 DEF ClaimsInv, ClaimsDisjoint
    <3>3. \A s \in Streams \ blurred : stream[s].ports \cap Tcp(HostPorts(template'.ls)) = {}
      BY <3>1, <3>2 DEF Clear
    <3> QED  BY <1>0, <2>1, <3>2, <3>3 DEF ClaimsDisjoint
  <2> QED  BY <2>1, <2>2, <2>3
<1>3. CASE ~(template'.merge /\ {"ports", "template"} \cap blurred = {})
  BY <1>0, <1>3 DEF ClaimsDisjoint
<1> QED  BY <1>1, <1>2, <1>3

LEMMA CheckedBySteps ==
    ASSUME TypedInv, Alone, ClaimsInv, NEW w \in Workers, Step(w)
    PROVE  ClaimsChecked'
<1>0. blurred \subseteq blurred' /\ ~Deleted.merge /\ InPlace(loc[w])
  BY StepsWrite DEF Deleted, NoTemplate, TypedInv
<1> SUFFICES ASSUME NEW v \in Workers, Claiming(loc'[v]), template'.merge,
                    {"ports", "template", loc'[v].id} \cap blurred = {}
             PROVE  /\ Clear(template'.ls, loc'[v].str.ports)
                    /\ \A t \in Streams \ (blurred \cup {loc'[v].id}) : loc'[v].str.ports \cap stream'[t].ports = {}
  BY <1>0 DEF ClaimsChecked, Claiming
<1>1. v # w /\ loc'[v] = loc[v] /\ Claiming(loc[v]) /\ loc[v].op \in PortOps /\ template # NoTemplate
  <2>1. Advances(w) /\ Follows(loc[w].at, loc'[w].at)
    BY StepsAdvance
  <2>2. v # w /\ loc'[v] = loc[v]
    BY <2>1 DEF Claiming, Advances, Follows
  <2> QED  BY <2>2 DEF TypedInv, RowsWhole, InPlace, Claiming, PortOps
<1>2. loc[w].op \notin PortOps
  BY <1>1 DEF Alone
<1>3. template'.merge = template.merge /\ template'.ls = template.ls
  <2>1. CASE template' = template
    BY <2>1
  <2>2. CASE template' # template
    <3>1. loc[w].at = "saveTemplate" /\ template' = loc[w].tpl
      BY <1>0, <1>1, <2>2, TemplateWrites
    <3> QED  BY <1>2, <3>1 DEF ClaimsInv, TemplateChecked, Retemplating, PortOps
  <2> QED  BY <2>1, <2>2
<1>4. ASSUME NEW t \in Streams, t \notin blurred
      PROVE  stream'[t].ports \subseteq stream[t].ports
  BY <1>2, <1>4, ClaimsWritten
<1>5. /\ Clear(template.ls, loc[v].str.ports)
      /\ \A t \in Streams \ (blurred \cup {loc[v].id}) : loc[v].str.ports \cap stream[t].ports = {}
  BY <1>1, <1>3 DEF ClaimsInv, ClaimsChecked
<1> QED  BY <1>1, <1>3, <1>4, <1>5 DEF Clear

LEMMA TemplateBySteps ==
    ASSUME TypedInv, Alone, ClaimsInv, NEW w \in Workers, Step(w)
    PROVE  TemplateChecked'
<1>0. blurred \subseteq blurred' /\ InPlace(loc[w]) /\ Advances(w) /\ Follows(loc[w].at, loc'[w].at)
        /\ Idle.at = "idle" /\ \A v \in Workers : InPlace(loc[v])
  BY StepsWrite, StepsAdvance DEF TypedInv, Idle
<1> SUFFICES ASSUME NEW v \in Workers, Retemplating(loc'[v]), "template" \notin blurred
             PROVE  /\ loc'[v].tpl.merge = template'.merge
                    /\ loc'[v].op # "updateTemplate" => loc'[v].tpl.ls = template'.ls
                    /\ loc'[v].op = "updateTemplate" /\ template'.merge /\ "ports" \notin blurred =>
                          \A s \in Streams \ blurred : Clear(loc'[v].tpl.ls, stream'[s].ports)
  BY <1>0 DEF TemplateChecked, Retemplating
<1>1. CASE template' # template
  <2>1. loc[w].id = "template" /\ loc[w].at # "idle"
    BY <1>1, TemplateWrites
  <2>2. v = w
    <3>1. v # w => loc'[v] = loc[v]
      BY <1>0 DEF Advances
    <3>2. v # w => loc[v].id = "template" /\ loc[v].at # "idle"
      BY <1>0, <3>1 DEF Retemplating, InPlace, TemplateLabels
    <3> QED  BY <2>1, <3>2 DEF Alone, At
  <2>3. /\ loc[w].op = "createTemplate" /\ template' = loc[w].tpl /\ loc'[w].tpl = loc[w].tpl /\ loc'[w].op = loc[w].op
    BY <1>0, <1>1, <2>2, TemplateWrites DEF Retemplating
  <2> QED  BY <2>2, <2>3
<1>2. CASE template' = template
  <2>0. v # w => loc'[v] = loc[v]
    BY <1>0 DEF Advances
  <2>a. v = w => loc[w].at # "insertTemplate"
    <3>1. SUFFICES ASSUME v = w, loc[w].at = "insertTemplate"
                   PROVE  FALSE
      OBVIOUS
    <3>2. loc'[w].at = "createProxy" \/ loc'[w] = Idle
      BY <1>0, <3>1 DEF Follows, Retemplating
    <3>3. InsertTemplate(w)
      BY <3>1 DEF Step, InsertTemplate, CreateEnvoyProxy, CreateGatewayClass, TemplateCallFails, SaveTemplate, ReplaceProxy,
        DeleteClass, DeleteTemplateRow, InsertDomain, CreateGateway, StoreDomain, ApplyGateway, GatewayCallFails, SaveDomain,
        DeleteGateway, DeleteRow, InsertStream, StoreStream, ApplyStream, StreamStatus, StoreRoute, At
    <3>4. template = NoTemplate => loc[w].tpl = NoTemplate
      BY <1>2, <3>3 DEF InsertTemplate
    <3>5. loc[w].tpl # NoTemplate
      BY <1>0, <3>1 DEF InPlace, TemplateLabels, There, NoTemplate, None
    <3>6. Return(w)
      BY <3>3, <3>4, <3>5 DEF InsertTemplate
    <3>7. loc'[w] = Idle
      BY <3>6 DEF Return, TypedInv, StateTyped
    <3> QED  BY <1>0, <3>1, <3>7 DEF Retemplating
  <2>1. /\ Retemplating(loc[v]) /\ loc'[v].tpl.ls = loc[v].tpl.ls /\ loc'[v].tpl.merge = loc[v].tpl.merge
        /\ loc'[v].op = loc[v].op
    <3>1. CASE v # w
      BY <2>0, <3>1
    <3>2. CASE v = w
      <4>1. loc'[w] # Idle
        BY <1>0, <3>2 DEF Retemplating
      <4>2. loc[w].at \in {"createProxy", "createClass", "replaceProxy", "saveTemplate"}
        BY <1>0, <2>a, <3>2 DEF Retemplating, Follows
      <4> QED  BY <1>0, <3>2, <4>1, <4>2 DEF Retemplating, Advances
    <3> QED  BY <3>1, <3>2
  <2>2. ASSUME loc[v].op = "updateTemplate", "ports" \notin blurred, NEW s \in Streams \ blurred
        PROVE  stream'[s].ports \subseteq stream[s].ports
    <3>1. SUFFICES ASSUME stream'[s].ports # stream[s].ports, stream'[s].ports # {}
                   PROVE  FALSE
      OBVIOUS
    <3>2. Claiming(loc[w]) /\ loc[w].op \in PortOps
      BY <2>2, <3>1, ClaimsWritten
    <3>3. v = w
      BY <2>2, <3>2 DEF Alone, PortOps
    <3> QED  BY <2>1, <3>2, <3>3 DEF Claiming, Retemplating
  <2>3. /\ loc[v].tpl.merge = template.merge
        /\ loc[v].op # "updateTemplate" => loc[v].tpl.ls = template.ls
        /\ loc[v].op = "updateTemplate" /\ template.merge /\ "ports" \notin blurred =>
              \A s \in Streams \ blurred : Clear(loc[v].tpl.ls, stream[s].ports)
    BY <2>1 DEF ClaimsInv, TemplateChecked
  <2> QED  BY <1>2, <2>1, <2>2, <2>3 DEF Clear
<1> QED  BY <1>1, <1>2

LEMMA RenamesBySteps ==
    ASSUME TypedInv, Alone, ClaimsInv, NEW w \in Workers, Step(w)
    PROVE  RenamesKeep'
<1>0. blurred \subseteq blurred' /\ Advances(w) /\ Follows(loc[w].at, loc'[w].at)
  BY StepsWrite, StepsAdvance
<1> SUFFICES ASSUME NEW v \in Workers, loc'[v].at = "storeStream", loc'[v].op = "renameStream", loc'[v].id \notin blurred
             PROVE  loc'[v].str = stream'[loc'[v].id]
  BY <1>0 DEF RenamesKeep, At
<1>1. v # w /\ loc'[v] = loc[v]
  BY <1>0 DEF Advances, Follows
<1>2. loc[v].id \in Streams
  BY <1>1 DEF TypedInv, InPlace, StreamLabels
<1>3. PICK s \in Streams : s = loc[v].id
  BY <1>2
<1>4. stream'[s] = stream[s]
  BY <1>1, <1>3, StreamWrites DEF Alone, At
<1> QED  BY <1>1, <1>3, <1>4 DEF ClaimsInv, RenamesKeep, At

LEMMA ClaimsByTaking ==
    ASSUME TypedInv, ClaimsInv, NEW w \in Workers, NEW l, Takes(w, l)
    PROVE  ClaimsInv'
<1>0. /\ loc'[w] = l /\ (\A v \in Workers \ {w} : loc'[v] = loc[v])
      /\ template' = template /\ stream' = stream /\ blurred \subseteq blurred'
  BY Taken DEF Takes
<1>1. ClaimsDisjoint'
  BY <1>0 DEF ClaimsInv, ClaimsDisjoint
<1>2. ClaimsChecked'
  <2>1. Claiming(l) /\ template.merge =>
           /\ Clear(template.ls, l.str.ports)
           /\ \A t \in Streams \ {l.id} : l.str.ports \cap stream[t].ports = {}
    BY DEF Takes, Startable, Reconciling, Claiming
  <2> SUFFICES ASSUME NEW v \in Workers, Claiming(loc'[v]), template.merge,
                      {"ports", "template", loc'[v].id} \cap blurred = {}
               PROVE  /\ Clear(template.ls, loc'[v].str.ports)
                      /\ \A t \in Streams \ (blurred \cup {loc'[v].id}) : loc'[v].str.ports \cap stream[t].ports = {}
    BY <1>0 DEF ClaimsChecked, Claiming, Clear
  <2>2. CASE v = w
    BY <1>0, <2>1, <2>2
  <2>3. CASE v # w
    BY <1>0, <2>3 DEF ClaimsInv, ClaimsChecked
  <2> QED  BY <2>2, <2>3
<1>3. TemplateChecked'
  <2>1. Retemplating(l) =>
          /\ l.tpl.merge = template.merge
          /\ l.op # "updateTemplate" => l.tpl.ls = template.ls
          /\ l.op = "updateTemplate" /\ template.merge => \A s \in Streams : Clear(l.tpl.ls, stream[s].ports)
    BY DEF Takes, Startable, Reconciling, Retemplating
  <2> SUFFICES ASSUME NEW v \in Workers, Retemplating(loc'[v]), "template" \notin blurred
               PROVE  /\ loc'[v].tpl.merge = template.merge
                      /\ loc'[v].op # "updateTemplate" => loc'[v].tpl.ls = template.ls
                      /\ loc'[v].op = "updateTemplate" /\ template.merge /\ "ports" \notin blurred =>
                            \A s \in Streams \ blurred : Clear(loc'[v].tpl.ls, stream[s].ports)
    BY <1>0 DEF TemplateChecked, Retemplating, Clear
  <2>2. CASE v = w
    BY <1>0, <2>1, <2>2
  <2>3. CASE v # w
    BY <1>0, <2>3 DEF ClaimsInv, TemplateChecked
  <2> QED  BY <2>2, <2>3
<1>4. RenamesKeep'
  <2>1. l.at = "storeStream" /\ l.op = "renameStream" => l.str = stream[l.id]
    BY DEF Takes, Startable, Reconciling
  <2> QED  BY <1>0, <2>1 DEF ClaimsInv, RenamesKeep, At
<1> QED  BY <1>1, <1>2, <1>3, <1>4 DEF ClaimsInv

LEMMA ClaimsKept ==
    ASSUME TypedInv, Alone, ClaimsInv, [Next]_vars
    PROVE  ClaimsInv'
<1>1. CASE Restart
  <2>1. (\A v \in Workers : loc'[v] = Idle) /\ UNCHANGED <<template, stream, blurred>>
    BY <1>1 DEF Restart, rows
  <2> QED  BY <2>1 DEF ClaimsInv, ClaimsDisjoint, ClaimsChecked, TemplateChecked, RenamesKeep, Claiming, Retemplating, At, Idle
<1>2. ASSUME UNCHANGED <<template, stream, loc>>, blurred \subseteq blurred'
      PROVE  ClaimsInv'
  <2>1. ClaimsDisjoint'
    BY <1>2 DEF ClaimsInv, ClaimsDisjoint
  <2>2. ClaimsChecked'
    BY <1>2 DEF ClaimsInv, ClaimsChecked, Claiming, Clear
  <2>3. TemplateChecked'
    BY <1>2 DEF ClaimsInv, TemplateChecked, Retemplating, Clear
  <2>4. RenamesKeep'
    BY <1>2 DEF ClaimsInv, RenamesKeep, At
  <2> QED  BY <2>1, <2>2, <2>3, <2>4 DEF ClaimsInv
<1>3. \A r \in Routes : RouteAction(r) => UNCHANGED <<template, stream, loc, blurred>>
  BY RouteActions DEF RouteStep
<1>4. \A s \in Streams : Passes(s) => UNCHANGED <<template, stream, loc>> /\ blurred \subseteq blurred'
  BY DEF Passes, rows
<1>5. ASSUME NEW w \in Workers, Step(w)
      PROVE  ClaimsInv'
  BY <1>5, DisjointBySteps, CheckedBySteps, TemplateBySteps, RenamesBySteps DEF ClaimsInv
<1>6. UNCHANGED vars => UNCHANGED <<template, stream, loc, blurred>>
  BY DEF vars, rows
<1> QED  BY <1>1, <1>2, <1>3, <1>4, <1>5, <1>6, ClaimsByTaking, NextCases

\* On a merged template, whatever sequence of changes to claims, domains and
\* listeners led there, no stream has the port of another or of the template,
\* unless requests that check ports overlapped.
THEOREM ClaimsStayDisjoint == Spec => []ClaimsDisjoint
<1> DEFINE Inv == TypedInv /\ Alone /\ ClaimsInv
<1>1. Init => Inv
  BY TypedAtFirst, AloneAtFirst, ClaimsAtFirst
<1>2. Inv /\ [Next]_vars => Inv'
  BY TypedKept, AloneKept, ClaimsKept
<1>3. Inv => ClaimsDisjoint
  BY DEF ClaimsInv
<1> QED  BY <1>1, <1>2, <1>3, PTL DEF Spec

\* Rows are well typed, and those of domains, streams and routes have their template and their stream.
THEOREM RowsTyped == Spec => []TypeOK
<1>1. Init => TypedInv
  BY TypedAtFirst
<1>2. TypedInv /\ [Next]_vars => TypedInv'
  BY TypedKept
<1>3. TypedInv => TypeOK
  <2> SUFFICES ASSUME TypedInv
               PROVE  TypeOK
    OBVIOUS
  <2>1. /\ template.status \in {None, "deleted"} \cup There /\ template.ls \in Listeners
        /\ domain \in [Domains -> DomainRows] /\ stream \in [Streams -> StreamRows]
        /\ \A g \in Domains \cup Streams : live[g] \subseteq Claims
    BY DEF TypedInv, StateTyped, TemplateRows
  <2>2. /\ DomainRows = [status : {None, "pending", "active", "error"}, bound : SUBSET Names]
        /\ StreamRows = [status : {None, "pending", "active", "error"}, ports : SUBSET Claims]
    BY DEF DomainRows, StreamRows, There
  <2>3. (~HasTemplate => ~InUse) /\ \A r \in Routes : route[r] # NoRoute => stream[StreamOf[r]] # NoStream
    BY DEF TypedInv, RowsWhole
  <2> QED  BY <2>1, <2>2, <2>3 DEF TypeOK, There
<1> QED  BY <1>1, <1>2, <1>3, PTL DEF Spec

---------------------------------------------------------------------------
\* A Gateway loses its last listener only to the delete of its domain or stream,
\* or because the template has none left.
LEMMA StepsLeaveListeners ==
    ASSUME TypedInv, NEW w \in Workers, Step(w), NEW g \in Domains \cup Streams, live[g] # {}, live'[g] = {}
    PROVE  \/ loc[w].id = g /\ loc[w].op \in {"deleteDomain", "deleteStream"}
           \/ g \in Domains /\ HostPorts(template.ls) = {}
<1>0. loc[w] \in Locals /\ InPlace(loc[w]) /\ live \in [Domains \cup Streams -> SUBSET Claims]
  BY DEF TypedInv, StateTyped
<1>1. CASE DeleteGateway(w)
  BY <1>0, <1>1 DEF DeleteGateway, At, InPlace
<1>2. CASE ApplyStream(w)
  BY <1>0, <1>2 DEF ApplyStream, At, InPlace, StreamLabels
<1>3. CASE CreateGateway(w)
  BY <1>0, <1>3 DEF CreateGateway
<1>4. CASE ApplyGateway(w)
  <2>1. loc[w].id = g /\ g \in Domains
    BY <1>0, <1>4 DEF ApplyGateway, At, InPlace, DomainLabels
  <2>2. ResolveHostnameListeners(template.ls, loc[w].dom.bound) = {}
    BY <1>0, <1>4, <2>1 DEF ApplyGateway
  <2>3. HostPorts(template.ls) = {}
    BY <2>2 DEF ResolveHostnameListeners, Tcp
  <2> QED  BY <2>1, <2>3
<1> QED
  BY <1>1, <1>2, <1>3, <1>4 DEF Step, InsertTemplate, CreateEnvoyProxy, CreateGatewayClass, TemplateCallFails, SaveTemplate,
        ReplaceProxy, DeleteClass, DeleteTemplateRow, InsertDomain, StoreDomain, GatewayCallFails, SaveDomain,
        DeleteRow, InsertStream, StoreStream, StreamStatus, StoreRoute, cluster

\* Never because the template could not be read or a call failed.
THEOREM ListenersLast == Spec => GatewayNotEmptied
<1>1. Init => TypedInv
  BY TypedAtFirst
<1>2. TypedInv /\ [Next]_vars => TypedInv'
  BY TypedKept
<1> DEFINE A == \A g \in Domains \cup Streams : live[g] # {} /\ live'[g] = {} =>
                  \/ \E w \in Workers : loc[w].id = g /\ loc[w].op \in {"deleteDomain", "deleteStream"}
                  \/ g \in Domains /\ HostPorts(template.ls) = {}
<1>3. TypedInv /\ Next => A
  <2> SUFFICES ASSUME TypedInv, Next
               PROVE  A
    OBVIOUS
  <2>1. CASE Restart
    BY <2>1 DEF Restart, cluster
  <2>2. CASE \E r \in Routes : RouteAction(r)
    BY <2>2, RouteActions DEF RouteStep, cluster
  <2>3. CASE \E s \in Streams : Passes(s)
    BY <2>3 DEF Passes
  <2>4. CASE \E w \in Workers : Step(w)
    BY <2>4, StepsLeaveListeners
  <2>5. CASE \E w \in Workers : \E l : Takes(w, l)
    BY <2>5 DEF Takes
  <2> QED  BY <2>1, <2>2, <2>3, <2>4, <2>5, NextCases
<1>4. TypedInv /\ [Next]_vars => [A]_vars
  BY <1>3
<1> HIDE DEF A
<1>5. Spec => [][A]_vars
  BY <1>1, <1>2, <1>4, PTL DEF Spec
<1> QED  BY <1>5 DEF GatewayNotEmptied, A

---------------------------------------------------------------------------
\* Who writes the routes.
LEMMA NoProspects == Prospects(NoRoute) = {} /\ NoRoute.deployed = 0 /\ NoRoute.status = None
BY DEF Prospects, NoRoute, None

LEMMA RouteWrites ==
    ASSUME TypedInv, NEW w \in Workers, Step(w), NEW r \in Routes
    PROVE  \/ route'[r] = route[r]
           \/ route'[r] = NoRoute
           \/ /\ loc[w].at = "storeRoute" /\ loc[w].id = r /\ loc[w].op \in {"createRoute", "updateRoute"}
              /\ stream' = stream /\ stream[StreamOf[r]] # NoStream
              /\ Prospects(route'[r]) \subseteq Prospects(route[r]) \cup {loc[w].rte.proposal}
              /\ route'[r].status \in {"pending_create", "pending_update"}
              /\ route'[r].status = "pending_create" => loc[w].op = "createRoute"
              /\ route'[r].deployed = route[r].deployed
<1>0. loc[w] \in Locals /\ InPlace(loc[w]) /\ route \in [Routes -> RouteRows]
  BY DEF TypedInv, StateTyped
<1>1. CASE DeleteRow(w)
  BY <1>0, <1>1 DEF DeleteRow
<1>2. CASE StoreRoute(w) /\ loc[w].id = r /\ route'[r] # route[r]
  <2> DEFINE row == [loc[w].rte EXCEPT !.deployed = route[r].deployed]
  <2>1. loc[w].at = "storeRoute" /\ stream' = stream /\ stream[StreamOf[r]] # NoStream /\ route'[r] = row
    BY <1>0, <1>2 DEF StoreRoute, At
  <2>2. /\ row.status = loc[w].rte.status /\ row.port = loc[w].rte.port /\ row.proposal = loc[w].rte.proposal
        /\ row.deployed = route[r].deployed
    BY <1>0 DEF Locals, RouteRows
  <2>3. \/ loc[w].op = "createRoute" /\ loc[w].rte.status = "pending_create" /\ loc[w].rte.port = loc[w].rte.proposal
        \/ loc[w].op = "updateRoute" /\ loc[w].rte.status = "pending_update"
    BY <1>0, <2>1 DEF InPlace
  <2> HIDE DEF row
  <2>4. Prospects(row) \subseteq Prospects(route[r]) \cup {loc[w].rte.proposal}
    BY <2>2, <2>3 DEF Prospects
  <2> QED  BY <1>2, <2>1, <2>2, <2>3, <2>4
<1>3. CASE StoreRoute(w) /\ loc[w].id # r
  BY <1>0, <1>3 DEF StoreRoute
<1> QED  BY <1>1, <1>2, <1>3, StepsWrite

\* A stream keeps its claims, or goes with its routes, or gets the claims that
\* were checked.
LEMMA ClaimWrites ==
    ASSUME TypedInv, ClaimsInv, NEW w \in Workers, Step(w), NEW s \in Streams, s \notin blurred
    PROVE  \/ stream'[s].ports = stream[s].ports /\ (stream[s] = NoStream => stream'[s] = NoStream)
           \/ stream'[s] = NoStream /\ \A r \in Routes : StreamOf[r] = s => route'[r] = NoRoute
           \/ /\ loc[w].op = "createStream" /\ stream[s] = NoStream
              /\ \A r \in Routes : StreamOf[r] = s => route'[r] = NoRoute
           \/ /\ loc[w].at = "storeStream" /\ loc[w].op = "updateStream" /\ loc[w].id = s
              /\ stream'[s].ports = loc[w].str.ports /\ route' = route
<1>0. loc[w] \in Locals /\ InPlace(loc[w]) /\ stream \in [Streams -> StreamRows]
        /\ \A r \in Routes : route[r] # NoRoute => stream[StreamOf[r]] # NoStream
  BY DEF TypedInv, StateTyped, RowsWhole
<1>1. CASE stream'[s] = stream[s]
  BY <1>1
<1>2. CASE InsertStream(w) /\ stream'[s] # stream[s]
  BY <1>0, <1>2 DEF InsertStream, At, InPlace
<1>3. CASE StoreStream(w) /\ stream'[s] # stream[s]
  <2>1. loc[w].at = "storeStream" /\ loc[w].id = s /\ stream'[s] = loc[w].str /\ route' = route
    BY <1>0, <1>3 DEF StoreStream, At
  <2>2. loc[w].op # "renameStream"
    BY <1>3, <2>1 DEF ClaimsInv, RenamesKeep, At
  <2> QED  BY <1>0, <2>1, <2>2 DEF InPlace
<1>4. CASE StreamStatus(w) /\ stream'[s] # stream[s]
  <2>1. loc[w].id = s /\ stream[s] # NoStream /\ stream' = [stream EXCEPT ![s].status = loc[w].str.status]
    BY <1>0, <1>4 DEF StreamStatus
  <2>2. [stream[s] EXCEPT !.status = loc[w].str.status].ports = stream[s].ports
    BY <1>0 DEF StreamRows
  <2> QED  BY <1>0, <2>1, <2>2
<1>5. CASE DeleteRow(w) /\ stream'[s] # stream[s]
  BY <1>0, <1>5 DEF DeleteRow
<1> QED  BY <1>1, <1>2, <1>3, <1>4, <1>5, StepsWrite

\* The port of a route that may be deployed on it counts as used.
LEMMA ProspectsUsed ==
    ASSUME TypedInv, Undeployed, NEW r \in Routes, r \notin blurred, NEW p \in Prospects(route[r]), NEW x, x # r
    PROVE  <<TransportOf[r], p>> \in UsedPortsByStream(StreamOf[r], x)
<1>1. route[r] \in RouteRows
  BY DEF TypedInv, StateTyped
<1>2. p # 0 /\ p \in {route[r].port, route[r].proposal, route[r].deployed}
  BY DEF Prospects
<1>3. route[r].status \notin {None, "rejected"}
  BY DEF Undeployed, Prospects, None
<1>4. <<TransportOf[r], p>> \in Claims
  BY <1>1, <1>2, InputsAssumption DEF RouteRows, Claims
<1> QED  BY <1>2, <1>3, <1>4 DEF UsedPortsByStream

LEMMA RoutesAtFirst ==
    ASSUME Init
    PROVE  RoutesInv
<1>1. (\A w \in Workers : loc[w] = Idle) /\ \A r \in Routes : route[r] = NoRoute
  BY DEF Init
<1>2. ProspectsApart /\ ProspectsClaimed /\ Undeployed
  BY <1>1, NoProspects DEF ProspectsApart, ProspectsClaimed, Undeployed, At, Idle
<1>3. PortChecked /\ NeedsCovered
  BY <1>1 DEF PortChecked, NeedsCovered, At, Idle
<1> QED  BY <1>2, <1>3 DEF RoutesInv

LEMMA RoutesBySteps ==
    ASSUME TypedInv, Alone, ClaimsInv, RoutesInv, NEW w \in Workers, Step(w)
    PROVE  RoutesInv'
<1>0. /\ blurred \subseteq blurred' /\ Advances(w) /\ Follows(loc[w].at, loc'[w].at)
      /\ \A v \in Workers : InPlace(loc[v]) /\ loc[v] \in Locals
      /\ StreamOf \in [Routes -> Streams]
  BY StepsWrite, StepsAdvance, InputsAssumption DEF TypedInv, StateTyped
<1>p. {"createRoute", "updateRoute", "createStream", "updateStream"} \subseteq PortOps
  BY DEF PortOps
<1>r. ASSUME NEW r \in Routes
      PROVE  \/ Prospects(route'[r]) \subseteq Prospects(route[r])
             \/ /\ loc[w].at = "storeRoute" /\ loc[w].id = r /\ loc[w].op \in PortOps
                /\ stream' = stream /\ stream[StreamOf[r]] # NoStream
                /\ Prospects(route'[r]) \subseteq Prospects(route[r]) \cup {loc[w].rte.proposal}
  BY <1>p, <1>r, RouteWrites, NoProspects
<1>1. ProspectsApart'
  <2> SUFFICES ASSUME "ports" \notin blurred, NEW q \in Routes \ blurred, NEW r \in Routes \ blurred, Rivals(q, r)
               PROVE  Prospects(route'[q]) \cap Prospects(route'[r]) = {}
    BY <1>0 DEF ProspectsApart, Rivals, Prospects
  <2>1. Prospects(route[q]) \cap Prospects(route[r]) = {} /\ q # r /\ Rivals(r, q)
    BY DEF RoutesInv, ProspectsApart, Rivals
  <2>2. loc[w].at = "storeRoute" /\ loc[w].id = r => loc[w].rte.proposal \notin Prospects(route[q])
    BY DEF RoutesInv, PortChecked, At
  <2>3. loc[w].at = "storeRoute" /\ loc[w].id = q => loc[w].rte.proposal \notin Prospects(route[r])
    BY <2>1 DEF RoutesInv, PortChecked, At
  <2> QED  BY <1>r, <2>1, <2>2, <2>3
<1>2. ProspectsClaimed'
  <2> SUFFICES ASSUME NEW r \in Routes, {"ports", StreamOf[r], r} \cap blurred = {}, NEW p \in Prospects(route'[r])
               PROVE  <<TransportOf[r], p>> \in stream'[StreamOf[r]].ports
    BY <1>0 DEF ProspectsClaimed, Prospects
  <2>0. PICK s \in Streams : s = StreamOf[r]
    BY <1>0
  <2>1. p \in Prospects(route[r]) => <<TransportOf[r], p>> \in stream[s].ports
    BY <2>0 DEF RoutesInv, ProspectsClaimed
  <2>2. CASE p \in Prospects(route[r])
    <3>1. /\ loc[w].at = "storeStream" /\ loc[w].op = "updateStream" /\ loc[w].id = s
             => <<TransportOf[r], p>> \in loc[w].str.ports
      BY <2>0, <2>2 DEF RoutesInv, NeedsCovered, At
    <3> QED  BY <2>0, <2>1, <2>2, <3>1, ClaimWrites, NoProspects
  <2>3. CASE p \notin Prospects(route[r])
    <3>1. /\ loc[w].at = "storeRoute" /\ loc[w].id = r /\ stream' = stream /\ stream[s] # NoStream
          /\ p = loc[w].rte.proposal
      BY <1>r, <2>0, <2>3
    <3> QED  BY <2>0, <3>1 DEF RoutesInv, PortChecked, At
  <2> QED  BY <2>2, <2>3
<1>3. Undeployed'
  <2>1. ASSUME NEW r \in Routes, r \notin blurred, route'[r].status \in {None, "rejected", "pending_create"}
        PROVE  route'[r].deployed = 0
    <3>1. CASE route'[r] = route[r]
      BY <2>1, <3>1 DEF RoutesInv, Undeployed
    <3>2. CASE route'[r] = NoRoute
      BY <3>2, NoProspects
    <3>3. CASE route'[r] # route[r] /\ route'[r] # NoRoute
      <4>1. loc[w].at = "storeRoute" /\ loc[w].id = r /\ loc[w].op = "createRoute" /\ route'[r].deployed = route[r].deployed
        BY <2>1, <3>3, RouteWrites DEF None
      <4> QED  BY <2>1, <4>1, NoProspects DEF RoutesInv, Undeployed, At
    <3> QED  BY <3>1, <3>2, <3>3
  <2>2. ASSUME NEW v \in Workers, loc'[v].at = "storeRoute", loc'[v].op = "createRoute", loc'[v].id \notin blurred
        PROVE  route'[loc'[v].id] = NoRoute
    <3>1. v # w /\ loc'[v] = loc[v]
      BY <1>0, <2>2 DEF Advances, Follows
    <3>2. PICK r \in Routes : r = loc[v].id
      BY <1>0, <2>2, <3>1 DEF InPlace
    <3>3. route[r] = NoRoute
      BY <2>2, <3>1, <3>2 DEF RoutesInv, Undeployed, At
    <3>4. ~(loc[w].at = "storeRoute" /\ loc[w].id = r)
      BY <2>2, <3>1, <3>2 DEF Alone, At
    <3>5. route'[r] = NoRoute
      BY <3>3, <3>4, RouteWrites
    <3> QED  BY <3>1, <3>2, <3>5
  <2> QED  BY <1>0, <2>1, <2>2 DEF Undeployed, At
<1>4. PortChecked'
  <2> SUFFICES ASSUME NEW v \in Workers, loc'[v].at = "storeRoute"
               PROVE  LET r == loc'[v].id IN
                      /\ {"ports", r} \cap blurred = {} =>
                            \A q \in Routes \ blurred : Rivals(q, r) => loc'[v].rte.proposal \notin Prospects(route'[q])
                      /\ {"ports", r, StreamOf[r]} \cap blurred = {} =>
                            \/ stream'[StreamOf[r]] = NoStream
                            \/ <<TransportOf[r], loc'[v].rte.proposal>> \in stream'[StreamOf[r]].ports
    BY <1>0 DEF PortChecked, At, Rivals, Prospects
  <2>1. v # w /\ loc'[v] = loc[v] /\ loc[v].op \in PortOps
    BY <1>0, <1>p DEF Advances, Follows, InPlace
  <2>2. PICK r \in Routes : r = loc[v].id
    BY <1>0, <2>1 DEF InPlace
  <2>3. "ports" \notin blurred => loc[w].op \notin PortOps
    BY <2>1 DEF Alone
  <2>4. ASSUME {"ports", r} \cap blurred = {}, NEW q \in Routes \ blurred, Rivals(q, r)
        PROVE  loc[v].rte.proposal \notin Prospects(route'[q])
    <3>1. loc[v].rte.proposal \notin Prospects(route[q])
      BY <2>1, <2>2, <2>4 DEF RoutesInv, PortChecked, At
    <3>2. Prospects(route'[q]) \subseteq Prospects(route[q])
      BY <1>r, <2>3, <2>4
    <3> QED  BY <3>1, <3>2
  <2>5. ASSUME {"ports", r, StreamOf[r]} \cap blurred = {}
        PROVE  \/ stream'[StreamOf[r]] = NoStream
               \/ <<TransportOf[r], loc[v].rte.proposal>> \in stream'[StreamOf[r]].ports
    <3>0. PICK s \in Streams : s = StreamOf[r]
      BY <1>0
    <3>1. stream[s] = NoStream \/ <<TransportOf[r], loc[v].rte.proposal>> \in stream[s].ports
      BY <2>1, <2>2, <2>5, <3>0 DEF RoutesInv, PortChecked, At
    <3>2. stream'[s] = NoStream \/ (stream'[s].ports = stream[s].ports /\ (stream[s] = NoStream => stream'[s] = NoStream))
      BY <1>p, <2>3, <2>5, <3>0, ClaimWrites
    <3> QED  BY <3>0, <3>1, <3>2
  <2> QED  BY <2>1, <2>2, <2>4, <2>5
<1>5. NeedsCovered'
  <2> SUFFICES ASSUME NEW v \in Workers, loc'[v].at = "storeStream", loc'[v].op = "updateStream",
                      {"ports", loc'[v].id} \cap blurred = {}, NEW r \in Routes \ blurred, StreamOf[r] = loc'[v].id,
                      NEW p \in Prospects(route'[r])
               PROVE  <<TransportOf[r], p>> \in loc'[v].str.ports
    BY <1>0 DEF NeedsCovered, At, Prospects
  <2>1. v # w /\ loc'[v] = loc[v]
    BY <1>0 DEF Advances, Follows
  <2>2. loc[w].op \notin PortOps
    BY <1>p, <2>1 DEF Alone
  <2>3. p \in Prospects(route[r])
    BY <1>r, <2>2
  <2> QED  BY <2>1, <2>3 DEF RoutesInv, NeedsCovered, At
<1> QED  BY <1>1, <1>2, <1>3, <1>4, <1>5 DEF RoutesInv

\* A request that is taken up has checked the ports against what the routes may
\* be deployed on.
LEMMA RoutesByTaking ==
    ASSUME TypedInv, RoutesInv, NEW w \in Workers, NEW l, Takes(w, l)
    PROVE  RoutesInv'
<1>0. /\ loc'[w] = l /\ (\A v \in Workers \ {w} : loc'[v] = loc[v]) /\ InPlace(l)
      /\ route' = route /\ stream' = stream /\ blurred \subseteq blurred' /\ StreamOf \in [Routes -> Streams]
  BY Taken, InputsAssumption DEF Takes
<1>1. ProspectsApart' /\ ProspectsClaimed'
  BY <1>0 DEF RoutesInv, ProspectsApart, ProspectsClaimed, Rivals, Prospects
<1>2. Undeployed'
  <2>1. l.at = "storeRoute" /\ l.op = "createRoute" => route[l.id] = NoRoute
    BY DEF Takes, Startable, Reconciling
  <2> QED  BY <1>0, <2>1 DEF RoutesInv, Undeployed, At
<1>3. PortChecked'
  <2>1. ASSUME l.at = "storeRoute"
        PROVE  LET r == l.id IN
               /\ \A q \in Routes \ blurred : Rivals(q, r) => l.rte.proposal \notin Prospects(route[q])
               /\ <<TransportOf[r], l.rte.proposal>> \in stream[StreamOf[r]].ports
    <3>1. CheckRoutePort(l.id, l.rte.proposal)
      BY <2>1 DEF Takes, Startable, Reconciling
    <3>2. ASSUME NEW q \in Routes \ blurred, Rivals(q, l.id), l.rte.proposal \in Prospects(route[q])
          PROVE  FALSE
      <4>1. <<TransportOf[q], l.rte.proposal>> \in UsedPortsByStream(StreamOf[q], l.id)
        BY <3>2, ProspectsUsed DEF Rivals, RoutesInv
      <4> QED  BY <3>1, <3>2, <4>1 DEF Rivals, CheckRoutePort
    <3> QED  BY <3>1, <3>2 DEF CheckRoutePort
  <2> SUFFICES ASSUME NEW v \in Workers, loc'[v].at = "storeRoute"
               PROVE  LET r == loc'[v].id IN
                      /\ {"ports", r} \cap blurred = {} =>
                            \A q \in Routes \ blurred : Rivals(q, r) => loc'[v].rte.proposal \notin Prospects(route[q])
                      /\ {"ports", r, StreamOf[r]} \cap blurred = {} =>
                            \/ stream[StreamOf[r]] = NoStream
                            \/ <<TransportOf[r], loc'[v].rte.proposal>> \in stream[StreamOf[r]].ports
    BY <1>0 DEF PortChecked, At, Rivals, Prospects
  <2>2. CASE v = w
    BY <1>0, <2>1, <2>2
  <2>3. CASE v # w
    BY <1>0, <2>3 DEF RoutesInv, PortChecked, At
  <2> QED  BY <2>2, <2>3
<1>4. NeedsCovered'
  <2>1. ASSUME l.at = "storeStream", l.op = "updateStream", NEW r \in Routes \ blurred, StreamOf[r] = l.id,
               NEW p \in Prospects(route[r])
        PROVE  <<TransportOf[r], p>> \in l.str.ports
    <3>1. UsedPortsByStream(l.id, None) \subseteq l.str.ports
      BY <2>1 DEF Takes, Startable, Reconciling
    <3>2. None # r
      BY NamesAssumption DEF None
    <3> QED  BY <2>1, <3>1, <3>2, ProspectsUsed DEF RoutesInv
  <2> SUFFICES ASSUME NEW v \in Workers, loc'[v].at = "storeStream", loc'[v].op = "updateStream",
                      {"ports", loc'[v].id} \cap blurred = {}, NEW r \in Routes \ blurred, StreamOf[r] = loc'[v].id,
                      NEW p \in Prospects(route[r])
               PROVE  <<TransportOf[r], p>> \in loc'[v].str.ports
    BY <1>0 DEF NeedsCovered, At, Prospects
  <2>2. CASE v = w
    BY <1>0, <2>1, <2>2
  <2>3. CASE v # w
    BY <1>0, <2>3 DEF RoutesInv, NeedsCovered, At
  <2> QED  BY <2>2, <2>3
<1> QED  BY <1>1, <1>2, <1>3, <1>4 DEF RoutesInv

LEMMA RoutesByActions ==
    ASSUME TypedInv, RoutesInv, NEW x \in Routes, RouteAction(x)
    PROVE  RoutesInv'
<1>1. PICK row \in RouteRows :
         /\ RouteStep(x, row) /\ route[x].status # None
         /\ row.status = None => row = NoRoute
         /\ Prospects(row) \subseteq Prospects(route[x])
         /\ row.status # "pending_create"
         /\ row.status = "rejected" => route[x].status = "pending_create" /\ row.deployed = route[x].deployed
  BY RouteActions
<1>2. /\ UNCHANGED <<stream, loc, blurred>> /\ route'[x] = row
      /\ \A r \in Routes \ {x} : route'[r] = route[r]
  BY <1>1 DEF RouteStep, TypedInv, StateTyped
<1>3. \A r \in Routes : Prospects(route'[r]) \subseteq Prospects(route[r])
  BY <1>1, <1>2
<1>4. ProspectsApart' /\ ProspectsClaimed'
  BY <1>2, <1>3 DEF RoutesInv, ProspectsApart, ProspectsClaimed, Rivals
<1>5. Undeployed'
  <2>1. \A r \in Routes \ blurred : route'[r].status \in {None, "rejected", "pending_create"} => route'[r].deployed = 0
    BY <1>1, <1>2, NoProspects DEF RoutesInv, Undeployed
  <2>2. \A r \in Routes : route[r] = NoRoute => route'[r] = NoRoute
    BY <1>1, <1>2, NoProspects
  <2>3. \A v \in Workers : loc[v].at = "storeRoute" => loc[v].id \in Routes
    BY DEF TypedInv, InPlace
  <2> QED  BY <1>2, <2>1, <2>2, <2>3 DEF RoutesInv, Undeployed, At
<1>6. PortChecked'
  BY <1>2, <1>3 DEF RoutesInv, PortChecked, Rivals, At
<1>7. NeedsCovered'
  BY <1>2, <1>3 DEF RoutesInv, NeedsCovered, At
<1> QED  BY <1>4, <1>5, <1>6, <1>7 DEF RoutesInv

LEMMA RoutesKept ==
    ASSUME TypedInv, Alone, ClaimsInv, RoutesInv, [Next]_vars
    PROVE  RoutesInv'
<1>1. CASE Restart
  <2>1. (\A v \in Workers : loc'[v] = Idle) /\ UNCHANGED <<route, stream, blurred>>
    BY <1>1 DEF Restart, rows
  <2>2. ProspectsApart' /\ ProspectsClaimed'
    BY <2>1 DEF RoutesInv, ProspectsApart, ProspectsClaimed, Rivals, Prospects
  <2>3. Undeployed' /\ PortChecked' /\ NeedsCovered'
    BY <2>1 DEF RoutesInv, Undeployed, PortChecked, NeedsCovered, At, Idle
  <2> QED  BY <2>2, <2>3 DEF RoutesInv
<1>2. ASSUME UNCHANGED <<route, stream, loc>>, blurred \subseteq blurred'
      PROVE  RoutesInv'
  <2>1. ProspectsApart' /\ ProspectsClaimed'
    BY <1>2 DEF RoutesInv, ProspectsApart, ProspectsClaimed, Rivals, Prospects
  <2>2. Undeployed'
    BY <1>2 DEF RoutesInv, Undeployed, At
  <2>3. PortChecked'
    BY <1>2 DEF RoutesInv, PortChecked, Rivals, Prospects, At
  <2>4. NeedsCovered'
    BY <1>2 DEF RoutesInv, NeedsCovered, Prospects, At
  <2> QED  BY <2>1, <2>2, <2>3, <2>4 DEF RoutesInv
<1>3. \A s \in Streams : Passes(s) => UNCHANGED <<route, stream, loc>> /\ blurred \subseteq blurred'
  BY DEF Passes, rows
<1>4. UNCHANGED vars => UNCHANGED <<route, stream, loc, blurred>>
  BY DEF vars, rows
<1> QED  BY <1>1, <1>2, <1>3, <1>4, RoutesByActions, RoutesBySteps, RoutesByTaking, NextCases

\* The port that a route was deployed on stays a claim of its stream, and of two
\* routes at most one is deployed on it, also while an approved move of the
\* route waits for its deploy.
THEOREM DeployedHeld == Spec => []DeployedPortsHeld
<1> DEFINE Inv == TypedInv /\ Alone /\ ClaimsInv /\ RoutesInv
<1>1. Init => Inv
  BY TypedAtFirst, AloneAtFirst, ClaimsAtFirst, RoutesAtFirst
<1>2. Inv /\ [Next]_vars => Inv'
  BY TypedKept, AloneKept, ClaimsKept, RoutesKept
<1>3. Inv => DeployedPortsHeld
  <2> SUFFICES ASSUME RoutesInv
               PROVE  DeployedPortsHeld
    OBVIOUS
  <2>1. \A r \in Routes : route[r].deployed # 0 => route[r].deployed \in Prospects(route[r])
    BY DEF Prospects
  <2> QED  BY <2>1 DEF RoutesInv, ProspectsApart, ProspectsClaimed, Rivals, DeployedPortsHeld
<1> QED  BY <1>1, <1>2, <1>3, PTL DEF Spec

---------------------------------------------------------------------------
\* Who writes the Gateway of a stream.
LEMMA LiveWrites ==
    ASSUME TypedInv, NEW w \in Workers, Step(w), NEW s \in Streams
    PROVE  live'[s] # live[s] => loc[w].id = s
<1>0. live \in [Domains \cup Streams -> SUBSET Claims]
  BY DEF TypedInv, StateTyped
<1> QED  BY <1>0, StepsWrite DEF ApplyStream, DeleteGateway

\* The request of a stream that ends leaves the Gateway with the claims.
LEMMA StreamsEnd ==
    ASSUME TypedInv, ClaimsInv, LiveInv, NEW w \in Workers, Step(w), NEW s \in Streams, s \notin reconcile,
           s \notin blurred', loc[w].id = s, loc'[w] = Idle, stream'[s].status = "active",
           \A v \in Workers : loc[v].id = s => v = w
    PROVE  live'[s] = stream'[s].ports
<1>0. loc[w] \in Locals /\ InPlace(loc[w]) /\ stream \in [Streams -> StreamRows] /\ NoStream.status # "active"
        /\ (~HasTemplate => stream[s] = NoStream) /\ s \notin blurred
  BY StepsWrite DEF TypedInv, StateTyped, RowsWhole, InUse, NoStream, None
<1>1. CASE InsertStream(w)
  <2>1. stream[s] = NoStream
    BY <1>0, <1>1 DEF LiveInv, InsertStream
  <2>2. ~HasTemplate
    BY <1>0, <1>1, <2>1 DEF InsertStream, Goto, At, Idle, Locals, TypedInv, StateTyped
  <2> QED  BY <1>0, <1>1, <2>1, <2>2 DEF InsertStream
<1>2. CASE StoreStream(w)
  <2>1. loc[w].at = "storeStream" /\ live' = live
    BY <1>2 DEF StoreStream, At, cluster
  <2>2. HasTemplate
    BY <1>0, <1>2 DEF StoreStream
  <2>3. loc[w].op = "renameStream"
    BY <1>0, <1>2, <2>2 DEF StoreStream, Goto, Idle, Locals, TypedInv, StateTyped
  <2>4. stream'[s] = stream[s]
    BY <1>0, <1>2, <2>2, <2>1, <2>3 DEF StoreStream, ClaimsInv, RenamesKeep, At
  <2>5. Unwritten(s)
    BY <2>1 DEF Unwritten
  <2> QED  BY <1>0, <2>1, <2>4, <2>5 DEF LiveInv
<1>3. CASE StreamStatus(w)
  <2>1. loc[w].at = "streamStatus" /\ live' = live
    BY <1>3 DEF StreamStatus, At, cluster
  <2>2. stream' = IF stream[s] = NoStream THEN stream ELSE [stream EXCEPT ![s].status = loc[w].str.status]
    BY <1>3 DEF StreamStatus, Blur
  <2>3. stream[s] # NoStream
    BY <1>0, <2>2
  <2>4. /\ [stream[s] EXCEPT !.status = loc[w].str.status].ports = stream[s].ports
        /\ [stream[s] EXCEPT !.status = loc[w].str.status].status = loc[w].str.status
    BY <1>0 DEF StreamRows
  <2>5. stream'[s].ports = stream[s].ports /\ loc[w].str.status = "active"
    BY <1>0, <2>2, <2>3, <2>4
  <2> QED  BY <1>0, <2>1, <2>5 DEF LiveInv, At
<1>4. CASE DeleteRow(w)
  <2>1. s \notin Domains
    BY NamesAssumption
  <2> QED  BY <1>0, <1>4, <2>1 DEF DeleteRow
<1>5. CASE ApplyStream(w) \/ DeleteGateway(w)
  BY <1>0, <1>5 DEF ApplyStream, DeleteGateway, Goto, Idle, Locals, TypedInv, StateTyped
<1>6. loc[w].at \notin TemplateLabels \cup DomainLabels \cup {"storeRoute"}
  BY <1>0, NamesAssumption DEF InPlace
<1> QED
  BY <1>1, <1>2, <1>3, <1>4, <1>5, <1>6 DEF Step, InsertTemplate, CreateEnvoyProxy, CreateGatewayClass, TemplateCallFails,
        SaveTemplate, ReplaceProxy, DeleteClass, DeleteTemplateRow, InsertDomain, CreateGateway, StoreDomain, ApplyGateway,
        GatewayCallFails, SaveDomain, StoreRoute, At, TemplateLabels, DomainLabels

LEMMA LiveAtFirst ==
    ASSUME Init
    PROVE  LiveInv
<1>1. (\A w \in Workers : loc[w] = Idle) /\ \A s \in Streams : live[s] = stream[s].ports
  BY DEF Init
<1> QED  BY <1>1 DEF LiveInv, At, Idle

LEMMA LiveBySteps ==
    ASSUME TypedInv, Alone, ClaimsInv, LiveInv, NEW w \in Workers, Step(w)
    PROVE  LiveInv'
<1>0. /\ blurred \subseteq blurred' /\ reconcile' = reconcile /\ Advances(w) /\ Follows(loc[w].at, loc'[w].at)
      /\ \A v \in Workers : InPlace(loc[v]) /\ loc[v] \in Locals
      /\ Idle.id \notin Streams /\ Idle.at = "idle" /\ stream \in [Streams -> StreamRows]
  BY StepsWrite, StepsAdvance, NamesAssumption DEF TypedInv, StateTyped, Idle, None
<1>b. \A v \in Workers : loc[v].id \in Streams => loc[v].at # "idle"
  BY <1>0 DEF InPlace
<1>1. ASSUME NEW s \in Streams, s \notin reconcile, s \notin blurred', stream'[s].status = "active", Unwritten(s)'
      PROVE  live'[s] = stream'[s].ports
  <2>1. CASE loc[w].id # s
    <3>1. stream'[s] = stream[s] /\ live'[s] = live[s]
      BY <2>1, StreamWrites, LiveWrites
    <3>2. Unwritten(s)
      BY <1>0, <1>1, <2>1 DEF Unwritten, Advances
    <3> QED  BY <1>0, <1>1, <3>1, <3>2 DEF LiveInv
  <2>2. CASE loc[w].id = s
    <3>1. \A v \in Workers : loc[v].id = s => v = w
      BY <1>0, <1>1, <1>b, <2>2 DEF Alone, At
    <3>2. loc'[w] = Idle
      BY <1>0, <1>1, <2>2 DEF Advances, Unwritten, Follows
    <3> QED  BY <1>1, <2>2, <3>1, <3>2, StreamsEnd
  <2> QED  BY <2>1, <2>2
<1>2. ASSUME NEW v \in Workers, loc'[v].id \notin blurred', v # w
      PROVE  /\ loc'[v].at = "insertStream" => stream'[loc'[v].id] = NoStream
             /\ loc'[v].at = "applyStream" => loc'[v].str.ports = stream'[loc'[v].id].ports
             /\ loc'[v].at = "streamStatus" /\ loc'[v].str.status = "active" => live'[loc'[v].id] = stream'[loc'[v].id].ports
  <2>1. loc'[v] = loc[v] /\ loc[v].id \notin blurred
    BY <1>0, <1>2 DEF Advances
  <2>2. SUFFICES ASSUME loc[v].at \in StreamLabels
                 PROVE  stream'[loc[v].id] = stream[loc[v].id] /\ live'[loc[v].id] = live[loc[v].id]
    BY <1>0, <2>1 DEF LiveInv, At, StreamLabels
  <2>3. PICK s \in Streams : s = loc[v].id
    BY <1>0, <2>2 DEF InPlace
  <2>4. loc[w].id # s
    BY <1>2, <1>b, <2>1, <2>3 DEF Alone, At
  <2> QED  BY <2>3, <2>4, StreamWrites, LiveWrites
<1>3. ASSUME loc'[w].id \notin blurred'
      PROVE  /\ loc'[w].at # "insertStream"
             /\ loc'[w].at = "applyStream" => loc'[w].str.ports = stream'[loc'[w].id].ports
             /\ loc'[w].at = "streamStatus" /\ loc'[w].str.status = "active" => live'[loc'[w].id] = stream'[loc'[w].id].ports
  <2>1. CASE loc'[w].at = "applyStream"
    <3>1. loc[w].at \in {"insertStream", "storeStream"} /\ loc'[w].id = loc[w].id /\ loc'[w].str.ports = loc[w].str.ports
            /\ loc'[w] # Idle
      BY <1>0, <2>1 DEF Advances, Follows
    <3>2. InsertStream(w) \/ StoreStream(w)
      BY <3>1 DEF Step, InsertTemplate, CreateEnvoyProxy, CreateGatewayClass, TemplateCallFails, SaveTemplate, ReplaceProxy,
        DeleteClass, DeleteTemplateRow, InsertDomain, CreateGateway, StoreDomain, ApplyGateway, GatewayCallFails, SaveDomain,
        DeleteGateway, DeleteRow, ApplyStream, StreamStatus, StoreRoute, At
    <3>3. ~Return(w)
      BY <3>1 DEF Return, TypedInv, StateTyped
    <3>4. PICK s \in Streams : s = loc[w].id
      BY <1>0, <3>1 DEF InPlace, StreamLabels
    <3>5. stream'[s] = loc[w].str
      BY <1>0, <3>2, <3>3, <3>4 DEF InsertStream, StoreStream
    <3> QED  BY <2>1, <3>1, <3>4, <3>5
  <2>2. CASE loc'[w].at = "streamStatus" /\ loc'[w].str.status = "active"
    <3>1. loc[w].at = "applyStream" /\ loc'[w].id = loc[w].id
      BY <1>0, <2>2 DEF Advances, Follows
    <3>2. ApplyStream(w)
      BY <3>1 DEF Step, InsertTemplate, CreateEnvoyProxy, CreateGatewayClass, TemplateCallFails, SaveTemplate, ReplaceProxy,
        DeleteClass, DeleteTemplateRow, InsertDomain, CreateGateway, StoreDomain, ApplyGateway, GatewayCallFails, SaveDomain,
        DeleteGateway, DeleteRow, InsertStream, StoreStream, StreamStatus, StoreRoute, At
    <3>3. PICK s \in Streams : s = loc[w].id
      BY <1>0, <3>1 DEF InPlace, StreamLabels
    <3>4. [loc[w].str EXCEPT !.status = "error"].status = "error"
      BY <1>0 DEF Locals, StreamRows
    <3>5. live' = [live EXCEPT ![s] = loc[w].str.ports]
      BY <1>0, <2>2, <3>2, <3>3, <3>4 DEF ApplyStream, TypedInv, StateTyped, Locals, StreamRows
    <3>6. live'[s] = loc[w].str.ports /\ stream' = stream
      BY <3>2, <3>5 DEF ApplyStream, rows, TypedInv, StateTyped
    <3>7. loc[w].str.ports = stream[s].ports
      BY <1>0, <1>3, <3>1, <3>3 DEF LiveInv, At
    <3> QED  BY <2>2, <3>1, <3>3, <3>6, <3>7
  <2>3. loc'[w].at # "insertStream"
    BY <1>0 DEF Follows
  <2> QED  BY <2>1, <2>2, <2>3
<1>4. (\A s \in Streams \ (reconcile \cup blurred) : stream[s].status = "active" /\ Unwritten(s) => live[s] = stream[s].ports)'
  BY <1>0, <1>1
<1> QED  BY <1>2, <1>3, <1>4 DEF LiveInv, At

LEMMA LiveKept ==
    ASSUME TypedInv, Alone, ClaimsInv, LiveInv, [Next]_vars
    PROVE  LiveInv'
<1>0. NoStream.status # "active" /\ Idle.id \notin Streams
  BY NamesAssumption DEF NoStream, None, Idle
<1>1. CASE Restart
  <2>1. /\ (\A v \in Workers : loc'[v] = Idle) /\ UNCHANGED <<stream, blurred, live>>
        /\ reconcile' = {s \in Streams : stream[s] # NoStream}
    BY <1>1 DEF Restart, rows, cluster
  <2> QED  BY <1>0, <2>1 DEF LiveInv, At, Idle
<1>2. ASSUME UNCHANGED <<stream, live, loc>>, blurred \subseteq blurred',
             \A s \in Streams : s \in reconcile /\ s \notin reconcile' => stream[s] = NoStream
      PROVE  LiveInv'
  BY <1>0, <1>2 DEF LiveInv, At, Unwritten
<1>3. \A r \in Routes : RouteAction(r) => UNCHANGED <<stream, live, loc, blurred, reconcile>>
  BY RouteActions DEF RouteStep, cluster
<1>4. \A s \in Streams : Passes(s) => /\ UNCHANGED <<stream, live, loc>> /\ blurred \subseteq blurred'
                                      /\ \A t \in Streams : t \in reconcile /\ t \notin reconcile' => stream[t] = NoStream
  BY DEF Passes, rows
<1>5. ASSUME NEW w \in Workers, NEW l, Takes(w, l)
      PROVE  LiveInv'
  <2>1. /\ loc'[w] = l /\ loc[w] = Idle /\ (\A v \in Workers \ {w} : loc'[v] = loc[v])
        /\ stream' = stream /\ live' = live /\ blurred \subseteq blurred'
    BY <1>5, Taken DEF Takes
  <2>2. \A s \in Streams : s \in reconcile /\ s \notin reconcile' => l.id = s /\ l.at = "applyStream"
    BY <1>5 DEF Takes, Reconciling
  <2>3. /\ l.at = "insertStream" => stream[l.id] = NoStream
        /\ l.at = "applyStream" => l.str = stream[l.id]
        /\ l.at # "streamStatus"
    BY <1>5 DEF Takes, Startable, Reconciling
  <2>4. ASSUME NEW s \in Streams, s \notin reconcile', s \notin blurred, stream[s].status = "active", Unwritten(s)'
        PROVE  live[s] = stream[s].ports
    <3>1. Unwritten(s)
      BY <1>0, <2>1, <2>4 DEF Unwritten
    <3>2. s \notin reconcile
      BY <2>1, <2>2, <2>4 DEF Unwritten
    <3> QED  BY <2>4, <3>1, <3>2 DEF LiveInv
  <2>5. (\A s \in Streams \ (reconcile \cup blurred) : stream[s].status = "active" /\ Unwritten(s) => live[s] = stream[s].ports)'
    BY <2>1, <2>4
  <2> QED  BY <2>1, <2>3, <2>5 DEF LiveInv, At
<1>6. UNCHANGED vars => UNCHANGED <<stream, live, loc, blurred, reconcile>>
  BY DEF vars, rows, cluster
<1> QED  BY <1>1, <1>2, <1>3, <1>4, <1>5, <1>6, LiveBySteps, NextCases

\* A stream that is active, that nobody works on and that the reconciliation has
\* passed has exactly its claims as listeners, also after a restart between the
\* row and the Gateway.
THEOREM SettledLive == Spec => []SettledStreamIsLive
<1> DEFINE Inv == TypedInv /\ Alone /\ ClaimsInv /\ LiveInv
<1>1. Init => Inv
  BY TypedAtFirst, AloneAtFirst, ClaimsAtFirst, LiveAtFirst
<1>2. Inv /\ [Next]_vars => Inv'
  BY TypedKept, AloneKept, ClaimsKept, LiveKept
<1>3. Inv => SettledStreamIsLive
  BY DEF LiveInv, Unwritten, SettledStreamIsLive
<1> QED  BY <1>1, <1>2, <1>3, PTL DEF Spec

\* The inductive invariant of the module, as a whole.
THEOREM GatewaysInvariant == Spec => []GatewaysInv
<1>1. Init => GatewaysInv
  BY TypedAtFirst, AloneAtFirst, ClaimsAtFirst, RoutesAtFirst, LiveAtFirst DEF GatewaysInv
<1>2. GatewaysInv /\ [Next]_vars => GatewaysInv'
  BY TypedKept, AloneKept, ClaimsKept, RoutesKept, LiveKept DEF GatewaysInv
<1> QED  BY <1>1, <1>2, PTL DEF Spec
=============================================================================
