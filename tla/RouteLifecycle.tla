--------------------------- MODULE RouteLifecycle ---------------------------
(***************************************************************************)
(* One route, from its submission to its removal from Kubernetes: the      *)
(* write service (Create, Update, Delete), the approval callbacks          *)
(* (OnApproved, OnRejected, OnCancelled), Deploy, and the requests of other*)
(* services that queue a redeploy (client cascade, client attachment).     *)
(*                                                                         *)
(* A worker is one HTTP request at a time.  It makes one database or       *)
(* Kubernetes call per step and keeps what it read in `loc'; repositories  *)
(* write whole rows (gorm Save), so a worker that saves a route writes back*)
(* every column it read earlier, and re-creates a row that is gone.  With  *)
(* one worker requests are served one after the other and only the errors  *)
(* of single calls (Fail) cut a request short; with two they interleave.   *)
(*                                                                         *)
(* An operator named Def_Bug is Def with a plausible bug in it; no         *)
(* specification uses it, the mutation runs put it in the place of Def.    *)
(*                                                                         *)
(* A submission is a revision number: revision r stands for the config and *)
(* the security policy of submission r, and for the approval it opens.     *)
(* Revisions are given out in the order approvals are created, which is    *)
(* the order of created_at.  The stages of an approval are the business of *)
(* ApprovalEngine; here a decision is one read, one save and the callback. *)
(***************************************************************************)
EXTENDS Integers, FiniteSets, RouteState

CONSTANTS
    Workers,      \* requests being served at the same time
    Ops,          \* the requests that clients send
    MaxRev,       \* bound: submissions that open an approval
    MaxFailures   \* bound: database or Kubernetes calls that fail

Decisions == {"approve", "reject", "cancel"}
Requeues == {"cascade", "attach"}
Actions == {"create", "update", "delete"}

ASSUME WorkersAssumption == IsFiniteSet(Workers)
ASSUME OpsAssumption ==
    Ops \subseteq Actions \cup Decisions \cup Requeues \cup {"deploy", "toggle"}
ASSUME BoundsAssumption == MaxRev \in Nat \ {0} /\ MaxFailures \in Nat

VARIABLES
    row,             \* routes: status and config, NoRow when there is none
    policies,        \* security_policies: the revision stored, 0 for none
    approvals,       \* approvals of the route, by revision
    approvalEnabled, \* projects.approval_enabled
    k8s,             \* the HTTPRoute and the SecurityPolicy in the cluster
    lastRev,         \* the last revision given out
    granted,         \* history: revisions whose config was ever approved
    grantedDeletes,  \* history: revisions that delete and were ever approved
    override,        \* history: what last bypassed the route's approvals
    overlooked,      \* history: a pending approval was missed by a failing look-up
    pc,              \* what each worker does next
    loc,             \* what each worker has read
    failures         \* calls that have failed so far

vars == <<row, policies, approvals, approvalEnabled, k8s, lastRev, granted,
          grantedDeletes, override, overlooked, pc, loc, failures>>
history == <<granted, grantedDeletes, override, overlooked>>

Revs == 1..MaxRev
NoRow == [status |-> "none", config |-> 0]
NoApproval == [action |-> "create", status |-> "none"]
ApprovalStatus == {"pending", "approved", "rejected", "cancelled"}
Overrides == {"none", "cancel", "attach"}

Rows == [status : RouteStatus, config : Revs] \cup {NoRow}
Approvals == [action : Actions, status : ApprovalStatus] \cup {NoApproval}
PCs == {"idle", "getPending", "setPending", "getProject", "fastPath", "submit",
        "persistPolicies", "saveApproval", "complete", "saveRoute",
        "getAction", "applyRoute", "applyPolicies", "finish", "removePolicies",
        "removeRoute", "deleteApprovals", "deleteRow", "requeue"}

\* op: the request; rev: the submission or approval it is about; action: the
\* approval's action; row: the route as it was read, with the changes since.
Locals == [op : Actions \cup Decisions \cup Requeues \cup {"deploy", "none"},
           rev : 0..MaxRev, action : Actions, row : Rows]
Idle == [op |-> "none", rev |-> 0, action |-> "create", row |-> NoRow]

HasRow == row # NoRow
WithStatus(s) == {r \in Revs : approvals[r].status = s}
HasPending == WithStatus("pending") # {}

Init ==
    /\ row = NoRow
    /\ policies = 0
    /\ approvals = [r \in Revs |-> NoApproval]
    /\ approvalEnabled \in BOOLEAN
    /\ k8s = [route |-> 0, policies |-> 0]
    /\ lastRev = 0
    /\ granted = {}
    /\ grantedDeletes = {}
    /\ override = "none"
    /\ overlooked = FALSE
    /\ pc = [w \in Workers |-> "idle"]
    /\ loc = [w \in Workers |-> Idle]
    /\ failures = 0

At(w, label) == pc[w] = label /\ UNCHANGED failures
CallFails == failures < MaxFailures /\ failures' = failures + 1
Goto(w, label, locals) ==
    /\ pc' = [pc EXCEPT ![w] = label]
    /\ loc' = [loc EXCEPT ![w] = locals]
Continue(w, label) == Goto(w, label, loc[w])
Return(w) == Goto(w, "idle", Idle)

\* A handler that starts by reading the route.
Reading(op) == [op |-> op, rev |-> 0, action |-> "update", row |-> row]

\* A request comes in and makes its first read.
Begin(w, op) == op \in Ops /\ At(w, "idle")

\* RouteRepository.Update: Save writes the whole row as the worker holds it.
Save(r, s) == row' = [r EXCEPT !.status = s]

---------------------------------------------------------------------------
(* Create, Update and Delete: route_write_service.go, route_write_approval.go *)

\* create inserts the row with the submitted config before it asks anyone.
\* The module follows one route id, so there is one create.
Create(w) ==
    /\ Begin(w, "create")
    /\ lastRev = 0
    /\ row' = [status |-> "pending_create", config |-> 1]
    /\ lastRev' = 1
    /\ Goto(w, "getProject",
            [op |-> "create", rev |-> 1, action |-> "create", row |-> row'])
    /\ UNCHANGED <<policies, approvals, approvalEnabled, k8s, history>>

\* Update and Delete read the row first.
BeginChange(w, op) ==
    /\ Begin(w, op)
    /\ HasRow /\ lastRev < MaxRev
    /\ Goto(w, "getPending", [op |-> op, rev |-> 0, action |-> op, row |-> row])
    /\ UNCHANGED <<row, policies, approvals, approvalEnabled, k8s, lastRev, history>>

GetPending_Ignored(w) ==
    /\ At(w, "getPending")
    /\ Continue(w, "setPending")
    /\ UNCHANGED <<row, policies, approvals, approvalEnabled, k8s, lastRev, history>>

\* "there is already a pending approval for this route".  The handler goes on
\* when the look-up fails, as when there is none.
GetPending(w) ==
    /\ pc[w] = "getPending"
    /\ \/ /\ IF HasPending THEN Return(w) ELSE Continue(w, "setPending")
          /\ UNCHANGED <<failures, overlooked>>
       \/ /\ CallFails
          /\ overlooked' = (overlooked \/ HasPending)
          /\ Continue(w, "setPending")
    /\ UNCHANGED <<row, policies, approvals, approvalEnabled, k8s, lastRev, granted,
                   grantedDeletes, override>>

SetPending_WithConfig(w) ==
    /\ At(w, "setPending")
    /\ LET next == IF loc[w].op = "update" THEN "pending_update" ELSE "pending_delete"
           seen == [loc[w].row EXCEPT !.config = IF loc[w].op = "update"
                                                 THEN lastRev + 1 ELSE @]
       IN  /\ Save(seen, next)
           /\ Goto(w, "getProject", [loc[w] EXCEPT !.row = [seen EXCEPT !.status = next]])
    /\ UNCHANGED <<policies, approvals, approvalEnabled, k8s, lastRev, history>>

SetPending_UpdateOnly(w) ==
    /\ At(w, "setPending")
    /\ IF loc[w].op = "delete" THEN UNCHANGED row ELSE Save(loc[w].row, "pending_update")
    /\ Continue(w, "getProject")
    /\ UNCHANGED <<policies, approvals, approvalEnabled, k8s, lastRev, history>>

\* The status moves before the approval is submitted.  The submitted config
\* stays out of the row.  Update saves description and labels even when the
\* status is already there; Delete then writes nothing.
SetPending(w) ==
    /\ At(w, "setPending")
    /\ LET op   == loc[w].op
           next == IF op = "update" THEN "pending_update" ELSE "pending_delete"
           site == IF op = "update" THEN "RouteUpdate" ELSE "RouteDelete"
           seen == loc[w].row
       IN  IF Allowed(site, seen.status, next)
           THEN /\ IF op = "delete" /\ seen.status = next
                   THEN UNCHANGED row
                   ELSE Save(seen, next)
                /\ Goto(w, "getProject", [loc[w] EXCEPT !.row.status = next])
           ELSE UNCHANGED row /\ Return(w)
    /\ UNCHANGED <<policies, approvals, approvalEnabled, k8s, lastRev, history>>

\* The head of submitCreateApproval, submitUpdateApproval, submitDeleteApproval.
\* An attachment reads it too; with approvals on, the route waits for its approval.
GetProject(w) ==
    /\ At(w, "getProject")
    /\ CASE loc[w].op = "attach" ->
               IF approvalEnabled THEN Return(w) ELSE Continue(w, "requeue")
         [] OTHER -> Continue(w, IF approvalEnabled THEN "submit" ELSE "fastPath")
    /\ UNCHANGED <<row, policies, approvals, approvalEnabled, k8s, lastRev, history>>

\* Approvals are disabled: the status moves on and the handler returns, before
\* any policy is stored; an update's config is dropped with the handler.
FastPath(w) ==
    /\ At(w, "fastPath")
    /\ LET op   == loc[w].op
           next == IF op = "create" THEN "approved" ELSE "pending_deploy"
       IN  /\ Save(loc[w].row, next)
           /\ granted' = IF op = "create" THEN granted \cup {1} ELSE granted
    /\ Return(w)
    /\ UNCHANGED <<policies, approvals, approvalEnabled, k8s, lastRev, grantedDeletes,
                   override, overlooked>>

\* Engine.Submit stores a pending approval with the submitted snapshot.
Submit(w) ==
    /\ At(w, "submit")
    /\ LET op  == loc[w].op
           rev == IF op = "create" THEN 1 ELSE lastRev + 1
       IN  /\ rev \in Revs
           /\ approvals' = [approvals EXCEPT ![rev] =
                                [action |-> op, status |-> "pending"]]
           /\ lastRev' = IF op = "create" THEN lastRev ELSE rev
           /\ IF op = "delete" THEN Return(w)
              ELSE Goto(w, "persistPolicies", [loc[w] EXCEPT !.rev = rev])
    /\ UNCHANGED <<row, policies, approvalEnabled, k8s, history>>

\* persistCreatePolicies, persistUpdatePolicies: stored while the approval is
\* still pending.  Without the row the foreign key fails the insert.
PersistPolicies(w) ==
    /\ At(w, "persistPolicies")
    /\ policies' = IF HasRow THEN loc[w].rev ELSE policies
    /\ Return(w)
    /\ UNCHANGED <<row, approvals, approvalEnabled, k8s, lastRev, history>>

---------------------------------------------------------------------------
(* Decisions: Engine.ApproveStage, RejectStage and Cancel, route_approval.go *)

Accepts(op) == IF op = "cancel" THEN {"pending", "approved"} ELSE {"pending"}
Outcome(op) == CASE op = "approve" -> "approved"
                 [] op = "reject"  -> "rejected"
                 [] OTHER          -> "cancelled"

BeginDecision(w, op, r) ==
    /\ Begin(w, op)
    /\ approvals[r].status \in Accepts(op)
    /\ Goto(w, "saveApproval", [op |-> op, rev |-> r, row |-> NoRow,
                                action |-> approvals[r].action])
    /\ UNCHANGED <<row, policies, approvals, approvalEnabled, k8s, lastRev, history>>

SaveApproval(w) ==
    /\ At(w, "saveApproval")
    /\ LET me == loc[w] IN
       /\ approvals' = [approvals EXCEPT ![me.rev] =
                            [action |-> me.action, status |-> Outcome(me.op)]]
       /\ granted' = IF me.op = "approve" /\ me.action # "delete"
                     THEN granted \cup {me.rev} ELSE granted
       /\ grantedDeletes' = IF me.op = "approve" /\ me.action = "delete"
                            THEN grantedDeletes \cup {me.rev} ELSE grantedDeletes
       /\ override' = IF me.op = "cancel" /\ approvals[me.rev].status = "approved"
                      THEN "cancel" ELSE override
    /\ Continue(w, "complete")
    /\ UNCHANGED <<row, policies, approvalEnabled, k8s, lastRev, overlooked>>

\* The callback.  A cancelled create deletes the route, whatever its status;
\* the policy rows go with it (ON DELETE CASCADE).  The others read the row.
Complete(w) ==
    /\ At(w, "complete")
    /\ IF loc[w].op = "cancel" /\ loc[w].action = "create"
       THEN row' = NoRow /\ policies' = 0 /\ Return(w)
       ELSE /\ UNCHANGED <<row, policies>>
            /\ IF HasRow THEN Goto(w, "saveRoute", [loc[w] EXCEPT !.row = row])
               ELSE Return(w)
    /\ UNCHANGED <<approvals, approvalEnabled, k8s, lastRev, history>>

\* The status the callback moves the route to, and the site it does so at.
Target(op, action) ==
    CASE op = "approve" -> IF action = "create" THEN "approved" ELSE "pending_deploy"
      [] op = "reject" /\ action = "create" -> "rejected"
      [] OTHER -> "active"

CallbackSite(op) == CASE op = "approve" -> "ApprovalApproved"
                      [] op = "reject"  -> "ApprovalRejected"
                      [] OTHER          -> "ApprovalCancelled"

Snapshot_CreateOnly(me) ==
    IF me.op = "approve" /\ me.action = "create"
    THEN [me.row EXCEPT !.config = me.rev] ELSE me.row

\* applyRouteApprovalSnapshot, for an approved create or update.
Snapshot(me) ==
    IF me.op = "approve" /\ me.action # "delete"
    THEN [me.row EXCEPT !.config = me.rev] ELSE me.row

\* OnApproved saves the snapshot even when the status is already there; the
\* other callbacks leave the row alone then.  A refused transition is an
\* error to the caller: the approval stays decided.
SaveRoute(w) ==
    /\ At(w, "saveRoute")
    /\ LET me   == loc[w]
           next == Target(me.op, me.action)
           writes == /\ Allowed(CallbackSite(me.op), me.row.status, next)
                     /\ me.op = "approve" \/ me.row.status # next
       IN  IF writes THEN Save(Snapshot(me), next) ELSE UNCHANGED row
    /\ Return(w)
    /\ UNCHANGED <<policies, approvals, approvalEnabled, k8s, lastRev, history>>

---------------------------------------------------------------------------
(* Deploy: route_deploy_service.go *)

BeginDeploy(w) ==
    /\ Begin(w, "deploy")
    /\ row.status \in {"approved", "pending_deploy"}
    /\ Goto(w, "getAction", Reading("deploy"))
    /\ UNCHANGED <<row, policies, approvals, approvalEnabled, k8s, lastRev, history>>

\* GetLatestApprovedByEntityID: ORDER BY created_at DESC.
IsLatestApproved(r) ==
    r \in WithStatus("approved") /\ \A s \in WithStatus("approved") : s <= r

StartDeploy_CreateOnly(w, action) ==
    Goto(w, IF action = "create" THEN "applyRoute" ELSE "removePolicies",
         [loc[w] EXCEPT !.action = action])

StartDeploy(w, action) ==
    Goto(w, IF action = "delete" THEN "removePolicies" ELSE "applyRoute",
         [loc[w] EXCEPT !.action = action])

\* What to do is taken from the latest approved approval; a pending_deploy
\* route that has none, or whose approvals cannot be read, is deployed as an
\* update.
GetAction(w) ==
    /\ pc[w] = "getAction"
    /\ \/ /\ \E r \in Revs : IsLatestApproved(r) /\ StartDeploy(w, approvals[r].action)
          /\ UNCHANGED failures
       \/ /\ (WithStatus("approved") = {} /\ UNCHANGED failures) \/ CallFails
          /\ IF loc[w].row.status = "pending_deploy"
             THEN StartDeploy(w, "update") ELSE Return(w)
    /\ UNCHANGED <<row, policies, approvals, approvalEnabled, k8s, lastRev, history>>

\* CreateHTTPRoute updates an object that exists; UpdateHTTPRoute fails on one
\* that does not.
ApplyRoute(w) ==
    /\ At(w, "applyRoute")
    /\ IF loc[w].action = "update" /\ k8s.route = 0
       THEN UNCHANGED k8s /\ Return(w)
       ELSE k8s' = [k8s EXCEPT !.route = loc[w].row.config] /\ Continue(w, "applyPolicies")
    /\ UNCHANGED <<row, policies, approvals, approvalEnabled, lastRev, history>>

\* deploySecurityPolicy brings the cluster to what the table holds now.
ApplyPolicies(w) ==
    /\ At(w, "applyPolicies")
    /\ k8s' = [k8s EXCEPT !.policies = policies]
    /\ Continue(w, "finish")
    /\ UNCHANGED <<row, policies, approvals, approvalEnabled, lastRev, history>>

\* finishDeploy: the row read at the start is written back as active.
Finish(w) ==
    /\ At(w, "finish")
    /\ Save(loc[w].row, "active")
    /\ Return(w)
    /\ UNCHANGED <<policies, approvals, approvalEnabled, k8s, lastRev, history>>

\* deleteSecurityPolicy and its kin are best effort: an error is logged.
RemovePolicies(w) ==
    /\ pc[w] = "removePolicies"
    /\ policies' = 0
    /\ \/ k8s' = [k8s EXCEPT !.policies = 0] /\ UNCHANGED failures
       \/ CallFails /\ UNCHANGED k8s
    /\ Continue(w, "removeRoute")
    /\ UNCHANGED <<row, approvals, approvalEnabled, lastRev, history>>

RemoveRoute_BestEffort(w) ==
    /\ pc[w] = "removeRoute"
    /\ \/ k8s' = [k8s EXCEPT !.route = 0] /\ UNCHANGED failures
       \/ CallFails /\ UNCHANGED k8s
    /\ Continue(w, "deleteApprovals")
    /\ UNCHANGED <<row, policies, approvals, approvalEnabled, lastRev, history>>

\* DeleteHTTPRoute: an error ends the handler here, a missing object does not.
RemoveRoute(w) ==
    /\ At(w, "removeRoute")
    /\ k8s' = [k8s EXCEPT !.route = 0]
    /\ Continue(w, "deleteApprovals")
    /\ UNCHANGED <<row, policies, approvals, approvalEnabled, lastRev, history>>

\* DeleteByEntityID, best effort.
DeleteApprovals(w) ==
    /\ pc[w] = "deleteApprovals"
    /\ \/ approvals' = [r \in Revs |-> NoApproval] /\ UNCHANGED failures
       \/ CallFails /\ UNCHANGED approvals
    /\ Continue(w, "deleteRow")
    /\ UNCHANGED <<row, policies, approvalEnabled, k8s, lastRev, history>>

DeleteRow(w) ==
    /\ At(w, "deleteRow")
    /\ row' = NoRow /\ policies' = 0
    /\ Return(w)
    /\ UNCHANGED <<approvals, approvalEnabled, k8s, lastRev, history>>

---------------------------------------------------------------------------
(* Redeploys queued by other services: clients/client_cascade.go and         *)
(* clients/client_attachment_service.go                                      *)

\* A client's change (or an approved attachment) re-queues routes that are
\* active; attaching a client re-queues any route while approvals are off.
BeginRequeue(w, op) ==
    /\ Begin(w, op)
    /\ HasRow
    /\ op = "cascade" => row.status = "active"
    /\ Goto(w, IF op = "cascade" THEN "requeue" ELSE "getProject", Reading(op))
    /\ UNCHANGED <<row, policies, approvals, approvalEnabled, k8s, lastRev, history>>

Requeue(w) ==
    /\ At(w, "requeue")
    /\ LET seen == loc[w].row
           site == IF loc[w].op = "cascade" THEN "ClientCascade" ELSE "AttachFromRoute"
           writes == /\ Allowed(site, seen.status, "pending_deploy")
                     /\ seen.status # "pending_deploy"
       IN  /\ IF writes THEN Save(seen, "pending_deploy") ELSE UNCHANGED row
           /\ override' = IF writes /\ loc[w].op = "attach" THEN "attach" ELSE override
    /\ Return(w)
    /\ UNCHANGED <<policies, approvals, approvalEnabled, k8s, lastRev, granted,
                   grantedDeletes, overlooked>>

\* ProjectService.UpdateProject changes approval_enabled at any time.
Toggle ==
    /\ "toggle" \in Ops
    /\ approvalEnabled' = ~approvalEnabled
    /\ UNCHANGED <<row, policies, approvals, k8s, lastRev, history, pc, loc, failures>>

\* The worker's next call returns an error: the handler returns it, but for
\* the two look-ups of approvals.
Fail(w) ==
    /\ pc[w] \notin {"idle", "getPending", "getAction"}
    /\ CallFails
    /\ Return(w)
    /\ UNCHANGED <<row, policies, approvals, approvalEnabled, k8s, lastRev, history>>

Write(w) ==
    \/ Create(w) \/ \E op \in {"update", "delete"} : BeginChange(w, op)
    \/ GetPending(w) \/ SetPending(w) \/ GetProject(w) \/ FastPath(w)
    \/ Submit(w) \/ PersistPolicies(w)

Decide(w) ==
    \/ \E op \in Decisions, r \in Revs : BeginDecision(w, op, r)
    \/ SaveApproval(w) \/ Complete(w) \/ SaveRoute(w)

Deploy(w) ==
    \/ BeginDeploy(w) \/ GetAction(w) \/ ApplyRoute(w) \/ ApplyPolicies(w)
    \/ Finish(w) \/ RemovePolicies(w) \/ RemoveRoute(w) \/ DeleteApprovals(w)
    \/ DeleteRow(w)

Next ==
    \/ \E w \in Workers : \/ Write(w) \/ Decide(w) \/ Deploy(w)
                          \/ \E op \in Requeues : BeginRequeue(w, op)
                          \/ Requeue(w) \/ Fail(w)
    \/ Toggle

Spec == Init /\ [][Next]_vars

---------------------------------------------------------------------------
(* Properties *)

\* Types of the tables, the cluster objects and what the workers hold.
TypeOK ==
    /\ row \in Rows
    /\ policies \in 0..MaxRev
    /\ approvals \in [Revs -> Approvals]
    /\ approvalEnabled \in BOOLEAN
    /\ k8s \in [route : 0..MaxRev, policies : 0..MaxRev]
    /\ lastRev \in 0..MaxRev
    /\ granted \subseteq Revs
    /\ grantedDeletes \subseteq Revs
    /\ override \in Overrides
    /\ overlooked \in BOOLEAN
    /\ pc \in [Workers -> PCs]
    /\ loc \in [Workers -> Locals]
    /\ failures \in 0..MaxFailures

Quiet == \A w \in Workers : pc[w] = "idle"
StatusOf(action) == CASE action = "create" -> "pending_create"
                      [] action = "update" -> "pending_update"
                      [] action = "delete" -> "pending_delete"

\* No route config is served that was never approved: whatever revision
\* Deploy put into Kubernetes, its create or update was approved at some time
\* (or the route was created while approvals were off), however requests
\* interleave and fail and whenever approvals are switched on and off.
ServedConfigWasApproved == k8s.route # 0 => k8s.route \in granted

\* Update and Delete refuse to open a second approval while one is pending,
\* unless the look-up of the pending one has failed.
OnePending == ~overlooked => Cardinality(WithStatus("pending")) <= 1

\* Argument A1 of the transition table: while an approval is pending, the
\* route has the pending status of the approval's action, so that its callback
\* finds the transition it needs, whatever calls failed and whenever approvals
\* were switched.  Two requests break it: Cancel of an approval that is already
\* approved, and AttachFromRoute while approvals are off; and so does a failing
\* look-up that misses a pending approval.
PendingApprovalMatchesStatus ==
    Quiet /\ override = "none" /\ ~overlooked =>
        \A r \in WithStatus("pending") : row.status = StatusOf(approvals[r].action)

\* An approved config is not lost: once the request that approved it is over,
\* the route row holds this revision or a later one, whether or not the
\* route's status moved (OnApproved's explicit write), as long as no call
\* failed and the approvals were not bypassed.
ApprovedConfigKept ==
    Quiet /\ HasRow /\ failures = 0 /\ override = "none" =>
        \A r \in WithStatus("approved") :
            approvals[r].action # "delete" => row.config >= r

\* Deploy of a delete removes the row, the only record of the route's name in
\* the cluster, only when the HTTPRoute is gone, whatever calls failed before.
DeletedRouteLeavesNothing ==
    [][\A w \in Workers : pc[w] = "deleteRow" /\ row' = NoRow => k8s'.route = 0]_vars

---------------------------------------------------------------------------
(* The inductive strengthening of ServedConfigWasApproved. *)

\* A worker that will save a route holds one, a worker that decides knows the
\* approval, and only a write handler reaches the submission.
LocalsOK ==
    \A w \in Workers :
        /\ pc[w] \notin {"idle", "persistPolicies", "saveApproval", "complete"} =>
               loc[w].row # NoRow
        /\ pc[w] \in {"fastPath", "submit"} => loc[w].op \in Actions
        /\ pc[w] = "getProject" => loc[w].op \in Actions \cup {"attach"}
        /\ pc[w] = "requeue" => loc[w].op \in Requeues
        /\ pc[w] \in {"getPending", "setPending"} => loc[w].op \in {"update", "delete"}
        /\ pc[w] \in {"saveApproval", "complete", "saveRoute"} =>
               loc[w].op \in Decisions /\ loc[w].rev \in Revs
        /\ pc[w] = "persistPolicies" => loc[w].rev \in Revs

\* A config is approved, or it is the one the route was created with.
Backed(config) == config \in granted \cup {0, 1}

\* What was granted to a submission with this action.
GrantedFor(action) == IF action = "delete" THEN grantedDeletes ELSE granted

\* Approvals are backed: each was submitted, an approved one was granted, and
\* the approval of the create is the first.
ApprovalsBacked ==
    \A r \in Revs :
        /\ approvals[r].status # "none" => r <= lastRev
        /\ approvals[r].status = "approved" => r \in GrantedFor(approvals[r].action)
        /\ approvals[r].status # "none" /\ approvals[r].action = "create" => r = 1

\* So are the rows the workers hold, and what they are about to do: a deploy
\* that may create the HTTPRoute follows the approval of revision 1, and one
\* that removes it follows the approval of a delete.
WorkersBacked ==
    \A w \in Workers :
        /\ Backed(loc[w].row.config)
        /\ pc[w] \in {"complete", "saveRoute"} /\ loc[w].op = "approve" =>
               loc[w].rev \in GrantedFor(loc[w].action)
        /\ pc[w] \in {"saveApproval", "complete", "saveRoute"} =>
               /\ loc[w].rev <= lastRev
               /\ loc[w].action = "create" => loc[w].rev = 1
        /\ pc[w] \in {"getProject", "fastPath", "submit"} /\ loc[w].op = "create" => 1 <= lastRev
        /\ pc[w] = "applyRoute" /\ loc[w].action # "update" => 1 \in granted
        /\ pc[w] \in {"removePolicies", "removeRoute"} => grantedDeletes # {}

ServedInv ==
    /\ Backed(row.config)
    /\ ApprovalsBacked
    /\ WorkersBacked
    /\ k8s.route # 0 => k8s.route \in granted /\ 1 \in granted

---------------------------------------------------------------------------
(* What the route promises, without requests and rows. *)

Contract == INSTANCE RouteContract WITH submitted <- lastRev, served <- k8s.route

\* The gateway sees only what was granted: every step of every request, in any
\* interleaving and with any failing call, is a submission, a grant of one that
\* was submitted, a deploy of a granted config that creates the HTTPRoute only
\* after the create was granted, a removal after a delete was granted, or
\* leaves all this alone (approval snapshots, GetLatestApprovedByEntityID and
\* whole-row saves of stale routes).
ImplementsRoute == Contract!Spec

---------------------------------------------------------------------------
(* What comments and documents say that the code does not do: each of these *)
(* is violated.                                                             *)

\* A rejected approval does not discard a queued redeploy: a route that went
\* back to active serves the config its row holds.
QueuedRedeployKept ==
    Quiet /\ row.status = "active" /\ k8s.route # 0 => k8s.route = row.config

\* A cancelled create was never deployed: the row is not deleted from under an
\* HTTPRoute that serves traffic.
CancelledCreateWasNeverDeployed ==
    [][\A w \in Workers :
          pc[w] = "complete" /\ HasRow /\ row' = NoRow => k8s.route = 0]_vars

\* Policies of a route are applied to Kubernetes only once approved.
ServedPoliciesWereApproved == k8s.policies # 0 => k8s.policies \in granted
=============================================================================
