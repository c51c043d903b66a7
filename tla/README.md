# Formal models of the FastGateway backend

FastGateway's backend (Go) is the control plane of an API gateway.  Users edit
routes, clients, domains and certificates; changes pass an approval workflow;
approved changes are written to the Kubernetes clusters of the projects, where
Envoy Gateway serves them.  Every HTTP request runs in its own goroutine, the
server may run in several replicas, and nearly all multi-step operations are
sequences of single database or Kubernetes calls without a transaction around
them.  That is where the models look: at what the rows and the clusters can
look like when such sequences interleave or stop half-way.

Paths below are relative to `src/`.  `PROJECT.json` maps every definition to the
lines it stands for, lists the hazards with the properties that cover them, and
names the runs and theorems.

Run one model with `tlc -workers 2 -config MCX.cfg MCX` and the proofs of one
module with `tlapm XProofs.tla`.

## 1. Inventory

| component | state | operations | what is hard |
|---|---|---|---|
| approval engine (`internal/approval/traversal.go`) | `approvals`, `approval_stages`, `approval_stage_reviews` | Submit, ApproveStage, RejectStage, Cancel, AI review | requests act on rows read earlier; no transaction; several reviewers at once |
| stage planning (`internal/approval/planning.go`, `services/approval_policy_service.go`) | `approval_policies`, teams | PlanStages; create, update, delete of policies | the gate is read in several look-ups; look-up failures must not widen it |
| route status machine (`internal/routestate`) | `routes.status` | Machine.To by call site | the table argues about which states meet which callbacks |
| route write and callbacks (`services/route_write*.go`, `route_approval.go`) | `routes`, `approvals`, the policy tables | Create, Update, Delete, OnApproved, OnRejected, OnCancelled | status, approval and policies are written in separate calls |
| route deploy (`services/route_deploy*.go`) | `routes`, HTTPRoute and policy objects | Deploy (create, update, delete) | Kubernetes calls between reading and saving the row; partial failure |
| route versions (`services/route_version_service.go`) | `route_versions` | record, Rollback | next version computed outside the insert |
| clients, attachments (`services/clients`, `route_deploy_clients.go`) | `clients`, their address and header lists, `client_route_attachments` | credentials, Attach, Detach, callbacks, cascade to routes, per-client objects of a deploy | a credential and the routes that use it change in separate calls; clean-ups whose failure is only logged |
| managed certificates (`services/managed_certificate_service.go`) | `managed_certificates`, Certificate objects | Create, callbacks, Status, Resync, Delete, export | a polled read (Status) writes the row |
| certificate distribution (`internal/certdist`) | `certificate_distributions`, the Secrets of two clusters | Reconcile | retries, renewals, two distributors at once |
| leader lock (`internal/leaderlock`) | a Postgres advisory lock, an atomic flag | attempt, unlock | the flag outlives the lock |
| issuers, export and issuer grants, attached certificates | `certificate_issuers`, `issuer_project_grants`, `certificate_export_grants`, `domains`, `clients` | create, delete, grant, revoke, export, attach, detach | single use; count then delete; objects and rows removed one by one |
| templates, domains, streams, L4 routes | `domain_templates`, `domains`, `streams`, ports of routes, Gateways | create, update, delete, collision checks, reconciliation at start-up | check then insert; a row and its Gateway out of step; restarts |
| DNS | `dns_provider_credentials`, `dns_hosted_zones`, `domain_dns_records`, the provider's records | enable, get, update, delete, background retry | remote calls first, rows afterwards and their result ignored; foreign records |
| projects, teams, users, presets, tokens, SSO | the directory tables | edits, invitations, sign-on | several deletes without a transaction; stale whole-row saves |
| handlers, middleware, router | none | every endpoint | check, then act, while the tables change |
| AI review, notifications, audit, comments, metrics, topology, import, presets | append-only or read-only | | only SetAIReview writes shared state |
| manifest builders (`routeplan`, `domainplan`, `templateplan`, `streamplan`, `kubernetes`) | none | pure functions | covered by golden tests |
| cluster client, repositories | none of their own | I/O | every call can fail, or succeed and lose its answer |

How they interact: a request of the write service moves the route to a
`pending_*` status, submits an approval to the engine and stores policies.  The
engine, when the approval reaches a terminal state, calls the *completer* of the
entity (`OnApproved`, `OnRejected`, `OnCancelled`), which goes through the status
machine.  Deploy picks the action from the latest approved approval and writes
to Kubernetes.  Attachments and client changes reach into the route's status to
queue a redeploy.  Certificates go through the same engine; their completer
creates a cert-manager Certificate, and the distributor of the leading replica
copies what cert-manager issues to the project's cluster.

What makes each correct:

* engine: nothing is approved without the quorum of every stage, stages are
  taken in order, a decision is final and is not lost;
* routes: what is served was approved; an approved change is not lost; a pending
  approval finds the route in the state its callback needs; a deleted route
  leaves nothing behind;
* certificates: nothing is issued without an approval; the books never claim a
  push that did not happen; the tenant cluster converges to the latest key pair;
* lock: somebody leads in the end, and two leaders at once do no lasting harm;
* planning: the stored gate is the one some policy asked for, never a weaker one;
* clients: a settled route lets through exactly who was granted access, with
  current credentials;
* gateways: no port has two owners, a settled stream is live, a Gateway is not
  emptied by a failure;
* DNS: foreign names are not touched, and what was written can be found again;
* use of certificates: one download for each approved export, no listener on a
  certificate that is gone, no certificate without its issuer;
* requests: nobody acts without the standing the endpoint asks for, and no right
  appears that nobody gave.

## 2. Modules

| module | models | extended by |
|---|---|---|
| `ApprovalContract` | abstract: what the engine promises a completer | instantiated by `ApprovalEngine` |
| `ApprovalEngine` | stage traversal of one approval, any number of concurrent requests | `ApprovalProofs`, `MCApprovalEngine` |
| `ApprovalModel` | what the engine and the planner share: the quorum of a stage | `ApprovalEngine`, `StagePlanning` |
| `StagePlanning` | from policies and teams to the stages of a submission, while both change | `ApprovalProofs`, `MCStagePlanning` |
| `RouteState` | the table of legal status transitions, by call site | `RouteLifecycle` |
| `RouteContract` | abstract: what the gateway may be made to serve | instantiated by `RouteLifecycle` |
| `RouteLifecycle` | one route: write, callbacks, deploy, redeploys queued from outside | `RouteLifecycleProofs`, `MCRouteLifecycle` |
| `LeaderLock` | advisory lock and leader flag of every replica | `CertDistribution` |
| `CertDistribution` | one managed server certificate: its API and its distribution | `CertDistributionProofs`, `MCCertDistribution` |
| `CertUse` | issuers, grants, certificates, exports, and the domains and clients that use them | `CertUseProofs`, `MCCertUse` |
| `ClientAccess` | clients, credentials, attachments, and what a deploy lets through | `ClientAccessProofs`, `MCClientAccess` |
| `Gateways` | a template, its domains, streams and L4 routes, and the Gateways | `GatewaysProofs`, `MCGateways` |
| `DnsRecords` | credentials, zones and records against the provider | `DnsRecordsProofs`, `MCDnsRecords` |
| `Directory` | users, teams, projects, presets, tokens, and the permission checks on them | `RequestGate` |
| `Handlers`, `RouteHandlers` | the handlers as programs of checks and steps | `Endpoints` |
| `Endpoints` | every route of the server: middleware and handler | `RequestGate` |
| `RequestGate` | requests that run those programs side by side over the directory | `RequestGateProofs`, `MCRequestGate` |

Conventions.  A request (or a distributor's pass) is a program counter `pc` and
what it has read (`seen`, `loc`, `pass`); one step is one database or Kubernetes
call together with the code up to the next call.  Repositories save with gorm
`Save`, which writes all columns and inserts a row that is gone: a step that
saves a row writes back everything its request read earlier, except for what it
sets.  Any call may fail (bounded by `MaxFailures`); the handler then does what
its error path does, which mostly is to return and undo nothing.  Definitions
named `Def_Bug` are mutated forms of `Def` and belong to no specification.

### ApprovalEngine

State: the approval's `status`, whether an AI review is stored, the status of
each stage, and the review of each user at each stage (unique by index), plus a
history counter of completer calls.  `GetApproval`, `GetStages`, `Authorize`,
`CreateApproval`/`CreateRejection`, `CountReviews`, `UpdateStage`,
`UpdateApproval`, `Complete` are the calls of `ApproveStage`, `RejectStage` and
`Cancel` in their order; `SetAIReview` is the asynchronous AI review.  Who may
review is a constant per stage (permission, team, self-approval rule).  `Arrive`
gives a request one of `Calls`; `Init` is what `Submit` has stored.

### RouteState and RouteLifecycle

A submission is a revision number: it stands for the config and policies that
were submitted and for the approval it opened.  State: the route row (status and
config), the stored policies, the approvals by revision, the project's approval
switch, what the cluster serves (config and policies), and four history
variables: `granted`, the revisions whose config was ever approved,
`grantedDeletes`, the deletes ever approved, `override`, what last bypassed the
approvals, and `overlooked`, whether a failing look-up missed a pending approval.
The actions follow `routeWrite.Create/Update/Delete`
(`Create`, `BeginChange`, `GetPending`, `SetPending`, `GetProject`, `FastPath`,
`Submit`, `PersistPolicies`), the engine's decision seen from the route
(`BeginDecision`, `SaveApproval`, `Complete`, `SaveRoute`), `routeDeploy.Deploy`
(`BeginDeploy`, `GetAction`, `StartDeploy`, `ApplyRoute`, `ApplyPolicies`,
`Finish`, `RemovePolicies`, `RemoveRoute`, `DeleteApprovals`, `DeleteRow`), and
redeploys queued by the client cascade and by attachments (`BeginRequeue`,
`Requeue`).  `Toggle` is the project's approval switch.  A failing call ends the
handler (`Fail`), but for the two look-ups of approvals: the handlers of Update and
Delete take a failing one for "none pending" (`GetPending`), and Deploy takes it for
"none approved" (`GetAction`).

### RouteContract

What was submitted, which configs and which deletes were granted, and what is
served.  `RouteLifecycle!Contract` maps `submitted` to the last revision and `served`
to the config of the HTTPRoute; rows, statuses, approvals, policies and program
counters are gone.  The contract allows only a granted config to be served, the
route to appear only once its create was granted and to be withdrawn only once a
delete was granted.  It allows an older granted config to come back and a granted
delete to be carried out late, because the code does so.

### LeaderLock and CertDistribution

A version of the key pair is a number and stands for its fingerprint.  State: the
certificate row, the distribution row, the approval of the create, whether the
Certificate object exists, the version in the control plane's Secret (`source`)
and in the project's Secret (`tenant`), and the history `pushed`.  Every replica
runs the passes of the distributor (`List` to `SetMeta`, with `PassFails` and
`PassAborts` for errors), if its flag says it leads; workers serve decisions,
Status, Resync and Delete.  cert-manager (`Issue`) and people who delete Secrets
(`Drift`) are the environment.  Here the engine's decision and the first call of
its callback are one step, and the engine takes one decision at a time; that
this can fail is shown in `ApprovalEngine` (run `approval_one_decision`).

### ApprovalContract

Who has endorsed which stage, the verdict, and what the completer was told.
`ApprovalEngine!Contract` maps `endorsed` to the stored approving reviews,
`verdict` to the status column and `told` to the completer calls; reads, stage
rows and program counters are stutters.  The contract allows a verdict to be
replaced by another one, because the engine does so (run `approval_one_decision`);
it does not allow an approval without quorums, an endorsement out of order, or a
completer call before a verdict is stored.

### StagePlanning

One project.  State: the policy rows with their key (entity and action, the
default being the empty action), team members and teams of the project, the
stages of the approval each submission stored, and for each request its next
step and locals.  `LookupAction`, `LookupDefault`, `ResolveAny`,
`ResolveSubmitterTeam`, `ReadSubmitterTeams`, `ResolveOtherTeam`, `StoreApproval`
are the calls of `Submit`/`PlanStages`; `CheckDuplicate`, `InsertPolicy`,
`GetPolicy`, `SavePolicy`, `DeletePolicy` those of the policy service;
`MoveMember` and `MoveTeam` change the teams.  The history `held` and `teamsHeld`
keeps what every key held, and who was where, while a submission ran.

### ClientAccess

A credential is a version number.  State: client rows and lists, attachments,
their approvals, the status of routes, and what each route lets through: for
every client on the base route and on a route of its own.  The history `missed`
holds routes whose redeploy was not queued when it was due (a failing cascade, or
a route that was not active), and `override` attachments whose granted approval
was cancelled; a route is *settled* when it is active, no request runs and it is
not in `missed`.  A clean-up, or an update of the attachments' status, that fails
at the end of a deploy is logged and the deploy goes on; such a route is in
`missed` too.

### Gateways, DnsRecords, CertUse

A request reads and checks in one step and writes in later ones, one for each
call that changes something; each failing call is a step of its own.  Rows carry
the columns the properties tell apart.  `Gateways` lets the server restart
between any two steps (requests are lost, the reconciliation of streams begins);
in `DnsRecords` the addresses of Gateways move; in `CertUse` cert-manager issues.
Properties that the code keeps only for requests that do not overlap on one
object, or only if no write was lost, are stated for objects outside the history
`blurred`; section 6 says what overlap can do.

### Directory, Handlers, Endpoints, RequestGate

`Handlers` and `RouteHandlers` write each of the handlers as the sequence of its
checks, reads and writes; `Endpoints` puts the middleware in front; `Directory`
has the tables, the checks of `middleware/permissions.go` as predicates and the
writes as functions; `RequestGate` runs a program step by step.  The user's own
row is read once at the start.  What a handler does to resources other than the
directory is one abstract step here and belongs to the other modules.

## 3. Runs

Passing:

| run | instance | shows |
|---|---|---|
| `approval_engine` | 2 users, 2 stages (quorum 2, then 1 restricted to a team), 3 requests, 1 failing call | `ApprovedOnlyByQuorum`, `StagesInOrder`, `NoLostCompletion`, `DecisionNotReverted`, `FullyApprovedIsCompleted`, and the refinement `ImplementsContract` |
| `stage_planning` | 1 submission of any entity, 2 administrators with nine kinds of request, 2 teams, 3 policy rows, 1 move, 1 failing call | `GateIsAPolicys`, `ScopesHonoured`, `OnePolicyPerKey` |
| `route_serial` | 1 worker, all requests, 3 submissions, 1 failing call | `OnePending`, `PendingApprovalMatchesStatus`, `ApprovedConfigKept`, `DeletedRouteLeavesNothing` |
| `route_concurrent` | 2 workers, all requests, 2 submissions | `ServedConfigWasApproved`, and the refinement `ImplementsRoute` |
| `client_access` | 1 worker, 1 client, 1 route, all requests, 2 versions of a credential, 2 approvals, 1 failing call | `ActiveClientIsCurrent`, `DetachedClientIsGone`, `ServedClientWasGranted`, `BaseRouteIsGuarded` |
| `cert_distribution` | 2 replicas, 1 worker with decisions only, 2 versions, 2 failures | `Converges`, `LeaderElected` |
| `cert_requests` | 2 replicas, 1 worker with every request, 2 versions, 1 failure | `RecordedWasPushed`, `IssuedOnlyIfApproved` |
| `cert_use` | 2 workers, 3 requests, an issuer, a server and a client certificate, 1 domain, 2 clients, 2 grants, 1 failing call | `ExportsWereApproved`, `ServedCertificateExists`, `IssuerServesItsCertificates`, `OneClientPerCertificate` |
| `gateways` | 2 workers, 3 requests, a template, 1 domain, 2 streams, 1 route, 3 ports, 1 failing call, 1 restart | `ClaimsDisjoint`, `DeployedPortsHeld`, `SettledStreamIsLive`, `GatewayNotEmptied` |
| `dns_records` | 2 workers, 3 requests, 2 domains of one hostname, A and CNAME, 2 moves of an address, 1 failing call | `ForeignNameUntouched`, `ReadyWasWritten`, `WrittenRecordHasRow`, `OneOwnerPerName` |
| `request_gate` | 2 users, every endpoint against one that changes the directory, 2 changing requests | `ActsWithStanding`, `DirectoryConsistent`, `AccessIsGranted` |

Violated: `approval_one_decision`.  `ports.go` says of a completer that exactly one
of its methods is called; an approve and a reject that both read the pending
approval both save it, and `OnApproved` and `OnRejected` both run.

Bounds, and why they are enough to be interesting.  Three requests are two
approvers of stage 1 and whoever reviews stage 2, or any two of them and a
rejection, a cancellation or an AI review.  Three submissions of a route are a
create, an update and a change stacked upon it.  Two workers on a route make
every race of two requests, and the proof of the property checked there covers
any number of them; the same goes for `stage_planning`, where two administrators
can delete a policy and re-insert it from a stale row.  Three policy rows are
the two seeded ones and one more.  Two versions of a key pair are an issue and a
renewal, so an old pass can overwrite a newer push.  Two replicas are needed for
two leaders.  One failure is a failing call, a call whose answer is lost, a lost
session, a restart or a deleted Secret, at any step; the liveness run allows two,
so that both replicas can lose their sessions, and leaves Status, Resync and
Delete to the safety run to stay small.  `client_access` serves requests one at a
time and its interest lies in failures and long sequences: attach, approve,
deploy, change, detach, redeploy.  Three requests on the gateways and on
certificates are a pair that races and one that prepared for it (the template,
a stream and the issuer of the instance may exist at the start); three on DNS
records are enable, a change and a delete of one domain, or enable on both
domains and a retry, with an address for each.  In `request_gate` one
request is any of the endpoints and two may change the tables below it.  Where
requests are not counted they go back to `idle` and may be repeated, so sequences
are not bounded by the number of workers.  Symmetry is used only in runs without
liveness.  `CHECK_DEADLOCK` is off where requests, versions and failures are
bounded, and when they are used up the system may rest.

Qualified properties.  `PendingApprovalMatchesStatus` and `ApprovedConfigKept`
exclude states after a Cancel of an already approved approval or an attachment
while approvals are off (`override`), because these do break them; section 6
lists how.  `PendingApprovalMatchesStatus` and `OnePending` also exclude states after
a look-up of pending approvals failed while there was one (`overlooked`).  They, and `OnePending`, hold for requests served one at a time: two
requests that pass the pending check together open two approvals.  So do the
four invariants of `ClientAccess`: with a second worker TLC refutes each of
them (section 6), which is why that run has one and the theorems assume
`Serial`.  `ClientAccess` leaves out what only overlapping requests meet, the
unique index over client and route.
`NoLostCompletion` and `FullyApprovedIsCompleted` assume that no call failed: the
engine has no retry, and a reviewer whose review was stored cannot review again.
`ScopesHonoured` relates a stage to moments while the planner ran: the submitter's
teams and the project's teams may come from two different moments.  In
`Gateways`, `DnsRecords` and `CertUse` the qualifications are the `blurred` objects;
`ForeignNameUntouched`, `ReadyWasWritten`, `GatewayNotEmptied`, `ExportsWereApproved`
and `OneClientPerCertificate` hold without one.

Fairness.  `ApprovalEngine!FairSpec`: a request that has arrived goes on (Go
schedules every goroutine); no request has to arrive.  `CertDistribution!FairSpec`:
the tickers of `PostgresGate.Run` and `Distributor.Run` never stop and a pass that
has begun goes on; nothing is assumed of requests, of cert-manager or of the
number of wakes between two failures.  `LeaderElected` and `Converges` hold
because failures are finite (`MaxFailures`): with sessions lost for ever nobody
leads for long.  No other module states liveness: their requests are answered
once and not retried, and the DNS retry gives up after three minutes.

## 4. Proofs

All proofs hold for every value of the constants, so for any number of requests,
stages, users, teams, policies, replicas, submissions, domains, streams, routes,
clients, certificates, versions and failures.  They assume what the
named `ASSUME`s say: finite sets of users or workers, bounds that are natural
numbers, a highest stage order (planning never returns an empty list),
operations that are those of the API, and names that are told apart
(`NamesAssumption`: no domain, stream or certificate is called like the NULL of a
column or like a word the model uses for something else; ids are UUIDs).
`EndpointsAssumption` is of another kind: it has no parameters, and says of each of
the programs in `Endpoints` that it checks before it acts (see *Requests* below).
Theorems with the hypothesis `Serial` (any two workers are the same) are about
requests that do not overlap, and say so; all others allow any number of
concurrent requests.

| theorem | states |
|---|---|
| `ApprovalProofs!TypeCorrect`, `RouteLifecycleProofs!TypeCorrect`, `CertDistributionProofs!TypeCorrect` | `[]TypeOK` |
| `ApprovalProofs!QuorumSafety`, `OrderSafety` | `[]ApprovedOnlyByQuorum`, `[]StagesInOrder` |
| `ApprovalProofs!DecisionStable`, `CompletionSafety` | `DecisionNotReverted`, `[]NoLostCompletion` |
| `ApprovalProofs!KeepsContract` | `ImplementsContract`: `ApprovalEngine` refines `ApprovalContract` |
| `ApprovalProofs!GateSafety`, `ScopeSafety`, `KeysUnique` | `[]GateIsAPolicys`, `[]ScopesHonoured`, `[]OnePolicyPerKey` |
| `RouteLifecycleProofs!ServedSafety` | `[]ServedConfigWasApproved` |
| `RouteLifecycleProofs!KeepsRouteContract` | `ImplementsRoute`: `RouteLifecycle` refines `RouteContract` |
| `RouteLifecycleProofs!OnePendingSerial`, `StatusMatchesSerial`, `ConfigKeptSerial`, `DeletedSerial` | under `Serial`: `[]OnePending`, `[]PendingApprovalMatchesStatus`, `[]ApprovedConfigKept`, `DeletedRouteLeavesNothing` |
| `CertDistributionProofs!PushedSafety`, `IssueSafety` | `[]RecordedWasPushed`, `[]IssuedOnlyIfApproved` |
| `CertUseProofs!CertUseInvariant` | `[]CertUseInv`, the inductive invariant |
| `CertUseProofs!ExportsApproved`, `OneClient` | `[]ExportsWereApproved`, `[]OneClientPerCertificate` |
| `CertUseProofs!ServedExists`, `IssuerServes` | `[]ServedCertificateExists`, `[]IssuerServesItsCertificates` |
| `DnsRecordsProofs!ForeignUntouched`, `ReadyWritten` | `[]ForeignNameUntouched`, `[]ReadyWasWritten` |
| `DnsRecordsProofs!WrittenHasRow`, `OneOwner`, `RowsTyped` | `[]WrittenRecordHasRow`, `[]OneOwnerPerName`, `[]TypeOK` |
| `GatewaysProofs!ClaimsStayDisjoint`, `DeployedHeld` | `[]ClaimsDisjoint`, `[]DeployedPortsHeld` |
| `GatewaysProofs!SettledLive`, `ListenersLast` | `[]SettledStreamIsLive`, `GatewayNotEmptied` |
| `GatewaysProofs!RowsTyped`, `GatewaysInvariant` | `[]TypeOK`, `[]GatewaysInv`, the inductive invariant |
| `ClientAccessProofs!ClientAccessInvariant` | under `Serial`: `[]ClientAccessInv`, the inductive invariant |
| `ClientAccessProofs!ActiveIsCurrent`, `DetachedIsGone`, `ServedGranted`, `BaseGuarded` | under `Serial`: `[]ActiveClientIsCurrent`, `[]DetachedClientIsGone`, `[]ServedClientWasGranted`, `[]BaseRouteIsGuarded` |
| `RequestGateProofs!GateTypeCorrect` | `[]TypeOK` |
| `RequestGateProofs!ActsOnlyWithStanding`, `DirectoryStaysConsistent`, `AccessOnlyGranted` | `[]ActsWithStanding`, `[]DirectoryConsistent`, `AccessIsGranted` |

`ApprovalProofs` holds the proofs of two components, `ApprovalEngine` and
`StagePlanning`, each in its own part.

*Quorum.*  `QuorumInv` says that everything a request might still act upon is
backed by stored reviews: the stage rows, the stages a request has *read*, and
what its program counter has established.  Reviews are only ever added, so a
quorum once reached stays reached; this is why acting on stale rows is harmless.
The lemma `CountStable` is the fact about cardinalities behind it.

*Completion.*  `CompletionInv`: a reviewing request has seen every earlier stage
approved, so the one that approves the highest stage finds all stages approved
and goes on to update the approval.  It needs the stage order to be unique.

*Contract.*  The initial states map to initial states; with `TypeOK`, `QuorumInv`
and `CompleterWaits` (a request that is about to call the completer follows a
stored verdict) every action is an `Endorse`, a `Decide`, a `Tell` or a stutter.
`QuorumInv` is what makes a `Decide` of "approved" legal although the request
works from rows read earlier.

*Planned gates.*  `PlanInv` follows a submission through its reads: the templates
it holds are those of a policy that ruled it at some moment since it began, the
stages so far are what those templates ask for, half of an `other_team` look-up
was true at a moment the history has, and the history always contains the
present (`HistoryCurrent`).  `PoliciesNotEmpty` is needed because an empty policy
would be taken for a missing one.  Administrators and moving teams only make the
history grow, so they cannot disturb a submission; uniqueness of the keys rests
on the index alone, as the duplicate check of Create does not look at errors.

*Served configs.*  `ServedInv`: the config in the row, in the rows workers hold
and in the cluster is either approved or the one the route was created with, an
approved approval was granted, and a deploy that may create the HTTPRoute
follows the approval of the first submission.  Whole-row saves of stale rows
keep it, since a stale row is backed as well.  `LocalsOK` records which fields
of `loc` are meaningful at which program counter.

*Route contract.*  The same invariant carries the refinement (`ContractStep`).  What
makes it more than the invariant is its two other clauses: an approved approval was
granted *for its own action* (`GrantedFor`), and a worker on its way to remove the
HTTPRoute follows a granted delete (`WorkersBacked`).  Grants are only ever added
(`Grows`), so an action that Deploy read from an approval cancelled since is still
a granted one; and a deploy whose look-up of the approval failed is an update, which
cannot create an HTTPRoute.

*Pushes.*  `PushedInv`: fingerprints in rows, in rows held by passes and requests,
and what a pass past its push will record, were pushed.  Leadership appears
nowhere in it: the property does not depend on there being one leader.

*Issuing.*  `IssueInv`: a request that is about to apply the Certificate follows
an approval, and the Certificate, the source Secret and pushes follow that.

*Routes, one request at a time.*  `SerialInv` has four parts.  `InOrder`: revisions
are given out in order and only the last can be pending, so the check for a
pending approval is enough.  `Fresh`: what a request read is still so when it
writes; this is the part that overlapping requests lose.  `Matching`: the route
has the status of what is pending, and a request between `SaveApproval` and
`SaveRoute` still finds it.  `Kept`: the row has every approved config but the one
being written.  It holds until a look-up overlooks a pending approval, and an
overlooked approval costs a failing call (`OverlookedCounts`), so `ApprovedConfigKept`
needs no further excuse.  `DeletedRouteLeavesNothing` has an invariant of its own,
`Gone`, and holds also then.

*DNS.*  `DnsInv` follows a record through the calls that write the provider first
and the row afterwards.  For all names: where a foreign record was found no domain
ever gets a row and no request goes past its check (`ForeignKept`), and neither a
row nor a copy of a row in some request says ready without a write (`ReadyKept`),
which is why saving stale rows is harmless there.  For names on which calls did
not overlap (`blurred`): one request at most is busy (`Alone`), its copy is what
the table says (`CopiesAreCurrent`), and a record at the provider has the type of
the target that the row, or the row about to be saved, names (`RecordsAreNamed`);
the last is what lets Delete compute the record it must remove.

*Use of certificates.*  `ExportsCounted` is a sum: downloads so far, grants that are
usable or locked by a download, and downloads that have consumed their grant and
still read the Secrets, are together at most the approved exports.  Each action
moves one unit between these or drops one; `GrantsLocked` (two downloads never hold
one grant, `FOR UPDATE`) keeps the unit from being moved twice.  For issuers, a
request that counted certificates still counts right when it deletes
(`CountsHold`), if nothing else on the issuer overlapped.  For listeners, a
certificate that is chosen has its key and is not pending (`ChosenWasReady`): only
the request that inserted a certificate writes pending, and it is over before
anybody can attach it (`NamedOnce`).  The key then has its object as long as the
row is there, which the foreign keys guarantee, and a Gateway says what its row
says unless it is just being applied (`LiveFollowsRow`).

*Gateways.*  `ClaimsInv`: what a request checked about ports holds until it writes,
for streams against streams, streams against the template and the template against
streams; it needs the template that a request writes back to differ only in what
was asked (`TemplateChecked`, `RenamesKeep`).  `RoutesInv` is about the ports a route
*may yet be* deployed on without a further check (`Prospects`: deployed, proposed,
approved): they are apart, and each is a claim of the stream; the port in the row
alone is not inductive, because an approved move is deployed later.  `LiveInv`: an
active stream that is not being written has its claims as listeners.  A restart
loses all requests and adds all streams to `reconcile`, which is why the invariant
speaks of the others.  `ListenersLast` is an action property and needs only types.

In these three modules a request begins with what it has checked (`Startable`), so
one lemma on beginnings serves all requests and the proofs have one case for each
later step.

*Clients.*  `ClientAccessInv` has six parts.  What a request holds is what the tables
say (`TypedInv`).  An open approval is awaited by the attachment it names, and no
two approvals name one (`ApprovalsInv`), so that the row which an approval turns on
is the one that was submitted; then what deploys include was granted
(`GrantedInv`), and so is what they have served (`ServedClientWasGranted`).  The
base route is closed before a client with a route of its own becomes active
(`GuardedInv`: also during the deploy).  `CurrentInv` is the heart: a route that is
not `Due` serves what the tables say.  A route is due if it is queued, missed, or
still on the list of the request that changed a credential (`Lags`); `DueKept` says
that only the end of a deploy pays a debt, `FreshStep` that a change to what a route
should serve always incurs one, and `AppliedStep` that a deploy serves what it read,
step by step.

*Requests.*  `GateInv` says of the tables that they are typed and consistent, and of
every open request that its caller has had the standing the endpoint needs
or a sufficient check still comes before its next act (`ChecksFirst`); that its
remaining steps are about the class of resource it needs standing for (`Matched`);
and that a row it is about to save is at hand (`Ready`).  That a program *begins*
so is `EndpointsAssumption`.  It is a closed statement about some two hundred
sequences put together by the operators of `Handlers`, `RouteHandlers` and
`Endpoints`; TLC evaluates it completely in every run of `MCRequestGate`, and the
proof does the rest: that no interleaving of any number of requests, whatever they
change in the tables, makes a program that begins so act without standing.
`CheckEstablishes` is the lemma between them: a check that passes implies the
standing of each class it is listed for.  The consistency of the directory is proved
write by write, in the order in which the several deletes of a handler happen.
`AccessOnlyGranted` is an action property: of all the writes, only those of platform and
teams requests and an invited caller joining can enlarge `HasProjectAccess`.

Each inductive invariant was an invariant of the run of its module before it was
proved.

Only model-checked: the liveness properties `FullyApprovedIsCompleted`,
`Converges` and `LeaderElected`, which need fairness and so are out of the prover's
reach.  Every other property of a passing run is a theorem.

What the proofs found in the models.  Seeding the built-in presets of a project
erased its custom ones in an earlier form of `Directory`, which needs three
requests that change the tables and so was out of the run's bounds.  The failing
look-ups of approvals were taken for errors in an earlier form of `RouteLifecycle`.

## 5. Not modelled, and why

Validation, YAML, previews and the manifest builders are pure functions on large
records and are covered by golden tests; repositories and the cluster client are
the steps of the models; metrics, topology, audit, comments and notifications
decide nothing; AI review is remote text generation whose one write to shared
state, `SetAIReview`, is an action of `ApprovalEngine`; passwords, JWTs, OIDC and
encryption are cryptography.  Within the modelled parts: routes have one policy
object and no Backend objects; route versions, which are stored best effort and
read only by a rollback, are left out; so are domain settings, the CAs of domain
mTLS, reference grants and namespaces, which are edits of one row followed by one
apply; the connection pool behind the leader lock is not modelled, a failing
attempt is a dead session.  `PROJECT.json` lists each component with its reason
and each hazard that has no property.

## 6. Sequences worth knowing

### Properties the code does not have

The modules define them next to the ones that hold; no run checks them, because
TLC refutes each within seconds (put it in the `INVARIANT` or `PROPERTY` line of
the run of its module).

* `RouteLifecycle!QueuedRedeployKept`: a rejection does not discard a queued
  redeploy (comment in `routestate.go`).  An update is approved, a second one
  submitted from `pending_deploy` and rejected: the route is `active` and serves
  the config before the first update.
* `RouteLifecycle!CancelledCreateWasNeverDeployed` (comment in `route_approval.go`):
  an approved create is deployed, then cancelled; the row is gone and the
  HTTPRoute serves on.
* `RouteLifecycle!ServedPoliciesWereApproved`: the policies of a pending or rejected
  update are in the table and any redeploy applies them.
* `CertDistribution!DistributorSoleWriter` (comment in
  `managed_certificate_service.go`): Status saves the row it read before the
  distributor recorded a new fingerprint.
* `ClientAccess!RevokedCredentialRemoved` (comment in `client_auth.go`): after a key
  is revoked and the route redeployed, a client without any other method keeps
  its route and Secret, because the deploy skips it and the clean-up still
  expects its prefix.
* `CertUse!DetachRevertsListener` (`domain_service.go`, DetachCertificate): a domain
  whose certificate was chosen by the name of its Secret keeps that name, so the
  listener stays on the managed certificate.

### Approvals and routes

* Cancel accepts approvals that are already approved, whatever has happened since.
  A cancelled update returns the route to `active` while the approved config
  stays in the row; a later redeploy serves it.  A cancel while another approval
  is pending moves the status away from under it.
* A rejected create can only be resubmitted as an update.  Deploy then updates an
  HTTPRoute that does not exist and the route cannot be deployed.
* With approvals off no approval is stored, yet Deploy of a new route asks for the
  latest approved one; an update in this mode moves the status and keeps the old
  config.
* Update and Delete go on when the look-up of pending approvals fails, and then open a
  second approval if there is one.  Whichever is decided first moves the status away
  from under the other.
* Deploy of a `pending_deploy` route takes any error of the look-up of the latest
  approved approval for "there is none", and deploys an update: a route whose
  delete was approved is `active` then, and goes with the next redeploy that some
  client change queues.
* Deploy takes its action from the latest approved approval.  A redeploy queued by
  a client change after an approved delete was superseded is decided by that
  older approval.
* Deploy of a delete removes the approvals before the row.  If the last call
  fails, the row stays without an approval to take its action from.
* An update that drops the BackendTrafficPolicy deletes its row; Deploy then
  finds none and leaves the object in the cluster.
* The action's policy and the default are read in turn: an administrator who adds
  the first and removes the second in between gets the submission the one-stage
  fallback although some policy always existed.  A team assigned to the project
  between the two reads of `other_team` may be the submitter's own.
* A policy may number two stages alike; every submission under it then fails on the
  unique index of the stages.  When seeding the defaults fails, which is only
  logged, attachments are refused and routes get the fallback.

### Certificates

* Push and upsert succeed and SetIssuedMeta fails: the row is `synced`, so no later
  pass repeats the call, until a renewal or a Resync.
* Delete of a certificate races a pass that has read the source: the pass pushes
  after the Secret was removed, and nobody deletes it again.
* Cancelling an approved certificate deletes its row and nothing else: cert-manager
  keeps renewing, and the copy in the project's cluster stays as it was.
* An export consumes its grant before the Secrets are read; a failing read has used
  it up, and for an ACME issuer, which has no CA Secret, every read fails.
* A delete of an issuer, or a revocation, that counted just before a certificate was
  inserted goes through, and the certificate cannot be renewed.  Deleting an
  issuer removes its objects before its row.
* A Status that was reading while the certificate was deleted inserts it again.

### Clients

* A rejected or cancelled detach marks the live attachment rejected, and the next
  deploy drops the client.
* The cascade and the callbacks queue only routes that are `active`; a failing
  clean-up of a client's route is logged and the route counts as deployed.
* Two requests at a time.  An attachment that is approved while a deploy runs is
  marked active at its end although the deploy did not include it: the client has
  no access, and the base route may still be open to all.  A detach that reads the
  route as `pending_deploy` just before a deploy ends leaves it alone, and the
  detached client is served by an active route.  Two requests that attach the same
  rejected client again overwrite each other's methods, and the approval of one
  turns on those of the other.

### Gateways and DNS

* Two port checks that overlap both pass.  A template whose listener moves does not
  re-apply the Gateways that use it, so the old port stays open while a stream may
  claim it; an update may also drop a listener that domains are bound to.
* A domain whose server stopped between the row and the Gateway stays `pending`:
  only streams are reconciled at start-up.  Whole-row saves can bring back a
  deleted domain.  Deleting a template removes its GatewayClass before the foreign
  key refuses.
* A change of a record's type leaves the record of the old type at the provider; a
  write whose save was lost makes the own record look foreign; a failing DNS delete
  during the delete of a domain is only logged.
* Two rows for one provider zone, or two enables at the same time, let two projects
  claim one hostname.

### Directory

* Update of a user, a change of password and a sign-on save the row they read.  The
  number of tokens is counted before the insert.  A team is deleted in three steps.

## 7. Plan

1. The deploy of `ClientAccess` against an abstract specification of who is let
   through, as `RouteLifecycle` against `RouteContract`.
2. `client_access` with two requests at a time, with the objects on which they
   overlapped set apart as in `Gateways`, once its state is smaller.
3. Versions and rollback; several kinds of policies and Backend objects in
   `RouteLifecycle`; reference grants and mTLS of domains.
