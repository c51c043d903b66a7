--------------------------- MODULE StagePlanning ---------------------------
(***************************************************************************)
(* What gate a submission gets: Engine.Submit plans the stages of a new    *)
(* approval from the project's approval policies and teams                 *)
(* (internal/approval/planning.go) while administrators create, change and *)
(* delete those policies (approval_policy_service.go) and move teams in    *)
(* and out of the project.                                                 *)
(*                                                                         *)
(* One project.  A policy row carries its key <<entity, action>>, where    *)
(* the action "" stands for NULL, the project default.  Every worker is an *)
(* HTTP request; each database call is one step and any of them may fail.  *)
(*                                                                         *)
(* An operator named Def_Bug is Def with a plausible bug in it; no         *)
(* specification uses it, the mutation runs put it in the place of Def.    *)
(***************************************************************************)
EXTENDS Integers, Sequences, ApprovalModel

CONSTANTS
    Workers,       \* HTTP requests that ever arrive
    Submitters,    \* submitters
    Teams,         \* teams of the instance
    Actions,       \* actions a submission or a policy can name
    MaxPolicies,   \* bound: policy rows ever inserted
    Permissions,   \* models.AllPermissions
    Words,         \* what a request body may give as a permission or a scope
    Requested,     \* worker -> the calls its request can be
    MaxFailed,     \* bound: database calls that fail
    MaxMoves,      \* bound: changes of team membership and assignment
    NoTeam         \* required_team_id IS NULL

\* Primary keys are only names: the table hands them out in order.
Ids == 1..MaxPolicies

Entities == {"route", "client_attachment", "certificate"}
Default == ""
Keys == Entities \X (Actions \cup {Default})

\* models.PolicyStageTemplate (and PolicyStageInput) and models.ApprovalStage; a
\* request body may name a permission or a scope that does not exist.
Template == [order : Int, perm : Words, scope : Words, min : Int]
Stage == [order : Int, perm : Words, team : Teams \cup {NoTeam}, min : Int]

PlanOps == {"submit", "create", "update", "delete"}
NoCall == [op |-> "none"]
IsCall(c) ==
    /\ c.op \in PlanOps
    /\ c.op = "submit" => /\ c.entity \in Entities
                          /\ c.action \in Actions
                          /\ c.user \in Submitters
    /\ c.op = "create" => c.action \in Actions \cup {Default}
    /\ c.op \in {"create", "update"} => c.list \in Seq(Template)
    /\ c.op \in {"update", "delete"} => c.id \in Ids

ASSUME RequestedAssumption == \A w \in Workers : \A c \in Requested[w] : IsCall(c)
ASSUME WordsAssumption ==
    /\ Permissions \subseteq Words
    /\ {"route.approve", "client.approve", "certificate.approve"} \subseteq Permissions
    /\ {"any", "other_team", "submitter_team"} \subseteq Words
ASSUME NoTeamAssumption == NoTeam \notin Teams
ASSUME DefaultAssumption == Default \notin Actions
ASSUME PlanningBounds == MaxFailed \in Nat /\ MaxMoves \in Nat
ASSUME SeedAssumption == MaxPolicies \in Nat /\ MaxPolicies >= 2

VARIABLES
    policies,  \* approval_policies: id -> row
    used,      \* number of ids handed out so far
    member,    \* team_members
    assigned,  \* project_team_roles: the teams of the project
    approval,  \* the stages of the approval a submission stored
    at, loc,   \* each request: its next step and its local variables
    failed, moves,
    held,      \* history: what each key held while the request ran
    teamsHeld  \* history: who was where while the request ran

tables == <<policies, used>>
people == <<member, assigned>>
planVars == <<policies, used, member, assigned, approval, at, loc, failed, moves,
              held, teamsHeld>>

Row == [key : Keys \cup {<<"none", Default>>}, stages : Seq(Template)]
NoPolicy == [key |-> <<"none", Default>>, stages |-> <<>>]
NotStored == << >>

\* GetByProjectAndEntity: the stage lists filed under a key (at most one).
Found(table, key) ==
    {table[i].stages : i \in {j \in Ids : table[j] # NoPolicy /\ table[j].key = key}}

\* GetUserTeamsInProject.
TeamsIn(members, teams, u) == {t \in teams : <<t, u>> \in members}
TeamsOf(u) == TeamsIn(member, assigned, u)

IndexAllows_Any(i, key) == TRUE

\* The unique index on (project_id, entity_type, COALESCE(action, '')).
IndexAllows(i, key) ==
    \A j \in Ids \ {i} : policies[j] # NoPolicy => policies[j].key # key

---------------------------------------------------------------------------
\* ApprovalPolicyService.validateInput and the binding tags.

ValidEntityTypes == {"route", "client_attachment"}
ValidTeamScopes == {"any", "other_team", "submitter_team"}

ValidStages(list) ==
    /\ Len(list) > 0
    /\ \A n \in 1..Len(list) : /\ list[n].perm \in Permissions
                               /\ list[n].scope \in ValidTeamScopes

\* buildStageTemplates.
BuildTemplates(list) ==
    [n \in 1..Len(list) |-> [list[n] EXCEPT !.min = EffectiveMinApprovers(@)]]

---------------------------------------------------------------------------
\* PlanStages: pure parts.

PlanOf(template, team) ==
    [order |-> template.order, perm |-> template.perm, team |-> team,
     min |-> EffectiveMinApprovers(template.min)]

FallbackStage(perm) == <<[order |-> 1, perm |-> perm, team |-> NoTeam, min |-> 1]>>

\* noPolicyFallback: a client attachment is refused, the others get one stage.
FallbackFor(entity) ==
    CASE entity = "client_attachment" -> NotStored
      [] entity = "certificate"       -> FallbackStage("certificate.approve")
      [] OTHER                        -> FallbackStage("route.approve")

OtherTeams_Own(mine, all) == IF all = {} THEN {NoTeam} ELSE all

\* The teams "other_team" may resolve to: the query has no ORDER BY.
OtherTeams(mine, all) == IF all \subseteq mine THEN {NoTeam} ELSE all \ mine

---------------------------------------------------------------------------
\* Steps of one request.

Running(w) == at[w] \notin {"idle", "done"}
Proceed(w, label) == at' = [at EXCEPT ![w] = label]
Call(w) == loc[w].call
Key(w, action) == <<Call(w).entity, action>>
Idle == [call |-> NoCall, templates |-> <<>>, stages |-> <<>>, mine |-> {},
         row |-> NoPolicy]

Moment(table) == {<<k, Found(table, k)>> : k \in Keys}
TeamMoment(u) == [mine |-> TeamsOf(u), all |-> assigned]

Planning(w) == Running(w) /\ Call(w).op = "submit"

\* The history of the running submissions: all that was the case since they began.
Observe ==
    held' = [w \in Workers |-> IF Planning(w) THEN held[w] \cup Moment(policies')
                               ELSE held[w]]
ObserveTeams ==
    teamsHeld' = [w \in Workers |->
        IF Planning(w)
        THEN teamsHeld[w] \cup {[mine |-> TeamsIn(member', assigned', Call(w).user),
                               all |-> assigned']}
        ELSE teamsHeld[w]]

Start(w) ==
    /\ at[w] = "idle"
    /\ \E c \in Requested[w] :
          /\ loc' = [loc EXCEPT ![w].call = c]
          /\ Proceed(w, CASE c.op = "submit" -> "lookup"
                          [] c.op = "create" -> "check"
                          [] OTHER           -> "get")
          /\ IF c.op = "submit"
             THEN /\ held' = [held EXCEPT ![w] = Moment(policies)]
                  /\ teamsHeld' = [teamsHeld EXCEPT ![w] = {TeamMoment(c.user)}]
             ELSE UNCHANGED <<held, teamsHeld>>
    /\ UNCHANGED <<tables, people, approval, failed, moves>>

\* A database call fails: the request returns the error and has stored nothing.
\* (Create's look-up is the exception, see CheckDuplicate.)
FailCall(w) ==
    /\ Running(w)
    /\ at[w] # "check"
    /\ failed < MaxFailed
    /\ failed' = failed + 1
    /\ Proceed(w, "done")
    /\ UNCHANGED <<tables, people, approval, loc, moves, held, teamsHeld>>

\* Reading changes only the request's own state.
ReadOnly == UNCHANGED <<tables, people, approval, failed, moves, held, teamsHeld>>

\* The action-specific policy; ErrPolicyNotFound leads to the default.
LookupAction(w) ==
    /\ at[w] = "lookup"
    /\ LET rows == Found(policies, Key(w, Call(w).action)) IN
       \/ /\ rows = {}
          /\ Proceed(w, "lookupDefault")
          /\ UNCHANGED loc
       \/ \E list \in rows :
             /\ loc' = [loc EXCEPT ![w].templates = list]
             /\ Proceed(w, "resolve")
    /\ ReadOnly

LookupDefault_Swallowed(w) ==
    /\ at[w] = "lookupDefault"
    /\ \E list \in Found(policies, Key(w, Default)) \cup {<<>>} :
          loc' = [loc EXCEPT ![w].templates = list]
    /\ Proceed(w, "resolve")
    /\ ReadOnly

\* The project default; when it is missing too there are no templates.
LookupDefault(w) ==
    /\ at[w] = "lookupDefault"
    /\ LET rows == Found(policies, Key(w, Default)) IN
       \E list \in IF rows = {} THEN {<<>>} ELSE rows :
          loc' = [loc EXCEPT ![w].templates = list]
    /\ Proceed(w, "resolve")
    /\ ReadOnly

Resolved(w) == Len(loc[w].stages)
AtTemplate(w) == /\ at[w] = "resolve"
                 /\ Resolved(w) < Len(loc[w].templates)
NextTemplate(w) == loc[w].templates[Resolved(w) + 1]
AppendStage(w, team) ==
    loc' = [loc EXCEPT ![w].stages = Append(@, PlanOf(NextTemplate(w), team))]

ResolveAny(w) ==
    /\ AtTemplate(w)
    /\ NextTemplate(w).scope \in {"any", ""}
    /\ AppendStage(w, NoTeam)
    /\ UNCHANGED at
    /\ ReadOnly

\* submitter_team: the first team of the submitter, an error without one.
ResolveSubmitterTeam(w) ==
    /\ AtTemplate(w)
    /\ NextTemplate(w).scope = "submitter_team"
    /\ LET mine == TeamsOf(Call(w).user) IN
       \/ mine = {} /\ Proceed(w, "done") /\ UNCHANGED loc
       \/ \E t \in mine : AppendStage(w, t) /\ UNCHANGED at
    /\ ReadOnly

\* other_team reads the submitter's teams ...
ReadSubmitterTeams(w) ==
    /\ AtTemplate(w)
    /\ NextTemplate(w).scope = "other_team"
    /\ loc' = [loc EXCEPT ![w].mine = TeamsOf(Call(w).user)]
    /\ Proceed(w, "projectTeams")
    /\ ReadOnly

\* ... and then, in a query of its own, the teams of the project.
ResolveOtherTeam(w) ==
    /\ at[w] = "projectTeams"
    /\ \E t \in OtherTeams(loc[w].mine, assigned) : AppendStage(w, t)
    /\ Proceed(w, "resolve")
    /\ ReadOnly

DistinctOrders(stages) ==
    \A m, n \in 1..Len(stages) : stages[m].order = stages[n].order => m = n

\* Submit stores approval and stages in one INSERT; UNIQUE (approval_id,
\* stage_order) refuses a policy that numbers two stages alike.
StoreApproval(w) ==
    /\ at[w] = "resolve"
    /\ Resolved(w) = Len(loc[w].templates)
    /\ LET stages == IF loc[w].stages = <<>> THEN FallbackFor(Call(w).entity)
                     ELSE loc[w].stages IN
       approval' = [approval EXCEPT ![w] = IF DistinctOrders(stages) THEN stages
                                           ELSE NotStored]
    /\ Proceed(w, "done")
    /\ UNCHANGED <<tables, people, loc, failed, moves, held, teamsHeld>>

\* ApprovalPolicyService.Create: validate, then look for a row with this key.
\* A failing look-up counts as "none".
CheckDuplicate(w) ==
    /\ at[w] = "check"
    /\ LET c == Call(w) IN
       \/ /\ ~(ValidStages(c.list) /\ c.entity \in ValidEntityTypes)
          /\ Proceed(w, "done")
          /\ UNCHANGED failed
       \/ /\ ValidStages(c.list) /\ c.entity \in ValidEntityTypes
          /\ \/ /\ Proceed(w, IF Found(policies, <<c.entity, c.action>>) = {}
                              THEN "insert" ELSE "done")
                /\ UNCHANGED failed
             \/ /\ failed < MaxFailed
                /\ failed' = failed + 1
                /\ Proceed(w, "insert")
    /\ UNCHANGED <<tables, people, approval, loc, moves, held, teamsHeld>>

\* policyRepo.Create: a fresh id, unless the index refuses the key.
InsertPolicy(w) ==
    /\ at[w] = "insert"
    /\ Proceed(w, "done")
    /\ used < MaxPolicies
    /\ LET key == <<Call(w).entity, Call(w).action>> IN
       IF IndexAllows(used + 1, key)
       THEN /\ policies' = [policies EXCEPT ![used + 1] =
                   [key |-> key, stages |-> BuildTemplates(Call(w).list)]]
            /\ used' = used + 1
       ELSE UNCHANGED tables
    /\ Observe
    /\ UNCHANGED <<people, approval, loc, failed, moves, teamsHeld>>

\* Update and Delete read the row; Update has validated its stages, and the
\* entity of its body, first.
GetPolicy(w) ==
    /\ at[w] = "get"
    /\ LET c == Call(w) IN
       \/ /\ policies[c.id] # NoPolicy
          /\ c.op = "update" => ValidStages(c.list) /\ c.entity \in ValidEntityTypes
          /\ loc' = [loc EXCEPT ![w].row = policies[c.id]]
          /\ Proceed(w, IF c.op = "update" THEN "save" ELSE "remove")
       \/ /\ \/ policies[c.id] = NoPolicy
             \/ c.op = "update" /\ ~(ValidStages(c.list) /\ c.entity \in ValidEntityTypes)
          /\ Proceed(w, "done")
          /\ UNCHANGED loc
    /\ ReadOnly

\* policyRepo.Update saves the whole row it read, with the new stages: it
\* re-inserts a row deleted since, unless the index refuses its key by now.
SavePolicy(w) ==
    /\ at[w] = "save"
    /\ Proceed(w, "done")
    /\ LET c == Call(w) IN
       policies' = IF IndexAllows(c.id, loc[w].row.key)
                   THEN [policies EXCEPT ![c.id] =
                            [loc[w].row EXCEPT !.stages = BuildTemplates(c.list)]]
                   ELSE policies
    /\ Observe
    /\ UNCHANGED <<used, people, approval, loc, failed, moves, teamsHeld>>

DeletePolicy(w) ==
    /\ at[w] = "remove"
    /\ Proceed(w, "done")
    /\ policies' = [policies EXCEPT ![Call(w).id] = NoPolicy]
    /\ Observe
    /\ UNCHANGED <<used, people, approval, loc, failed, moves, teamsHeld>>

---------------------------------------------------------------------------
\* Team changes, one row each (their handlers are in Directory).

Moving == /\ moves < MaxMoves
          /\ moves' = moves + 1
          /\ ObserveTeams
          /\ UNCHANGED <<tables, approval, at, loc, failed, held>>

\* AddTeamMember or RemoveTeamMember.
MoveMember ==
    /\ \E t \in Teams, u \in Submitters :
          member' = IF <<t, u>> \in member THEN member \ {<<t, u>>}
                    ELSE member \cup {<<t, u>>}
    /\ UNCHANGED assigned
    /\ Moving

\* AssignTeamToProject or RemoveTeamFromProject.
MoveTeam ==
    /\ \E t \in Teams : assigned' = IF t \in assigned THEN assigned \ {t}
                                    ELSE assigned \cup {t}
    /\ UNCHANGED member
    /\ Moving

---------------------------------------------------------------------------

SeedRoute == <<[order |-> 1, perm |-> "route.approve", scope |-> "any", min |-> 0]>>
SeedAttachment ==
    <<[order |-> 1, perm |-> "client.approve", scope |-> "other_team", min |-> 0],
      [order |-> 2, perm |-> "client.approve", scope |-> "any", min |-> 0]>>

SeedRows == <<[key |-> <<"route", Default>>, stages |-> SeedRoute],
              [key |-> <<"client_attachment", Default>>, stages |-> SeedAttachment]>>

\* SeedDefaults inserts two rows, one by one, when the project is created; a
\* failure is only logged, so a project may have the first one or none.
SeedDefaults(n) == [i \in Ids |-> IF i <= n THEN SeedRows[i] ELSE NoPolicy]

PlanInit ==
    /\ used \in 0..2
    /\ policies = SeedDefaults(used)
    /\ member \in SUBSET (Teams \X Submitters)
    /\ assigned \in SUBSET Teams
    /\ approval = [w \in Workers |-> NotStored]
    /\ at = [w \in Workers |-> "idle"]
    /\ loc = [w \in Workers |-> Idle]
    /\ failed = 0 /\ moves = 0
    /\ held = [w \in Workers |-> {}]
    /\ teamsHeld = [w \in Workers |-> {}]

Submit(w) ==
    \/ LookupAction(w) \/ LookupDefault(w) \/ ResolveAny(w) \/ ResolveSubmitterTeam(w)
    \/ ReadSubmitterTeams(w) \/ ResolveOtherTeam(w) \/ StoreApproval(w)

Administer(w) ==
    \/ CheckDuplicate(w) \/ InsertPolicy(w) \/ GetPolicy(w)
    \/ SavePolicy(w) \/ DeletePolicy(w)

PlanNext ==
    \/ \E w \in Workers : Start(w) \/ FailCall(w) \/ Submit(w) \/ Administer(w)
    \/ MoveMember
    \/ MoveTeam

PlanSpec == PlanInit /\ [][PlanNext]_planVars

---------------------------------------------------------------------------
\* What the planned gate may be.

PlanPoints == {"idle", "lookup", "lookupDefault", "resolve", "projectTeams",
               "check", "insert", "get", "save", "remove", "done"}
Local == [call : {NoCall} \cup UNION {Requested[w] : w \in Workers},
          templates : Seq(Template), stages : Seq(Stage), mine : SUBSET Teams, row : Row]
Moments == Keys \X SUBSET Seq(Template)
TeamMoments == [mine : SUBSET Teams, all : SUBSET Teams]

PlanTypeOK ==
    /\ policies \in [Ids -> Row]
    /\ used \in 0..MaxPolicies
    /\ member \subseteq Teams \X Submitters
    /\ assigned \subseteq Teams
    /\ approval \in [Workers -> Seq(Stage)]
    /\ at \in [Workers -> PlanPoints]
    /\ loc \in [Workers -> Local]
    /\ failed \in 0..MaxFailed
    /\ moves \in 0..MaxMoves
    /\ held \in [Workers -> SUBSET Moments]
    /\ teamsHeld \in [Workers -> SUBSET TeamMoments]

\* The gate `stages' is what the policy `list' asks for, stage by stage.
Carries(stages, list) ==
    /\ Len(stages) = Len(list)
    /\ \A n \in 1..Len(list) : stages[n] = PlanOf(list[n], stages[n].team)

\* The policies that may rule w's submission: the action's own, or the default
\* when at some moment the action had none.
Ruling(w) ==
    UNION ({h[2] : h \in {g \in held[w] : g[1] = Key(w, Call(w).action)}}
           \cup {h[2] : h \in {g \in held[w] :
                    g[1] = Key(w, Default) /\ <<Key(w, Call(w).action), {}>> \in held[w]}})

\* At some moment the action had no policy, and at some moment there was no default.
Ungoverned(w) == /\ <<Key(w, Call(w).action), {}>> \in held[w]
                 /\ <<Key(w, Default), {}>> \in held[w]

\* The gate w stored, if any, is that of a policy or the legitimate fallback.
GateOf(w) ==
    approval[w] # NotStored =>
        \/ \E list \in Ruling(w) : Carries(approval[w], list)
        \/ /\ Ungoverned(w)
           /\ Call(w).entity # "client_attachment"
           /\ approval[w] = FallbackFor(Call(w).entity)

\* No silently weaker gate: the stages a submission stores are, one for one and
\* with the stored number of approvers, those of a policy that ruled the
\* submission while it ran; the one-stage fallback of noPolicyFallback is stored
\* only when both look-ups had truly nothing to find, never for an attachment
\* and never because a look-up failed or an administrator was at work.
GateIsAPolicys == \A w \in Workers : GateOf(w)

\* The team a stage asks for is the one its scope names: the submitter's own
\* team at some moment of the planning, or a team of the project that the
\* submitter was not in; "other_team" asks for no team only when the project
\* had no other.  resolveTeamScope reads both lists in turn, so the moments may
\* differ, but nothing else can widen the gate.
Honours(w, scope, team) ==
    CASE scope = "submitter_team" -> \E h \in teamsHeld[w] : team \in h.mine
      [] scope = "other_team" ->
            IF team = NoTeam
            THEN \E g, h \in teamsHeld[w] : h.all \subseteq g.mine
            ELSE \E g, h \in teamsHeld[w] : team \in h.all \ g.mine
      [] OTHER -> team = NoTeam

ScopesOf(w) ==
    approval[w] # NotStored =>
        \A n \in 1..Len(loc[w].templates) :
            Honours(w, loc[w].templates[n].scope, approval[w][n].team)

\* Every stage of a stored gate that follows a policy honours the team scope
\* that policy gave it (resolveTeamScope).
ScopesHonoured == \A w \in Workers : ScopesOf(w)

\* At most one policy per entity and action, whatever Create's check and the
\* saves of stale rows do: the look-ups take the first row they find.
OnePolicyPerKey ==
    \A i, j \in Ids : /\ policies[i] # NoPolicy /\ policies[j] # NoPolicy
                      /\ policies[i].key = policies[j].key
                     => i = j

---------------------------------------------------------------------------
\* What makes these inductive.

\* A request is where its call leads, and its body was validated before a write.
InPlace(w) ==
    /\ at[w] = "idle" => approval[w] = NotStored /\ loc[w].stages = <<>>
    /\ at[w] # "idle" => IsCall(Call(w))
    /\ at[w] \in {"lookup", "lookupDefault", "resolve", "projectTeams"} =>
          Call(w).op = "submit" /\ approval[w] = NotStored
    /\ at[w] \in {"check", "insert"} => Call(w).op = "create"
    /\ at[w] = "insert" => /\ ValidStages(Call(w).list)
                           /\ Call(w).entity \in ValidEntityTypes
    /\ at[w] = "save" => Call(w).op = "update" /\ ValidStages(Call(w).list)
    /\ at[w] \in {"get", "remove"} => Call(w).op \in {"update", "delete"}
    /\ at[w] \in {"lookup", "lookupDefault"} => loc[w].stages = <<>>
    /\ approval[w] # NotStored => at[w] = "done"

\* No policy is empty, now or in the history of a submission.
PoliciesNotEmpty ==
    /\ \A i \in Ids : policies[i] # NoPolicy => policies[i].stages # <<>>
    /\ \A w \in Workers : \A h \in held[w] : <<>> \notin h[2]

\* The history of a submission includes the present.
HistoryCurrent ==
    \A w \in Workers : Planning(w) =>
        /\ Moment(policies) \subseteq held[w]
        /\ TeamMoment(Call(w).user) \in teamsHeld[w]

\* What a submission has read and planned so far agrees with its history.
ReadsRule(w) ==
    /\ at[w] = "lookupDefault" => <<Key(w, Call(w).action), {}>> \in held[w]
    /\ at[w] \in {"resolve", "projectTeams"} =>
          \/ loc[w].templates \in Ruling(w)
          \/ loc[w].templates = <<>> /\ Ungoverned(w)

StagesSoFar(w) ==
    at[w] \in {"resolve", "projectTeams"} =>
        /\ Resolved(w) <= Len(loc[w].templates)
        /\ \A n \in 1..Resolved(w) :
              /\ loc[w].stages[n] = PlanOf(loc[w].templates[n], loc[w].stages[n].team)
              /\ Honours(w, loc[w].templates[n].scope, loc[w].stages[n].team)

OtherTeamHalfRead(w) ==
    at[w] = "projectTeams" =>
        /\ Resolved(w) < Len(loc[w].templates)
        /\ loc[w].templates[Resolved(w) + 1].scope = "other_team"
        /\ \E g \in teamsHeld[w] : g.mine = loc[w].mine

RequestInv(w) ==
    /\ InPlace(w) /\ ReadsRule(w) /\ StagesSoFar(w) /\ OtherTeamHalfRead(w)
    /\ GateOf(w) /\ ScopesOf(w)

PlanInv ==
    /\ \A w \in Workers : RequestInv(w)
    /\ PoliciesNotEmpty
    /\ HistoryCurrent
===========================================================================
