----------------------------- MODULE RequestGate -----------------------------
(***************************************************************************)
(* API requests running side by side over the directory tables: every      *)
(* request authenticates, passes the checks of its router group and its    *)
(* handler one by one, and then acts (cmd/server/main.go, middleware/,     *)
(* handlers/, and the services behind the directory endpoints).            *)
(*                                                                         *)
(* The checks read the tables as they are at that moment while other       *)
(* requests change them; the user's own row is read once, by Authenticate, *)
(* and its role is used for the rest of the request.                       *)
(***************************************************************************)
EXTENDS Directory, Endpoints

CONSTANTS
    Workers,        \* requests that run at the same time
    Serves,         \* Serves[w]: the endpoints worker w is called for
    PresetChoices,  \* sets of presets a request may assign
    MaxChanging     \* bound on the number of requests that change the directory

AllEndpoints == Public \cup DirectoryEndpoints \cup ResourceEndpoints

ASSUME GateAssumption == /\ MaxChanging \in Nat /\ PresetChoices \subseteq SUBSET PresetNames
                         /\ \A w \in Workers : Serves[w] \subseteq AllEndpoints

VARIABLES
    d,       \* the directory tables
    loc,     \* loc[w]: the request worker w is serving
    begun    \* number of requests so far that may change the directory

vars == <<d, loc, begun>>

\* user, role: the caller and the role Authenticate loaded; project, team: of
\* the path, the body or the loaded row; todo: remaining steps; row: the user
\* row a read left for the save after it; had: whether the caller has had the
\* standing its first query or change needs, at some moment of the request.
Idle == [user |-> "none", role |-> "none", project |-> "none", team |-> "none",
         todo |-> <<>>, row |-> <<>>, had |-> FALSE, needs |-> "none"]

PlatformSteps == {"user.create", "user", "user.save", "user.delete", "team.create",
                  "team.clearMembers", "team.clearRoles", "team.remove", "member.add",
                  "member.remove", "invitee", "invite.add", "invite.remove", "project.insert",
                  "project.admin", "project.seed", "admin.add", "admin.remove"}
TeamSteps == {"role.assign", "role.update", "role.remove", "preset.create", "preset.save",
              "preset", "preset.delete"}
OwnSteps == {"tokens", "token.create", "token.revoke", "self", "self.save"}
SignInSteps == {"identity", "self.create", "self.join", "self.clearInvites"}

\* The steps that matter here: loading the row of the path and writing the
\* audit entry neither read nor change the directory, and it does not matter
\* whether a resource is read or changed.
Resources == {"public", "any", "platform", "project", "admin", "teamList", "templateRead",
              "template", "domain", "route", "routeTeam", "client", "attach", "detach", "audit",
              "teams", "certView", "certCreate", "certEdit", "certDelete"}
Silent(step) == step[1] \in {"load", "audit"}
Seen(step) == IF step[2] \in Resources /\ step[1] # "check" THEN <<"act", step[2]>> ELSE step
Steps(e) == LET loud == SelectSeq(e, LAMBDA step : ~Silent(step)) IN
            [i \in 1..Len(loud) |-> Seen(loud[i])]
Changes(todo) == \E i \in 1..Len(todo) : todo[i][1] \in {"read", "write"}

\* The class of resource a step is about, and of the first such step.
Class(x) == CASE x \in PlatformSteps -> "platform" [] x \in TeamSteps -> "teams"
              [] x \in OwnSteps -> "any" [] x \in SignInSteps -> "public"
              [] x = "project.delete" -> "admin" [] OTHER -> x
Acts(step) == step[1] \in {"read", "act", "write"}
Needs(todo) == Class(SelectSeq(todo, Acts)[1][2])

\* The classes of resources whose standing a passed check establishes.
Establishes(c) ==
    CASE c = "IsOwner" -> Resources
      [] c = "HasProjectAccess" -> {"project"}
      [] c \in {"IsOwnerOrAdmin", "CanManageDomainTemplates"} -> {"admin", "template"}
      [] c = "CanReadTemplates" -> {"templateRead"}
      [] c = "CanManageTeams" -> {"teams"}
      [] c = "CanViewAudit" -> {"audit"}
      [] c = "CanManageDomains" -> {"domain"}
      [] c = "CanCreateRoutes" -> {"route"}
      [] c = "IsRouteTeam" -> {"routeTeam"}
      [] c \in {"CanAccessTeamResource", "IsTeamMember"} -> {"client"}
      [] c = "CanListTeams" -> {"teamList"}
      [] c = "client.attach" -> {"attach"}
      [] c = "client.detach" -> {"detach"}
      [] c = "certificate.view" -> {"certView"}
      [] c = "certificate.create" -> {"certCreate"}
      [] c = "certificate.edit" -> {"certEdit"}
      [] c = "certificate.delete" -> {"certDelete"}
      [] OTHER -> {}

CheckNames == {"IsOwner", "HasProjectAccess", "IsOwnerOrAdmin", "CanManageDomainTemplates",
               "CanReadTemplates", "CanManageTeams", "CanViewAudit", "CanManageDomains",
               "CanCreateRoutes", "IsRouteTeam", "CanAccessTeamResource", "IsTeamMember",
               "CanListTeams"} \cup ClientPerms \cup CertificatePerms
Step == {"check", "act", "read", "write"} \X
        (CheckNames \cup Resources \cup PlatformSteps \cup TeamSteps \cup OwnSteps \cup SignInSteps
            \cup {"project.delete", "member.addInvitee"})

\* What the proofs use of a program: a sufficient check comes before the first
\* step that acts, all steps that act are about one class, a row is saved right
\* after it was read, and the step that adds an invited address is chosen at
\* run time only.
ChecksFirst(todo, class) ==
    \E i \in 1..Len(todo) : /\ todo[i][1] = "check" /\ class \in Establishes(todo[i][2])
                           /\ \A j \in 1..(i - 1) : ~Acts(todo[j])
Guarded(todo, class) == class \in {"public", "any"} \/ ChecksFirst(todo, class)
Uniform(todo, class) == \A i \in 1..Len(todo) : Acts(todo[i]) => Class(todo[i][2]) = class
Saves == {"user", "self"}
SaveOf(x) == IF x = "user" THEN <<"write", "user.save">> ELSE <<"write", "self.save">>
ReadsBeforeSaves(todo) == \A i \in 1..Len(todo), x \in Saves :
    todo[i] = SaveOf(x) => i > 1 /\ todo[i - 1] = <<"read", x>>
Planned(todo) == \A i \in 1..Len(todo) : todo[i][2] \notin {"member.addInvitee", "invite.add"}

\* A statement without parameters about the handlers and the router.
ASSUME EndpointsAssumption ==
    \A e \in AllEndpoints :
        LET todo == Steps(e) IN
        /\ todo \in Seq(Step)
        /\ Guarded(todo, Needs(todo)) /\ Uniform(todo, Needs(todo))
        /\ ReadsBeforeSaves(todo) /\ Planned(todo)

\* What the repository's API promises of each class of resource.
Standing(t, l) ==
    LET IsOwner == l.role = "owner"
        Holds(perm) == HasPermission(t, l.project, l.user, l.role, perm) IN
    CASE l.needs \in {"public", "any"} -> TRUE
      [] l.needs = "platform" -> IsOwner
      [] l.needs = "project" -> HasProjectAccess(t, l.project, l.user, l.role)
      [] l.needs \in {"admin", "template"} -> IsOwnerOrAdmin(t, l.project, l.user, l.role)
      [] l.needs = "routeTeam" -> \/ IsOwnerOrAdmin(t, l.project, l.user, l.role)
                                  \/ IsMember(t, l.team, l.user)
      [] l.needs = "client" -> IsOwner \/ IsMember(t, l.team, l.user)
      [] l.needs = "teamList" -> IsOwner \/ HasPermissionInAnyProject(t, l.user, "project.teams")
      [] l.needs = "teams" -> Holds("project.teams")
      [] l.needs = "templateRead" -> Holds("domain.delete")
      [] l.needs = "domain" -> Holds("domain.delete")
      [] l.needs = "route" -> Holds("route.create")
      [] l.needs = "attach" -> HasTeamPermission(t, l.project, l.user, l.role, "client.attach")
      [] l.needs = "detach" -> HasTeamPermission(t, l.project, l.user, l.role, "client.detach")
      [] l.needs = "audit" -> Holds("audit.view")
      [] l.needs = "certView" -> Holds("certificate.view")
      [] l.needs = "certCreate" -> Holds("certificate.create")
      [] l.needs = "certEdit" -> Holds("certificate.edit")
      [] l.needs = "certDelete" -> Holds("certificate.delete")
      [] OTHER -> FALSE

\* middleware/permissions.go and the role checks, as the handlers call them.
Passes(l, c) ==
    CASE c = "IsOwner" -> l.role = "owner"
      [] c = "HasProjectAccess" -> HasProjectAccess(d, l.project, l.user, l.role)
      [] c = "IsOwnerOrAdmin" -> IsOwnerOrAdmin(d, l.project, l.user, l.role)
      [] c = "CanManageDomainTemplates" -> CanManageDomainTemplates(d, l.project, l.user, l.role)
      [] c = "CanReadTemplates" -> \/ CanManageDomainTemplates(d, l.project, l.user, l.role)
                                   \/ CanManageDomains(d, l.project, l.user, l.role)
      [] c = "CanManageTeams" -> CanManageTeams(d, l.project, l.user, l.role)
      [] c = "CanViewAudit" -> CanViewAudit(d, l.project, l.user, l.role)
      [] c = "CanManageDomains" -> CanManageDomains(d, l.project, l.user, l.role)
      [] c = "CanCreateRoutes" -> CanCreateRoutes(d, l.project, l.user, l.role)
      [] c = "IsRouteTeam" -> \/ IsOwnerOrAdmin(d, l.project, l.user, l.role)
                              \/ IsMember(d, l.team, l.user)
      [] c = "CanAccessTeamResource" -> CanAccessTeamResource(d, l.team, l.user, l.role)
      [] c = "IsTeamMember" -> IsMember(d, l.team, l.user)
      [] c = "CanListTeams" -> \/ l.role = "owner"
                               \/ HasPermissionInAnyProject(d, l.user, "project.teams")
      [] c \in ClientPerms -> HasTeamPermission(d, l.project, l.user, l.role, c)
      [] c = "certificate.view" -> CanViewCertificates(d, l.project, l.user, l.role)
      [] c = "certificate.create" -> CanCreateCertificates(d, l.project, l.user, l.role)
      [] c = "certificate.edit" -> CanEditCertificates(d, l.project, l.user, l.role)
      [] c = "certificate.delete" -> CanManageCertificates(d, l.project, l.user, l.role)

\* Fresh: the default administrator alone (SeedDefaultAdmin).  Start: also a
\* project, perhaps with a preset of its own, and a team of one member with the
\* named presets in it; built with the operations themselves.
Fresh(owner) ==
    LET empty == [user |-> [u \in Users |-> NoUser], team |-> {}, member |-> {}, project |-> {},
                  admin |-> {}, preset |-> [q \in Projects |-> NoPresets], role |-> {},
                  grant |-> {}, invite |-> {}, tokens |-> [u \in Users |-> 0]]
    IN  SaveUser(empty, owner, [role |-> "owner", active |-> TRUE])
Start(owner, member, p, t, names, own) ==
    LET made == SeedBuiltinPresets(AddAdmin(InsertProject(Fresh(owner), p), p, owner), p, Builtin)
        preset == IF own = <<>> THEN made ELSE SavePreset(made, p, own[1], own[2])
        joined == AddMember(SaveUser(CreateTeam(preset, t), member,
                                     [role |-> "user", active |-> TRUE]), t, member)
    IN  IF PresetsExist(joined, p, names) THEN GrantPresets(joined, p, t, names) ELSE joined

Init ==
    /\ \E owner \in Users, member \in Users, p \in Projects, t \in Teams,
          names \in PresetChoices \cup {{}}, own \in (Custom \X DOMAIN CustomPerms) \cup {<<>>} :
            owner # member /\ d \in {Fresh(owner), Start(owner, member, p, t, names, own)}
    /\ loc = [w \in Workers |-> Idle]
    /\ begun = 0

---------------------------------------------------------------------------
\* One step of worker w: its request becomes l and the tables t; every open
\* request sees whether its caller now has the standing it needs.
Observed(l, t) == IF l.todo = <<>> THEN Idle ELSE [l EXCEPT !.had = @ \/ Standing(t, l)]
Go(w, l, t) ==
    /\ loc' = [v \in Workers |-> Observed(IF v = w THEN l ELSE loc[v], t)]
    /\ d' = t
Rest(w) == [loc[w] EXCEPT !.todo = Tail(@)]
At(w, kind) == loc[w].todo # <<>> /\ Head(loc[w].todo)[1] = kind
Arg(w) == Head(loc[w].todo)[2]

\* A request with no token, and Authenticate: the caller's row must exist and
\* be active.
Opened(u, role, p, t, e) ==
    LET todo == Steps(e) IN
    [Idle EXCEPT !.user = u, !.role = role, !.project = p, !.team = t, !.todo = todo,
                 !.needs = Needs(todo)]
Open(w, l) ==
    /\ Go(w, l, d)
    /\ IF Changes(l.todo) THEN begun < MaxChanging /\ begun' = begun + 1 ELSE UNCHANGED begun

BeginPublic(w) ==
    /\ loc[w] = Idle
    /\ \E u \in Users, p \in Projects, t \in Teams, e \in Serves[w] \cap Public :
            Open(w, Opened(u, "none", p, t, e))

Authenticate(w) ==
    /\ loc[w] = Idle
    /\ \E u \in Users, p \in Projects, t \in Teams, e \in Serves[w] \ Public :
            d.user[u].active /\ Open(w, Opened(u, d.user[u].role, p, t, e))

\* 401, 403, 404, a refused input, a failed query or write: the request ends.
Refuse(w) == loc[w] # Idle /\ Go(w, Idle, d) /\ UNCHANGED begun

PermissionCheck(w) ==
    /\ At(w, "check")
    /\ Passes(loc[w], Arg(w))
    /\ Go(w, Rest(w), d) /\ UNCHANGED begun

\* A read of a resource or a change that another module describes.
UseResource(w) == At(w, "act") /\ Go(w, Rest(w), d) /\ UNCHANGED begun

---------------------------------------------------------------------------
\* Reads whose result is used later in the request.

\* UserService.Update loads the row and changes the fields the input names.
ReadUser(w) ==
    /\ At(w, "read") /\ Arg(w) = "user"
    /\ \E u \in Users, on \in BOOLEAN :
          /\ d.user[u] # NoUser
          /\ Go(w, [Rest(w) EXCEPT !.row = <<u, [d.user[u] EXCEPT !.active = on]>>], d)
    /\ UNCHANGED begun

\* ChangePassword loads the caller's own row.
ReadSelf(w) ==
    /\ At(w, "read") /\ Arg(w) = "self"
    /\ d.user[loc[w].user] # NoUser
    /\ Go(w, [Rest(w) EXCEPT !.row = <<loc[w].user, d.user[loc[w].user]>>], d)
    /\ UNCHANGED begun

\* PresetService.Delete: not built in, not assigned to a team.
ReadPreset(w) ==
    /\ At(w, "read") /\ Arg(w) = "preset"
    /\ \E n \in Custom :
          /\ CanUpdatePreset(d, loc[w].project, n) /\ ~IsPresetInUse(d, loc[w].project, n)
          /\ Go(w, [Rest(w) EXCEPT !.row = <<n>>], d)
    /\ UNCHANGED begun

\* CreateAPIToken counts the caller's tokens before it inserts one.
ReadTokens(w) ==
    /\ At(w, "read") /\ Arg(w) = "tokens"
    /\ CanCreateToken(d, loc[w].user)
    /\ Go(w, Rest(w), d) /\ UNCHANGED begun

\* AddMemberByEmail: a known address joins at once, an unknown one is invited.
ReadInvitee(w) ==
    /\ At(w, "read") /\ Arg(w) = "invitee"
    /\ \E u \in Users :
          Go(w, [Rest(w) EXCEPT !.row = <<u>>,
                    !.todo = IF d.user[u] # NoUser THEN Write("member.addInvitee") \o @
                             ELSE Write("invite.add") \o @], d)
    /\ UNCHANGED begun

\* HandleCallback and findOrCreateUser: the account of the subject is signed
\* in, the account of the email address is linked to the subject, and an
\* unknown address registers.
ReadIdentity(w) ==
    /\ At(w, "read") /\ Arg(w) = "identity"
    /\ LET u == loc[w].user  row == d.user[loc[w].user] IN
       \E todo \in IF row = NoUser THEN {SSOService_Register} ELSE {<<>>, Write("self.save")} :
          Go(w, [loc[w] EXCEPT !.todo = todo, !.row = <<u, row>>], d)
    /\ UNCHANGED begun

---------------------------------------------------------------------------
\* Writes of the directory tables.
Writing(w, x) == At(w, "write") /\ Arg(w) = x
Change(w, t) == Go(w, Rest(w), t) /\ UNCHANGED begun

UserCreate(w) ==
    /\ Writing(w, "user.create")
    /\ \E u \in Users, role \in {"owner", "user"} :
          CanCreateUser(d, u) /\ Change(w, SaveUser(d, u, [role |-> role, active |-> TRUE]))
\* The whole row is saved as it was read; gorm inserts it when it is gone.
UserSave(w) ==
    /\ Writing(w, "user.save") \/ Writing(w, "self.save")
    /\ Change(w, SaveUser(d, loc[w].row[1], loc[w].row[2]))
UserDelete(w) == Writing(w, "user.delete") /\ \E u \in Users : Change(w, DeleteUser(d, u))

TeamCreate(w) ==
    Writing(w, "team.create") /\ \E t \in Teams \ d.team : Change(w, CreateTeam(d, t))
TeamClearMembers(w) == Writing(w, "team.clearMembers") /\ Change(w, ClearMembers(d, loc[w].team))
TeamClearRoles(w) == Writing(w, "team.clearRoles") /\ Change(w, ClearRoles(d, loc[w].team))
TeamRemove(w) == Writing(w, "team.remove") /\ Change(w, RemoveTeam(d, loc[w].team))
MemberAdd(w) ==
    \E u \in Users : /\ \/ Writing(w, "member.add")
                        \/ Writing(w, "member.addInvitee") /\ u = loc[w].row[1]
                     /\ CanAddMember(d, loc[w].team, u)
                     /\ Change(w, AddMember(d, loc[w].team, u))
MemberRemove(w) ==
    Writing(w, "member.remove") /\ \E u \in Users : Change(w, RemoveMember(d, loc[w].team, u))
InviteAdd(w) ==
    /\ Writing(w, "invite.add") /\ CanInvite(d, loc[w].team, loc[w].row[1])
    /\ Change(w, Invite(d, loc[w].team, loc[w].row[1]))
InviteRemove(w) ==
    Writing(w, "invite.remove") /\ \E u \in Users : Change(w, DeleteInvite(d, loc[w].team, u))

RoleAssign(w) ==
    /\ Writing(w, "role.assign")
    /\ \E names \in PresetChoices :
          /\ CanAssignTeam(d, loc[w].project, loc[w].team, names)
          /\ Change(w, GrantPresets(d, loc[w].project, loc[w].team, names))
RoleUpdate(w) ==
    /\ Writing(w, "role.update")
    /\ \E names \in PresetChoices :
          /\ CanUpdatePresets(d, loc[w].project, loc[w].team, names)
          /\ Change(w, GrantPresets(d, loc[w].project, loc[w].team, names))
RoleRemove(w) ==
    Writing(w, "role.remove") /\ Change(w, UnassignTeam(d, loc[w].project, loc[w].team))

AdminAdd(w) ==
    /\ Writing(w, "admin.add")
    /\ \E u \in Users : CanAddAdmin(d, loc[w].project, u) /\ Change(w, AddAdmin(d, loc[w].project, u))
AdminRemove(w) ==
    Writing(w, "admin.remove") /\ \E u \in Users : Change(w, RemoveAdmin(d, loc[w].project, u))

\* ProjectService.Create: the row, the creator as admin, the built-in presets;
\* a seeding that fails half way is only logged.
ProjectInsert(w) ==
    /\ Writing(w, "project.insert") /\ loc[w].project \notin d.project
    /\ Change(w, InsertProject(d, loc[w].project))
ProjectAdmin(w) ==
    /\ Writing(w, "project.admin") /\ CanAddAdmin(d, loc[w].project, loc[w].user)
    /\ Change(w, AddAdmin(d, loc[w].project, loc[w].user))
ProjectSeed(w) ==
    /\ Writing(w, "project.seed")
    /\ \E names \in Seeded : /\ names # {} => loc[w].project \in d.project
                            /\ Change(w, SeedBuiltinPresets(d, loc[w].project, names))
ProjectDelete(w) == Writing(w, "project.delete") /\ Change(w, DeleteProject(d, loc[w].project))

PresetCreate(w) ==
    /\ Writing(w, "preset.create")
    /\ \E n \in Custom, list \in DOMAIN CustomPerms :
          CanCreatePreset(d, loc[w].project, n) /\ Change(w, SavePreset(d, loc[w].project, n, list))
PresetSave(w) ==
    /\ Writing(w, "preset.save")
    /\ \E n \in Custom, list \in DOMAIN CustomPerms :
          CanUpdatePreset(d, loc[w].project, n) /\ Change(w, SavePreset(d, loc[w].project, n, list))
PresetDelete(w) ==
    Writing(w, "preset.delete") /\ Change(w, DeletePreset(d, loc[w].project, loc[w].row[1]))

TokenCreate(w) ==
    /\ Writing(w, "token.create") /\ d.user[loc[w].user] # NoUser
    /\ Change(w, CreateToken(d, loc[w].user))
TokenRevoke(w) ==
    /\ Writing(w, "token.revoke") /\ d.tokens[loc[w].user] > 0
    /\ Change(w, RevokeToken(d, loc[w].user))

\* A new account of single sign-on: the role is always `user'; the teams that
\* invited its address take it in, and the invites are deleted.
SelfCreate(w) ==
    /\ Writing(w, "self.create") /\ CanCreateUser(d, loc[w].user)
    /\ Change(w, SaveUser(d, loc[w].user, [role |-> "user", active |-> TRUE]))
SelfJoin(w) ==
    /\ Writing(w, "self.join")
    /\ Change(w, IF d.user[loc[w].user] = NoUser THEN d ELSE JoinInvited(d, loc[w].user))
SelfClearInvites(w) ==
    Writing(w, "self.clearInvites") /\ Change(w, ClearInvites(d, loc[w].user))

---------------------------------------------------------------------------
Reads(w) == \/ ReadUser(w) \/ ReadSelf(w) \/ ReadPreset(w) \/ ReadTokens(w)
            \/ ReadInvitee(w) \/ ReadIdentity(w)
Writes(w) ==
    \/ UserCreate(w) \/ UserSave(w) \/ UserDelete(w) \/ TeamCreate(w) \/ TeamClearMembers(w)
    \/ TeamClearRoles(w) \/ TeamRemove(w) \/ MemberAdd(w) \/ MemberRemove(w) \/ InviteAdd(w)
    \/ InviteRemove(w) \/ RoleAssign(w) \/ RoleUpdate(w) \/ RoleRemove(w) \/ AdminAdd(w)
    \/ AdminRemove(w) \/ ProjectInsert(w) \/ ProjectAdmin(w) \/ ProjectSeed(w)
    \/ ProjectDelete(w) \/ PresetCreate(w) \/ PresetSave(w) \/ PresetDelete(w)
    \/ TokenCreate(w) \/ TokenRevoke(w) \/ SelfCreate(w) \/ SelfJoin(w) \/ SelfClearInvites(w)

Next == \E w \in Workers :
    \/ BeginPublic(w) \/ Authenticate(w) \/ Refuse(w) \/ PermissionCheck(w)
    \/ UseResource(w) \/ Reads(w) \/ Writes(w)

Spec == Init /\ [][Next]_vars

---------------------------------------------------------------------------
\* The tables, the budget and the open requests have their types: an open
\* request names a user, a project and a team and still has steps to take.
TypeOK ==
    /\ d \in Tables
    /\ begun \in 0..MaxChanging
    /\ \A w \in Workers :
          loc[w] = Idle \/ (/\ loc[w].user \in Users /\ loc[w].project \in Projects
                            /\ loc[w].team \in Teams /\ loc[w].todo # <<>>)

\* No request comes to the step that reads or changes a resource unless its
\* caller has had, at some moment since the request began, the standing the
\* API asks for that class of resource, whatever other requests do to the
\* tables between the checks: every handler of handlers/ reached through the
\* groups of main.go checks enough, and checks it before it acts.
ActsWithStanding ==
    \A w \in Workers : loc[w].todo # <<>> /\ Acts(Head(loc[w].todo)) => loc[w].had

\* The directory stays consistent while requests interleave and end half way:
\* members are users of existing teams, admins users of existing projects, a
\* team's presets in a project exist and come with its role, and no invite or
\* token outlives its team or its user (team_repository.go, the migrations'
\* foreign keys).
DirectoryConsistent == Consistent(d)

\* A right is never conjured up: whenever a caller without the owner role
\* gains access to a project, an owner, an administrator of that project or a
\* holder of project.teams in it had a request open (team and project services,
\* the owner-only router groups), or the caller itself takes up an invitation
\* to a team with a role in that project.
AccessIsGranted ==
    [][\A u \in Users, p \in Projects :
          (HasProjectAccess(d', p, u, "user") /\ ~HasProjectAccess(d, p, u, "user"))
            => \E w \in Workers :
                  \/ loc[w].had /\ loc[w].needs = "platform"
                  \/ loc[w].had /\ loc[w].needs = "teams" /\ loc[w].project = p
                  \/ loc[w].user = u /\ \E t \in Teams : <<t, u>> \in d.invite /\ <<p, t>> \in d.role]_vars
=============================================================================
