----------------------------- MODULE Directory -----------------------------
(***************************************************************************)
(* Users, teams, projects and what they grant: the tables behind every     *)
(* permission check (services/team_service.go, user_service.go,            *)
(* preset_service.go, project_service.go, sso_service.go, auth_service.go  *)
(* and their repositories) and the checks of middleware/permissions.go.    *)
(*                                                                         *)
(* The tables are one record d; a check is a predicate on it and a write   *)
(* a function from tables to tables.                                       *)
(***************************************************************************)
EXTENDS Integers, FiniteSets, Sequences

CONSTANTS
    Users,       \* user ids, each with one email address
    Teams,       \* team ids
    Projects,    \* project ids
    Custom,      \* names of presets that are not built in
    CustomPerms, \* the lists of permissions a custom preset may be given, by name
    TokenLimit   \* API tokens per user (10 in the code)

\* models/team.go: the permissions and the presets every project starts with.
RoutePerms == {"route.view", "route.create", "route.edit", "route.delete",
               "route.deploy", "route.approve"}
ClientPerms == {"client.view", "client.create", "client.edit", "client.delete",
                "client.manage_ip", "client.manage_apikey", "client.manage_jwt",
                "client.attach", "client.detach", "client.approve"}
DomainPerms == {"domain.view", "domain.create", "domain.edit", "domain.delete"}
CertificatePerms == {"certificate.view", "certificate.create", "certificate.edit",
                     "certificate.delete", "certificate.approve"}
AllPermissions ==
    RoutePerms \cup ClientPerms \cup DomainPerms \cup CertificatePerms
        \cup {"project.settings", "project.teams", "project.approval_policy", "audit.view"}
Builtin == {"Viewer", "Editor", "Approver", "Admin"}
BuiltinPerms == [
    Viewer   |-> {"route.view", "client.view", "domain.view", "certificate.view"},
    Editor   |-> (RoutePerms \ {"route.approve"})
                    \cup (ClientPerms \ {"client.delete", "client.approve"})
                    \cup (DomainPerms \ {"domain.delete"})
                    \cup (CertificatePerms \ {"certificate.approve"}),
    Approver |-> {"route.view", "route.approve", "client.view", "client.approve",
                  "domain.view", "certificate.view", "certificate.approve"},
    Admin    |-> AllPermissions]
PresetNames == Builtin \cup Custom

Lists == Builtin \cup DOMAIN CustomPerms
PermissionsOf(list) == IF list \in Builtin THEN BuiltinPerms[list] ELSE CustomPerms[list]

\* IsValidPermission: a preset may only list known permissions.
ASSUME DirectoryAssumption ==
    /\ TokenLimit \in Nat /\ Custom \cap Builtin = {}
    /\ \A list \in DOMAIN CustomPerms :
          list \notin Builtin \cup {"none"} /\ CustomPerms[list] \subseteq AllPermissions

UserRow == [role : {"owner", "user"}, active : BOOLEAN]
NoUser == [role |-> "none", active |-> FALSE]
Tables == [user : [Users -> UserRow \cup {NoUser}], team : SUBSET Teams,
           member : SUBSET (Teams \X Users), project : SUBSET Projects,
           admin : SUBSET (Projects \X Users),
           preset : [Projects -> [PresetNames -> Lists \cup {"none"}]],
           role : SUBSET (Projects \X Teams),
           grant : SUBSET (Projects \X Teams \X PresetNames),
           invite : SUBSET (Teams \X Users), tokens : [Users -> Nat]]

---------------------------------------------------------------------------
\* middleware/permissions.go, evaluated on the tables as they are now.
IsMember(d, t, u) == <<t, u>> \in d.member
IsProjectAdmin(d, p, u) == <<p, u>> \in d.admin
UserTeamsInProject(d, p, u) == {t \in Teams : <<p, t>> \in d.role /\ IsMember(d, t, u)}

\* HasPermissionInProject: one joined query over roles, members and presets.
HasPermissionInProject(d, p, u, perm) ==
    \E t \in UserTeamsInProject(d, p, u), n \in PresetNames :
        <<p, t, n>> \in d.grant /\ perm \in PermissionsOf(d.preset[p][n])
HasPermissionInAnyProject(d, u, perm) ==
    \E p \in Projects : HasPermissionInProject(d, p, u, perm)

\* The user is the row Authenticate loaded: role `owner' is not read again.
HasTeamPermission(d, p, u, role, perm) ==
    role = "owner" \/ HasPermissionInProject(d, p, u, perm)
HasPermission(d, p, u, role, perm) ==
    HasTeamPermission(d, p, u, role, perm) \/ IsProjectAdmin(d, p, u)
HasProjectAccess(d, p, u, role) ==
    role = "owner" \/ IsProjectAdmin(d, p, u) \/ UserTeamsInProject(d, p, u) # {}
IsOwnerOrAdmin(d, p, u, role) == role = "owner" \/ IsProjectAdmin(d, p, u)
CanAccessTeamResource(d, t, u, role) == role = "owner" \/ IsMember(d, t, u)
CanManageDomainTemplates(d, p, u, role) == IsOwnerOrAdmin(d, p, u, role)
\* Mutant of CanManageDomains: the right to see domains is enough.
CanManageDomains_View(d, p, u, role) == HasPermission(d, p, u, role, "domain.view")
CanManageDomains(d, p, u, role) == HasPermission(d, p, u, role, "domain.delete")
CanManageTeams(d, p, u, role) == HasPermission(d, p, u, role, "project.teams")
CanCreateRoutes(d, p, u, role) == HasPermission(d, p, u, role, "route.create")
CanViewAudit(d, p, u, role) == HasPermission(d, p, u, role, "audit.view")
CanCreateCertificates(d, p, u, role) == HasPermission(d, p, u, role, "certificate.create")
CanManageCertificates(d, p, u, role) == HasPermission(d, p, u, role, "certificate.delete")
CanEditCertificates(d, p, u, role) == HasPermission(d, p, u, role, "certificate.edit")
CanViewCertificates(d, p, u, role) == HasPermission(d, p, u, role, "certificate.view")

---------------------------------------------------------------------------
\* The writes, as functions from tables to tables.  An insert that a foreign
\* key or a unique index refuses changes nothing; its condition is Can...
NoPresets == [n \in PresetNames |-> "none"]
Naming(rel, i, x) == {e \in rel : e[i] = x}

CanCreateUser(d, u) == d.user[u] = NoUser
SaveUser(d, u, row) == [d EXCEPT !.user[u] = row]
DeleteUser(d, u) == [d EXCEPT !.user[u] = NoUser, !.tokens[u] = 0,
                              !.member = @ \ Naming(@, 2, u),
                              !.admin = @ \ Naming(@, 2, u)]

CreateTeam(d, t) == [d EXCEPT !.team = @ \cup {t}]
ClearMembers(d, t) == [d EXCEPT !.member = @ \ Naming(@, 1, t)]
ClearRoles(d, t) == [d EXCEPT !.role = @ \ Naming(@, 2, t), !.grant = @ \ Naming(@, 2, t)]
RemoveTeam(d, t) == [ClearRoles(ClearMembers(d, t), t) EXCEPT
                        !.team = @ \ {t}, !.invite = @ \ Naming(@, 1, t)]
CanAddMember(d, t, u) == t \in d.team /\ d.user[u] # NoUser /\ ~IsMember(d, t, u)
AddMember(d, t, u) == [d EXCEPT !.member = @ \cup {<<t, u>>}]
RemoveMember(d, t, u) == [d EXCEPT !.member = @ \ {<<t, u>>}]

\* Invites are by email: of a user that may not have a row yet.
CanInvite(d, t, u) == t \in d.team /\ d.user[u] = NoUser /\ <<t, u>> \notin d.invite
Invite(d, t, u) == [d EXCEPT !.invite = @ \cup {<<t, u>>}]
DeleteInvite(d, t, u) == [d EXCEPT !.invite = @ \ {<<t, u>>}]
\* Mutant of JoinInvited: every team takes the account in.
JoinInvited_AllTeams(d, u) == [d EXCEPT !.member = @ \cup {<<t, u>> : t \in d.team}]
JoinInvited(d, u) == [d EXCEPT !.member = @ \cup Naming(d.invite, 2, u)]
ClearInvites(d, u) == [d EXCEPT !.invite = @ \ Naming(@, 2, u)]

PresetsExist(d, p, names) == names # {} /\ \A n \in names : d.preset[p][n] # "none"
CanAssignTeam(d, p, t, names) ==
    p \in d.project /\ t \in d.team /\ <<p, t>> \notin d.role /\ PresetsExist(d, p, names)
CanUpdatePresets(d, p, t, names) == <<p, t>> \in d.role /\ PresetsExist(d, p, names)
Ungrant(d, p, t) == {g \in d.grant : g[1] # p \/ g[2] # t}
GrantPresets(d, p, t, names) ==
    [d EXCEPT !.role = @ \cup {<<p, t>>},
              !.grant = Ungrant(d, p, t) \cup {<<p, t, n>> : n \in names}]
UnassignTeam(d, p, t) == [d EXCEPT !.role = @ \ {<<p, t>>}, !.grant = Ungrant(d, p, t)]

CanAddAdmin(d, p, u) == p \in d.project /\ d.user[u] # NoUser /\ <<p, u>> \notin d.admin
AddAdmin(d, p, u) == [d EXCEPT !.admin = @ \cup {<<p, u>>}]
RemoveAdmin(d, p, u) == [d EXCEPT !.admin = @ \ {<<p, u>>}]

InsertProject(d, p) == [d EXCEPT !.project = @ \cup {p}]
\* The built-in presets are inserted one after the other, in this order.
SeedBuiltinPresets(d, p, names) ==
    [d EXCEPT !.preset[p] = [n \in PresetNames |-> IF n \in names THEN n ELSE d.preset[p][n]]]
Seeded == {{}, {"Viewer"}, {"Viewer", "Editor"}, {"Viewer", "Editor", "Approver"}, Builtin}
DeleteProject(d, p) ==
    [d EXCEPT !.project = @ \ {p}, !.preset[p] = NoPresets, !.admin = @ \ Naming(@, 1, p),
              !.role = @ \ Naming(@, 1, p), !.grant = @ \ Naming(@, 1, p)]

\* Built-in presets cannot be changed or deleted, presets in use not deleted.
CanCreatePreset(d, p, n) == p \in d.project /\ n \in Custom /\ d.preset[p][n] = "none"
CanUpdatePreset(d, p, n) == n \in Custom /\ d.preset[p][n] # "none"
IsPresetInUse(d, p, n) == \E t \in Teams : <<p, t, n>> \in d.grant
SavePreset(d, p, n, list) == [d EXCEPT !.preset[p][n] = list]
\* Mutant of DeletePreset: assignments to teams do not cascade.
DeletePreset_KeepsGrants(d, p, n) == [d EXCEPT !.preset[p][n] = "none"]
DeletePreset(d, p, n) == [d EXCEPT !.preset[p][n] = "none",
                                   !.grant = {g \in @ : g[1] # p \/ g[3] # n}]

CanCreateToken(d, u) == d.tokens[u] < TokenLimit
CreateToken(d, u) == [d EXCEPT !.tokens[u] = @ + 1]
RevokeToken(d, u) == [d EXCEPT !.tokens[u] = @ - 1]

---------------------------------------------------------------------------
\* What the foreign keys and the repositories keep: members are users of
\* existing teams, admins users of existing projects, a team's presets in a
\* project exist and come with its role, and no invite or token outlives its
\* team or its user.
Consistent(d) ==
    /\ \A m \in d.member : m[1] \in d.team /\ d.user[m[2]] # NoUser
    /\ \A a \in d.admin : a[1] \in d.project /\ d.user[a[2]] # NoUser
    /\ \A r \in d.role : r[1] \in d.project /\ r[2] \in d.team
    /\ \A g \in d.grant : <<g[1], g[2]>> \in d.role /\ d.preset[g[1]][g[3]] # "none"
    /\ \A i \in d.invite : i[1] \in d.team
    /\ \A u \in Users : d.tokens[u] > 0 => d.user[u] # NoUser
=============================================================================
