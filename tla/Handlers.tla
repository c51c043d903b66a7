------------------------------ MODULE Handlers ------------------------------
(***************************************************************************)
(* The HTTP handlers of internal/handlers as programs: the steps and the   *)
(* handlers of users, teams, projects, domains and DNS.  A program is the  *)
(* sequence of steps a request goes through after it was parsed:           *)
(*                                                                         *)
(*   Check(c)  a permission check; the request ends with 403 when it fails *)
(*   Load      reads the row the path names; the request may end with 404  *)
(*   Query(r)  a read of a resource of class r                             *)
(*   Read(x)   a read whose result a later step of the request uses        *)
(*   Write(r)  one change: of the directory tables (user.create, ...) or   *)
(*             of a resource of class r that another module describes      *)
(*   Audit     the audit entry, whose failure is ignored                   *)
(*                                                                         *)
(* Parsing, response bodies and status codes are left out.  The classes    *)
(* say what standing a step needs (RequestGate); `any' needs a signed-in   *)
(* user and `public' nothing.                                              *)
(***************************************************************************)
EXTENDS Sequences

Check(c) == << <<"check", c>> >>
Load     == << <<"load", "row">> >>
Query(r) == << <<"query", r>> >>
Read(x)  == << <<"read", x>> >>
Write(r) == << <<"write", r>> >>
Audit    == << <<"audit", "entry">> >>

\* Services whose work takes several steps on the directory tables.
UserService_Update == Read("user") \o Write("user.save")
TeamService_Delete == Write("team.clearMembers") \o Write("team.clearRoles") \o Write("team.remove")
TeamEmailInviteService_AddMemberByEmail == Read("invitee")
PresetService_Delete == Read("preset") \o Write("preset.delete")
ProjectService_Create == Write("project.insert") \o Write("project.admin") \o Write("project.seed")
AuthService_CreateAPIToken == Read("tokens") \o Write("token.create")
AuthService_ChangePassword == Read("self") \o Write("self.save")
SSOService_HandleCallback == Read("identity")
\* The new account of a callback: the row, then the teams it was invited to.
SSOService_Register == Write("self.create") \o Write("self.join") \o Write("self.clearInvites")

\* Authentication and single sign-on.
AuthHandler_Login == Query("public")
AuthHandler_RefreshToken == Query("public")
AuthHandler_Logout == Query("any")
AuthHandler_GetCurrentUser == Query("any")
AuthHandler_ListAPITokens == Query("any")
AuthHandler_CreateAPIToken == AuthService_CreateAPIToken
AuthHandler_RevokeAPIToken == Write("token.revoke")
AuthHandler_ChangePassword == AuthService_ChangePassword
AuthHandler_GetAPITokenCapabilities == Query("any")
SSOHandler_GetPublicConfig == Query("public")
SSOHandler_GetConfig == Query("platform")
SSOHandler_UpdateConfig == Write("platform")
SSOHandler_DisableSSO == Write("platform")
SSOHandler_Authorize == Query("public")
SSOHandler_Callback == SSOService_HandleCallback

\* Users, teams, presets and projects.
UserHandler_List == Query("platform")
UserHandler_Create == Write("user.create") \o Audit
UserHandler_Get == Query("platform")
UserHandler_Update == UserService_Update \o Audit
UserHandler_Delete == Load \o Write("user.delete") \o Audit
TeamHandler_List == Check("CanListTeams") \o Query("teamList")
TeamHandler_Create == Write("team.create") \o Audit
TeamHandler_Get == Query("platform")
TeamHandler_Update == Write("platform") \o Audit
TeamHandler_Delete == Load \o TeamService_Delete \o Audit
TeamHandler_ListMembers == Query("platform")
TeamHandler_AddMember == Write("member.add") \o Audit
TeamHandler_RemoveMember == Write("member.remove") \o Audit
TeamHandler_ListProjectTeams == Query("project")
TeamHandler_AssignTeamToProject == Write("role.assign") \o Audit
TeamHandler_GetProjectTeamRole == Query("project")
TeamHandler_UpdateTeamPresets == Write("role.update") \o Audit
TeamHandler_RemoveTeamFromProject == Write("role.remove") \o Audit
TeamHandler_ListTeamProjects == Query("platform")
TeamHandler_ListMyTeams == Query("any")
TeamHandler_ListMyTeamsInProject == Query("project")
TeamHandler_AddMemberByEmail == TeamEmailInviteService_AddMemberByEmail
TeamHandler_ListInvites == Query("platform")
TeamHandler_DeleteInvite == Write("invite.remove")
TeamHandler_ListProjectMembers == Query("project")
PresetHandler_List == Query("teams")
PresetHandler_Get == Query("teams")
PresetHandler_Create == Write("preset.create") \o Audit
PresetHandler_Update == Write("preset.save") \o Audit
PresetHandler_Delete == Load \o PresetService_Delete \o Audit
ProjectHandler_List == Query("any")
ProjectHandler_Create == ProjectService_Create \o Audit
ProjectHandler_Get == Query("project")
ProjectHandler_Update == Write("admin") \o Audit
ProjectHandler_Delete == Load \o Write("project.delete") \o Audit
ProjectHandler_TestConnection == Query("admin")
ProjectHandler_ListAdmins == Query("project")
ProjectHandler_AddAdmin == Write("admin.add") \o Audit
ProjectHandler_RemoveAdmin == Write("admin.remove") \o Audit
ProjectHandler_GetCapabilities == Query("project")
PermissionHandler_GetPermissions == Query("any")

\* Platform settings and own rows.
SystemSettingsHandler_Get == Query("platform")
SystemSettingsHandler_Update == Write("platform")
NotificationHandler_List == Query("any")
NotificationHandler_CountUnread == Query("any")
NotificationHandler_MarkAsRead == Write("any")
NotificationHandler_MarkAllAsRead == Write("any")
DocsHandler_GetOpenAPISpec == Query("any")

\* Domains, templates, namespaces and DNS.
DomainHandler_List == Query("project")
DomainHandler_Create == Check("CanManageDomains") \o Write("domain") \o Audit
DomainHandler_ListTLSSecrets == Query("project")
DomainHandler_Get == Query("project")
DomainHandler_Update == Check("CanManageDomains") \o Write("domain") \o Audit
DomainHandler_Delete == Check("CanManageDomains") \o Load \o Write("domain") \o Audit
DomainHandler_AttachCertificate == Check("CanManageDomains") \o Write("domain") \o Audit
DomainHandler_DetachCertificate == Check("CanManageDomains") \o Write("domain") \o Audit
DomainHandler_GetDomainSettings == Query("project")
DomainHandler_UpdateDomainSettings == Check("CanManageDomains") \o Write("domain") \o Audit
DomainHandler_GetYAMLs == Query("project")
DomainHandler_PreviewCreate == Query("project")
DomainHandler_PreviewSettingsChanges == Query("project")
DomainHandler_ListAvailableNamespaces == Query("project")
DomainHandler_AddDomainMTLSCA == Check("CanManageDomains") \o Write("domain") \o Audit
DomainHandler_RemoveDomainMTLSCA == Check("CanManageDomains") \o Write("domain") \o Audit
DomainTemplateHandler_List == Query("templateRead")
DomainTemplateHandler_Create == Write("template") \o Audit
DomainTemplateHandler_Get == Query("templateRead")
DomainTemplateHandler_GetManifests == Query("templateRead")
DomainTemplateHandler_ListDomains == Query("templateRead")
DomainTemplateHandler_PreviewChanges == Query("template")
DomainTemplateHandler_PreviewCreate == Query("template")
DomainTemplateHandler_Update == Write("template") \o Audit
DomainTemplateHandler_Delete == Load \o Write("template") \o Audit
ProjectNamespaceHandler_List == Query("project")
ProjectNamespaceHandler_Create == Check("CanManageDomains") \o Write("domain") \o Audit
ProjectNamespaceHandler_Update == Check("CanManageDomains") \o Write("domain") \o Audit
ProjectNamespaceHandler_Get == Query("project")
ProjectNamespaceHandler_Delete == Check("CanManageDomains") \o Load \o Write("domain") \o Audit
ProjectNamespaceHandler_EnsureReferenceGrant == Check("CanManageDomains") \o Write("domain") \o Load \o Audit
DNSCredentialHandler_List == Query("platform")
DNSCredentialHandler_Create == Write("platform")
DNSCredentialHandler_Get == Query("platform")
DNSCredentialHandler_Update == Write("platform")
DNSCredentialHandler_Delete == Write("platform")
DNSHostedZoneHandler_List == Query("platform")
DNSHostedZoneHandler_Create == Write("platform")
DNSHostedZoneHandler_Get == Query("platform")
DNSHostedZoneHandler_Delete == Write("platform")
DNSRecordHandler_List == Check("CanManageDomains") \o Query("domain")
DNSRecordHandler_Get == Check("CanManageDomains") \o Query("domain")
DNSRecordHandler_Enable == Check("CanManageDomains") \o Write("domain") \o Audit
DNSRecordHandler_Update == Check("CanManageDomains") \o Write("domain") \o Audit
DNSRecordHandler_Delete == Check("CanManageDomains") \o Write("domain") \o Audit
DNSRecordHandler_Refresh == Check("CanManageDomains") \o Write("domain")
=============================================================================
