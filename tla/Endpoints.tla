----------------------------- MODULE Endpoints ------------------------------
(***************************************************************************)
(* The router of cmd/server/main.go: which handler answers each endpoint,  *)
(* and behind which middleware.                                            *)
(***************************************************************************)
EXTENDS RouteHandlers

\* Middleware of middleware/auth.go and middleware/permissions.go.
RequireRole == Check("IsOwner")
RequireProjectAccess == Check("HasProjectAccess")
RequireDomainTemplateReadAccess == Check("CanReadTemplates")
RequireDomainTemplateAccess == Check("CanManageDomainTemplates")
RequireTeamAccess == Check("CanManageTeams")
RequireApprovalAccess == Check("HasProjectAccess")
RequireAdminAccess == Check("IsOwnerOrAdmin")
RequireAuditAccess == Check("CanViewAudit")
\* The wrappers that let a stream's routes share the route handlers.
RouteHandler_ForStreamRoute(h) == Load \o h
RouteHandler_ForStreamRouteWrite(h) == Load \o Check("CanCreateRoutes") \o h

\* main.go: a router group puts its middleware before every handler.
Behind(guard, handlers) == {guard \o h : h \in handlers}

AuthRoutes == {AuthHandler_Login, AuthHandler_RefreshToken, SSOHandler_GetPublicConfig,
    SSOHandler_Authorize, SSOHandler_Callback}
ProtectedAuthRoutes == {AuthHandler_Logout, AuthHandler_GetCurrentUser,
    AuthHandler_ChangePassword, AuthHandler_GetAPITokenCapabilities, AuthHandler_ListAPITokens,
    AuthHandler_CreateAPIToken, AuthHandler_RevokeAPIToken}
NotificationRoutes == {NotificationHandler_List, NotificationHandler_CountUnread,
    NotificationHandler_MarkAsRead, NotificationHandler_MarkAllAsRead,
    DocsHandler_GetOpenAPISpec}
UserRoutes == Behind(RequireRole, {UserHandler_List, UserHandler_Create, UserHandler_Get,
    UserHandler_Update, UserHandler_Delete})
SSOSettingsRoutes == Behind(RequireRole, {SSOHandler_GetConfig, SSOHandler_UpdateConfig,
    SSOHandler_DisableSSO})
SystemSettingsRoutes == Behind(RequireRole, {SystemSettingsHandler_Get,
    SystemSettingsHandler_Update})
TeamListRoutes == {TeamHandler_ListMyTeams, TeamHandler_List}
TeamRoutes == Behind(RequireRole, {TeamHandler_Create, TeamHandler_Get, TeamHandler_Update,
    TeamHandler_Delete, TeamHandler_ListMembers, TeamHandler_AddMember,
    TeamHandler_RemoveMember, TeamHandler_ListTeamProjects, TeamHandler_AddMemberByEmail,
    TeamHandler_ListInvites, TeamHandler_DeleteInvite})
DNSCredentialRoutes == Behind(RequireRole, {DNSCredentialHandler_List,
    DNSCredentialHandler_Create, DNSCredentialHandler_Get, DNSCredentialHandler_Update,
    DNSCredentialHandler_Delete})
DNSZoneRoutes == Behind(RequireRole, {DNSHostedZoneHandler_List, DNSHostedZoneHandler_Create,
    DNSHostedZoneHandler_Get, DNSHostedZoneHandler_Delete})
IssuerRoutes == Behind(RequireRole, {CertificateIssuerHandler_List,
    CertificateIssuerHandler_Create, CertificateIssuerHandler_Get,
    CertificateIssuerHandler_Delete, CertificateIssuerHandler_Status, IssuerGrantHandler_List,
    IssuerGrantHandler_Grant, IssuerGrantHandler_Revoke})
FleetCertificateRoutes == Behind(RequireRole, {ManagedCertificateHandler_ListFleet})
ClientRoutes == {ClientHandler_List, ClientHandler_Create, ClientHandler_Get,
    ClientHandler_Update, ClientHandler_Delete, ClientHandler_ListIPs, ClientHandler_AddIP,
    ClientHandler_RemoveIP, ClientHandler_ListHeaders, ClientHandler_AddHeader,
    ClientHandler_RemoveHeader, ClientHandler_SetAllowedMethods, ClientHandler_GenerateAPIKey,
    ClientHandler_RevokeAPIKey, ClientHandler_ConfigureJWT, ClientHandler_UpdateJWT,
    ClientHandler_RemoveJWT, ClientHandler_UpdateClientMTLS, ClientHandler_DeleteClientMTLS,
    ClientCertificateHandler_AttachCertificate, ClientCertificateHandler_DetachCertificate,
    ClientCertificateHandler_AttachableCertificates, ClientAttachmentHandler_ListClientRoutes,
    ClientAttachmentHandler_AttachFromClient}
AIRoutes == {AIHandler_GetStatus, AIHandler_Chat}
ProjectRoutes ==
         {ProjectHandler_List, PermissionHandler_GetPermissions}
    \cup Behind(RequireRole, {ProjectHandler_Create, ProjectHandler_AddAdmin,
           ProjectHandler_RemoveAdmin})
    \cup Behind(RequireProjectAccess, {ProjectHandler_Get, ProjectHandler_GetCapabilities,
           ProjectVersionHandler_Get, ProjectVersionHandler_Refresh, ProjectHandler_ListAdmins,
           TeamHandler_ListProjectTeams, TeamHandler_GetProjectTeamRole,
           TeamHandler_ListMyTeamsInProject, TeamHandler_ListProjectMembers})
    \cup Behind(RequireAdminAccess, {ProjectHandler_Update, ProjectHandler_Delete,
           ProjectHandler_TestConnection, MetricsHandler_TestConnection})
ProjectTeamRoutes == Behind(RequireTeamAccess, {TeamHandler_AssignTeamToProject,
    TeamHandler_UpdateTeamPresets, TeamHandler_RemoveTeamFromProject})
PresetRoutes == Behind(RequireTeamAccess, {PresetHandler_List, PresetHandler_Create,
    PresetHandler_Get, PresetHandler_Update, PresetHandler_Delete})
DomainTemplateReadRoutes == Behind(RequireDomainTemplateReadAccess, {DomainTemplateHandler_List,
    DomainTemplateHandler_Get, DomainTemplateHandler_GetManifests,
    DomainTemplateHandler_ListDomains, StreamHandler_GetTemplateEntrypoint})
DomainTemplateWriteRoutes == Behind(RequireDomainTemplateAccess, {DomainTemplateHandler_Create,
    DomainTemplateHandler_PreviewCreate, DomainTemplateHandler_Update,
    DomainTemplateHandler_Delete, DomainTemplateHandler_PreviewChanges})
NamespaceRoutes == Behind(RequireProjectAccess, {ProjectNamespaceHandler_List,
    ProjectNamespaceHandler_Create, ProjectNamespaceHandler_Get, ProjectNamespaceHandler_Update,
    ProjectNamespaceHandler_Delete, ProjectNamespaceHandler_EnsureReferenceGrant})
DNSRecordListRoutes == Behind(RequireProjectAccess, {DNSRecordHandler_List})
StreamRoutes == Behind(RequireProjectAccess, {StreamHandler_List, StreamHandler_Create,
    StreamHandler_Get, StreamHandler_Update, StreamHandler_Delete,
    MetricsHandler_GetStreamMetrics, StreamHandler_GetEntrypoint, RouteHandler_GetStreamYAMLs})
StreamRouteRoutes == Behind(RequireProjectAccess, {RouteHandler_ListByStream,
    RouteHandler_CreateForStream, RouteHandler_PreviewCreateForStream,
    RouteHandler_GetForStream, RouteHandler_UpdateForStream, RouteHandler_DeleteForStream,
    RouteHandler_GetYAMLForStream, RouteHandler_GetYAMLsForStream,
    RouteHandler_PreviewUpdateForStream, RouteHandler_PreviewDeleteForStream,
    RouteHandler_DeployForStream, RouteHandler_ForStreamRoute(RouteVersionHandler_List),
    RouteHandler_ForStreamRoute(RouteVersionHandler_Get),
    RouteHandler_ForStreamRouteWrite(RouteVersionHandler_Rollback)})
DomainRoutes == Behind(RequireProjectAccess, {DomainHandler_List, DomainHandler_ListTLSSecrets,
    DomainHandler_ListAvailableNamespaces, DomainHandler_Create, DomainHandler_Get,
    DomainHandler_Update, DomainHandler_Delete, DomainHandler_GetDomainSettings,
    DomainHandler_UpdateDomainSettings, DomainHandler_AttachCertificate,
    DomainHandler_DetachCertificate, DomainHandler_AddDomainMTLSCA,
    DomainHandler_RemoveDomainMTLSCA, DomainHandler_GetYAMLs, MetricsHandler_GetDomainMetrics,
    TopologyHandler_GetDomainTopology, OpenAPIImportHandler_Import,
    DomainHandler_PreviewSettingsChanges, DomainHandler_PreviewCreate})
DomainAIRoutes == Behind(RequireProjectAccess, {AIHandler_Generate, AIHandler_Review})
DNSRecordRoutes == Behind(RequireProjectAccess, {DNSRecordHandler_Get, DNSRecordHandler_Enable,
    DNSRecordHandler_Update, DNSRecordHandler_Delete, DNSRecordHandler_Refresh})
RouteRoutes == Behind(RequireProjectAccess, {RouteHandler_List, RouteHandler_Create,
    RouteHandler_PreviewCreate, RouteHandler_CheckConflicts, RouteHandler_Get,
    RouteHandler_Update, RouteHandler_Delete, RouteHandler_GetYAML, RouteHandler_GetYAMLs,
    RouteHandler_PreviewUpdate, RouteHandler_PreviewDelete, RouteHandler_Deploy,
    RouteHandler_GetEffectiveIPs, RouteVersionHandler_List, RouteVersionHandler_Get,
    RouteVersionHandler_Rollback, ClientAttachmentHandler_ListRouteClients,
    ClientAttachmentHandler_AttachFromRoute, ClientAttachmentHandler_RequestDetachFromRoute})
ApprovalRoutes == Behind(RequireApprovalAccess, {ApprovalHandler_List, ApprovalHandler_Get,
    ApprovalHandler_GetDiff, ApprovalHandler_Approve, ApprovalHandler_Reject,
    ApprovalHandler_Cancel, CommentHandler_List, CommentHandler_Create,
    AIHandler_ReviewApproval})
ClientApprovalRoutes == Behind(RequireProjectAccess,
    {ClientAttachmentHandler_ListClientApprovals, ClientAttachmentHandler_GetClientApproval,
    ClientAttachmentHandler_ApproveStage, ClientAttachmentHandler_RejectClientApproval})
ApprovalPolicyRoutes == Behind(RequireAdminAccess, {ApprovalPolicyHandler_List,
    ApprovalPolicyHandler_Get, ApprovalPolicyHandler_Create, ApprovalPolicyHandler_Update,
    ApprovalPolicyHandler_Delete})
KubernetesRoutes == Behind(RequireProjectAccess, {KubernetesHandler_ListNamespaces,
    KubernetesHandler_ListServices, KubernetesHandler_ListGatewayClasses})
CertificateRoutes == Behind(RequireProjectAccess, {ManagedCertificateHandler_List,
    ManagedCertificateHandler_IssuersForProject, ManagedCertificateHandler_Create,
    ManagedCertificateHandler_Get, ManagedCertificateHandler_Delete,
    ManagedCertificateHandler_Status, ManagedCertificateHandler_Distribution,
    ManagedCertificateHandler_Resync, ManagedCertificateHandler_RequestExport,
    ManagedCertificateHandler_ExportDownload})
ProjectReadRoutes ==
         Behind(RequireProjectAccess, {RouteHandler_ListByProject,
           MetricsHandler_GetRouteMetrics, TopologyHandler_GetProjectTopology})
    \cup Behind(RequireAuditAccess, {AuditHandler_List, AuditHandler_Export})
    \cup Behind(RequireAdminAccess, {AuditHandler_Cleanup})

\* Requests that need no token, requests that change the directory tables,
\* and the rest.
Public == AuthRoutes
DirectoryEndpoints == ProtectedAuthRoutes \cup UserRoutes \cup TeamRoutes \cup ProjectRoutes
    \cup ProjectTeamRoutes \cup PresetRoutes
ResourceEndpoints == NotificationRoutes \cup SSOSettingsRoutes \cup SystemSettingsRoutes \cup
    TeamListRoutes \cup DNSCredentialRoutes \cup DNSZoneRoutes \cup IssuerRoutes \cup
    FleetCertificateRoutes \cup ClientRoutes \cup AIRoutes \cup DomainTemplateReadRoutes \cup
    DomainTemplateWriteRoutes \cup NamespaceRoutes \cup DNSRecordListRoutes \cup StreamRoutes
    \cup StreamRouteRoutes \cup DomainRoutes \cup DomainAIRoutes \cup DNSRecordRoutes \cup
    RouteRoutes \cup ApprovalRoutes \cup ClientApprovalRoutes \cup ApprovalPolicyRoutes \cup
    KubernetesRoutes \cup CertificateRoutes \cup ProjectReadRoutes
=============================================================================
