--------------------------- MODULE RouteHandlers ----------------------------
(***************************************************************************)
(* The handlers of routes, streams, approvals, clients and certificates of *)
(* internal/handlers, as programs of the steps that Handlers explains.     *)
(***************************************************************************)
EXTENDS Handlers

\* Routes, streams and versions.
RouteHandler_List == Query("project")
RouteHandler_Create == Check("CanCreateRoutes") \o Write("route") \o Audit
RouteHandler_Get == Load \o Check("IsRouteTeam") \o Query("routeTeam")
RouteHandler_Update == Check("CanCreateRoutes") \o Write("route") \o Audit
RouteHandler_Delete == Check("CanCreateRoutes") \o Write("route") \o Audit
RouteHandler_GetYAML == Query("project")
RouteHandler_GetYAMLs == Query("project")
RouteHandler_PreviewCreate == Query("project")
RouteHandler_CheckConflicts == Query("project")
RouteHandler_PreviewUpdate == Query("project")
RouteHandler_PreviewDelete == Query("project")
RouteHandler_Deploy == Load \o Check("IsRouteTeam") \o Write("routeTeam") \o Audit
RouteHandler_GetEffectiveIPs == Query("project")
RouteHandler_ListByProject == Query("project")
RouteHandler_ListByStream == Query("project")
RouteHandler_CreateForStream == Check("CanCreateRoutes") \o Write("route") \o Audit
RouteHandler_GetForStream == Load \o RouteHandler_Get
RouteHandler_UpdateForStream == Load \o RouteHandler_Update
RouteHandler_DeleteForStream == Load \o RouteHandler_Delete
RouteHandler_DeployForStream == Load \o RouteHandler_Deploy
RouteHandler_GetYAMLForStream == Load \o RouteHandler_GetYAML
RouteHandler_GetYAMLsForStream == Load \o RouteHandler_GetYAMLs
RouteHandler_GetStreamYAMLs == Query("project")
RouteHandler_PreviewCreateForStream == Query("project")
RouteHandler_PreviewUpdateForStream == Load \o Query("project")
RouteHandler_PreviewDeleteForStream == Load \o Query("project")
RouteVersionHandler_List == Query("project")
RouteVersionHandler_Get == Query("project")
RouteVersionHandler_Rollback == Write("project") \o Audit
StreamHandler_List == Query("project")
StreamHandler_Create == Check("CanManageDomains") \o Write("domain") \o Audit
StreamHandler_Get == Load \o Query("project")
StreamHandler_Update == Check("CanManageDomains") \o Load \o Write("domain") \o Audit
StreamHandler_Delete == Check("CanManageDomains") \o Load \o Write("domain") \o Audit
StreamHandler_GetEntrypoint == Load \o Query("project")
StreamHandler_GetTemplateEntrypoint == Query("templateRead")
OpenAPIImportHandler_Import == Query("project")
MetricsHandler_TestConnection == Query("admin")
MetricsHandler_GetRouteMetrics == Query("project")
MetricsHandler_GetDomainMetrics == Query("project")
MetricsHandler_GetStreamMetrics == Query("project")
TopologyHandler_GetProjectTopology == Query("project")
TopologyHandler_GetDomainTopology == Query("project")
KubernetesHandler_ListNamespaces == Query("project")
KubernetesHandler_ListServices == Query("project")
KubernetesHandler_ListGatewayClasses == Query("project")
ProjectVersionHandler_Get == Query("project")
ProjectVersionHandler_Refresh == Write("project")

\* Approvals, comments and review.
ApprovalHandler_List == Query("project")
ApprovalHandler_Get == Load \o Query("project")
ApprovalHandler_GetDiff == Load \o Query("project")
ApprovalHandler_Approve == Write("project") \o Audit
ApprovalHandler_Reject == Write("project") \o Audit
ApprovalHandler_Cancel == Write("project") \o Audit
ApprovalPolicyHandler_List == Query("admin")
ApprovalPolicyHandler_Get == Query("admin")
ApprovalPolicyHandler_Create == Write("admin")
ApprovalPolicyHandler_Update == Write("admin")
ApprovalPolicyHandler_Delete == Write("admin")
CommentHandler_Create == Write("project")
CommentHandler_List == Query("project")
AIHandler_GetStatus == Query("any")
AIHandler_Generate == Query("project")
AIHandler_Review == Query("project")
AIHandler_ReviewApproval == Load \o Write("project")
AIHandler_Chat == Query("any")
AuditHandler_List == Query("audit")
AuditHandler_Export == Query("audit")
AuditHandler_Cleanup == Write("admin")

\* Clients and attachments.
ClientHandler_List == Query("any")
ClientHandler_Create == Check("CanAccessTeamResource") \o Write("client") \o Audit
ClientHandler_Get == Query("any")
ClientHandler_Update == Load \o Check("CanAccessTeamResource") \o Write("client") \o Audit
ClientHandler_Delete == Load \o Check("CanAccessTeamResource") \o Write("client") \o Audit
ClientHandler_SetAllowedMethods == Load \o Check("CanAccessTeamResource") \o Write("client") \o Audit
ClientHandler_GenerateAPIKey == Load \o Check("CanAccessTeamResource") \o Write("client") \o Audit
ClientHandler_RevokeAPIKey == Load \o Check("CanAccessTeamResource") \o Write("client") \o Audit
ClientHandler_ConfigureJWT == Load \o Check("CanAccessTeamResource") \o Write("client") \o Audit
ClientHandler_UpdateJWT == Load \o Check("CanAccessTeamResource") \o Write("client") \o Audit
ClientHandler_RemoveJWT == Load \o Check("CanAccessTeamResource") \o Write("client") \o Audit
ClientHandler_UpdateClientMTLS == Load \o Check("IsTeamMember") \o Write("client") \o Audit
ClientHandler_DeleteClientMTLS == Load \o Check("IsTeamMember") \o Write("client") \o Audit
ClientHandler_ListHeaders == Load \o Check("CanAccessTeamResource") \o Query("client")
ClientHandler_AddHeader == Load \o Check("CanAccessTeamResource") \o Write("client") \o Audit
ClientHandler_RemoveHeader == Load \o Check("CanAccessTeamResource") \o Write("client") \o Audit
ClientHandler_ListIPs == Load \o Check("CanAccessTeamResource") \o Query("client")
ClientHandler_AddIP == Load \o Check("CanAccessTeamResource") \o Write("client") \o Audit
ClientHandler_RemoveIP == Load \o Check("CanAccessTeamResource") \o Write("client") \o Audit
ClientCertificateHandler_AttachCertificate == Load \o Check("IsTeamMember") \o Write("client") \o Audit
ClientCertificateHandler_AttachableCertificates == Load \o Check("IsTeamMember") \o Query("client")
ClientCertificateHandler_DetachCertificate == Load \o Check("IsTeamMember") \o Write("client") \o Audit
ClientAttachmentHandler_ListRouteClients == Query("project")
ClientAttachmentHandler_AttachFromRoute == Check("client.attach") \o Write("attach") \o Audit
ClientAttachmentHandler_RequestDetachFromRoute == Check("client.detach") \o Write("detach") \o Audit
ClientAttachmentHandler_ListClientRoutes == Load \o Check("CanAccessTeamResource") \o Query("client")
ClientAttachmentHandler_AttachFromClient == Load \o Check("CanAccessTeamResource") \o Write("client") \o Audit
ClientAttachmentHandler_ListClientApprovals == Query("project")
ClientAttachmentHandler_GetClientApproval == Query("project")
ClientAttachmentHandler_ApproveStage == Write("project") \o Audit
ClientAttachmentHandler_RejectClientApproval == Write("project") \o Audit

\* Certificates and issuers.
ManagedCertificateHandler_List == Check("certificate.view") \o Query("certView")
ManagedCertificateHandler_ListFleet == Query("platform")
ManagedCertificateHandler_Create == Check("certificate.create") \o Write("certCreate") \o Audit
ManagedCertificateHandler_Get == Load \o Query("project")
ManagedCertificateHandler_Delete == Check("certificate.delete") \o Load \o Write("certDelete") \o Audit
ManagedCertificateHandler_Status == Load \o Query("project")
ManagedCertificateHandler_Distribution == Load \o Query("project")
ManagedCertificateHandler_Resync == Check("certificate.edit") \o Load \o Write("certEdit") \o Audit
ManagedCertificateHandler_RequestExport == Check("certificate.edit") \o Load \o Write("certEdit") \o Audit
ManagedCertificateHandler_ExportDownload == Load \o Write("project") \o Audit
ManagedCertificateHandler_IssuersForProject == Query("project")
CertificateIssuerHandler_List == Query("platform")
CertificateIssuerHandler_Create == Write("platform")
CertificateIssuerHandler_Get == Query("platform")
CertificateIssuerHandler_Delete == Write("platform")
CertificateIssuerHandler_Status == Query("platform")
IssuerGrantHandler_List == Query("platform")
IssuerGrantHandler_Grant == Write("platform")
IssuerGrantHandler_Revoke == Write("platform")
=============================================================================
