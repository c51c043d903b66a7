----------------------------- MODULE RouteState -----------------------------
(***************************************************************************)
(* The route status machine: internal/routestate/routestate.go and the     *)
(* statuses and transition sites of internal/models/route.go.  Every       *)
(* service that moves a route's status goes through Machine.To, which      *)
(* consults a table keyed by the call site.                                *)
(***************************************************************************)

RouteStatus == {"pending_create", "pending_update", "pending_delete",
                "approved", "active", "rejected", "pending_deploy"}

Sites == {"RouteCreateFastPath", "RouteUpdate", "RouteUpdateFastPath",
          "RouteDelete", "RouteDeleteFastPath", "ApprovalApproved",
          "ApprovalRejected", "ApprovalCancelled", "AttachFromRoute",
          "AttachFromClient", "RequestDetach", "AttachmentApproved",
          "ClientCascade", "Deploy"}

\* legalTransitions: the (from, to) pairs that each site may perform.
LegalTransitions(site) ==
    CASE site = "RouteCreateFastPath" -> {<<"pending_create", "approved">>}
      [] site = "RouteUpdate" ->
            (RouteStatus \ {"pending_update"}) \X {"pending_update"}
      [] site = "RouteUpdateFastPath" -> {<<"pending_update", "pending_deploy">>}
      [] site = "RouteDelete" ->
            (RouteStatus \ {"pending_delete"}) \X {"pending_delete"}
      [] site = "RouteDeleteFastPath" -> {<<"pending_delete", "pending_deploy">>}
      [] site = "ApprovalApproved" ->
            {<<"pending_create", "approved">>,
             <<"pending_update", "pending_deploy">>,
             <<"pending_delete", "pending_deploy">>}
      [] site = "ApprovalRejected" ->
            {<<"pending_create", "rejected">>,
             <<"pending_update", "active">>,
             <<"pending_delete", "active">>}
      [] site = "ApprovalCancelled" ->
            {"pending_update", "pending_delete"} \X {"active"}
      [] site \in {"AttachFromRoute", "AttachFromClient"} ->
            (RouteStatus \ {"pending_deploy"}) \X {"pending_deploy"}
      [] site = "RequestDetach" ->
            {"active", "pending_update", "pending_delete"} \X {"pending_deploy"}
      [] site \in {"AttachmentApproved", "ClientCascade"} ->
            {<<"active", "pending_deploy">>}
      [] site = "Deploy" -> {"approved", "pending_deploy"} \X {"active"}

\* Machine.To returns no error: nothing to do, or the table has the pair.
\* It writes the row only in the second case.
Allowed(site, from, next) ==
    from = next \/ <<from, next>> \in LegalTransitions(site)
=============================================================================
