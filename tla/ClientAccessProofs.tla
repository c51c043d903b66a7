-------------------------- MODULE ClientAccessProofs --------------------------
(***************************************************************************)
(* Theorems about ClientAccess for any clients, routes, methods, versions, *)
(* approvals and failures, when requests are served one at a time: who is  *)
(* let through a route, and with which credentials.                        *)
(***************************************************************************)
EXTENDS ClientAccess, TLAPS

\* Requests do not overlap.
Serial == \A v, w \in Workers : v = w

Creds == Kinds \cup {"methods"}
Approvals == [c : Clients, r : Routes, status : {"pending", "approved", "rejected", "cancelled"},
              enabled : SUBSET Kinds, action : {"attach", "detach"}]
CascadeLabels == {"saveClient", "list", "cascade"}
AttachLabels == {"storeAttachment", "storeDetach", "queueRoute", "settle", "submit", "callback"}
DeployLabels == {"applyBase", "applyOwn", "markActive", "finish"}
Labels == {"idle", "requeue"} \cup CascadeLabels \cup AttachLabels \cup DeployLabels
AttachSites == {"AttachFromRoute", "AttachFromClient"}
LocOps == {"none", "set", "clear", "RequestDetach", "approve", "reject", "cancel", "deploy"}
             \cup AttachSites
Locals == [op : LocOps, c : Clients \cup {"none"}, r : Routes \cup {"none"},
           k : Creds \cup {"none"}, row : AttRows,
           cred : {0} \cup [RowKinds -> Versions] \cup [Clients -> Access],
           status : RouteStatus, id : Nat, todo : SUBSET (Routes \cup Clients), ok : BOOLEAN]

StateTyped ==
    /\ TypeOK
    /\ version \in Versions
    /\ approvals \in Seq(Approvals)
    /\ approvalEnabled \in BOOLEAN
    /\ pc \in [Workers -> Labels]
    /\ loc \in [Workers -> Locals]

\* What a request holds at each of its steps, and what of it is still in the
\* tables: nobody else writes them meanwhile.
CredentialHeld(w) ==
    LET l == loc[w] IN
    /\ pc[w] \in CascadeLabels => l.c \in Clients /\ l.k \in Creds
    /\ pc[w] \in {"list", "cascade"} => l.k # "mtls"
    /\ pc[w] = "saveClient" =>
          /\ l.k \in RowKinds /\ l.cred \in [RowKinds -> Versions] /\ l.c \in alive
          /\ \A j \in RowKinds \ {l.k} : l.cred[j] = client[l.c][j]
    /\ pc[w] = "cascade" => l.todo \subseteq Routes
AttachmentHeld(w) ==
    LET l == loc[w]  a == att[l.c][l.r] IN
    /\ pc[w] \in AttachLabels => l.c \in Clients /\ l.r \in Routes
    /\ pc[w] \in AttachLabels \ {"callback"} => l.op \in AttachSites \cup {"RequestDetach"}
    /\ pc[w] = "storeAttachment" =>
          /\ l.op \in AttachSites /\ l.row.status = "pending_attach" /\ l.c \in alive
          /\ a.status \in {"none", "removed", "rejected"}
    /\ pc[w] = "storeDetach" => l.op = "RequestDetach"
    /\ pc[w] \in {"storeDetach", "queueRoute", "settle"} =>
          /\ a = l.row
          /\ l.row.status = IF l.op = "RequestDetach" THEN "active" ELSE "pending_attach"
    /\ pc[w] \in {"storeAttachment", "queueRoute"} => l.status = route[l.r]
    /\ pc[w] = "settle" => route[l.r] = "pending_deploy"
    /\ pc[w] = "submit" =>
          a = IF l.op = "RequestDetach" THEN [l.row EXCEPT !.status = "pending_detach"]
              ELSE [status |-> "pending_attach", enabled |-> l.row.enabled]
    /\ pc[w] = "callback" =>
          /\ a = l.row /\ l.op \in {"approve", "reject", "cancel"}
          /\ l.id \in DOMAIN approvals /\ approvals[l.id].c = l.c /\ approvals[l.id].r = l.r
    /\ pc[w] = "requeue" => l.r \in Routes
DeployHeld(w) ==
    LET l == loc[w] IN
    /\ pc[w] \in DeployLabels => l.r \in Routes /\ Queued(l.r)
    /\ pc[w] = "applyOwn" => /\ l.todo \subseteq {c \in Clients : Included(c, l.r)}
                             /\ l.cred = [c \in Clients |-> OwnAccess(c, l.r)]

\* An open approval finds the attachment waiting for it, and alone, unless an
\* approval that had been granted was cancelled.
Pending(i) == /\ i \in DOMAIN approvals /\ approvals[i].status = "pending"
              /\ <<approvals[i].c, approvals[i].r>> \notin override
Awaited(i) ==
    LET a == approvals[i]  row == att[a.c][a.r] IN
    \/ row = NoAtt /\ a.c \notin alive
    \/ a.action = "attach" /\ row = [status |-> "pending_attach", enabled |-> a.enabled]
    \/ a.action = "detach" /\ row.status = "pending_detach"
Reserved(w) ==
    pc[w] \in AttachLabels =>
        \A i \in DOMAIN approvals :
            Pending(i) => <<approvals[i].c, approvals[i].r>> # <<loc[w].c, loc[w].r>>
ApprovalsInv ==
    /\ \A i \in DOMAIN approvals : Pending(i) => Awaited(i)
    /\ \A i, j \in DOMAIN approvals :
          Pending(i) /\ Pending(j) /\ approvals[i].c = approvals[j].c
            /\ approvals[i].r = approvals[j].r => i = j
    /\ \A w \in Workers : Reserved(w)

\* An attachment that deploys will include was granted as it is stored.
CallbackGranted(w) ==
    LET l == loc[w] IN
    pc[w] = "callback" /\ l.op = "approve" /\ approvals[l.id].action = "attach"
      /\ <<l.c, l.r>> \notin override => <<l.c, l.r, l.row.enabled>> \in granted
GrantedInv ==
    /\ \A c \in Clients, r \in Routes :
          Included(c, r) /\ <<c, r>> \notin override => <<c, r, att[c][r].enabled>> \in granted
    /\ \A w \in Workers : CallbackGranted(w)

\* The base route is closed as soon as clients with routes of their own are
\* about to become active.
OwnRoute(c, r) == att[c][r].enabled \cap PerClientKinds # {}
GuardedInv ==
    /\ \A c \in Clients, r \in Routes :
          att[c][r].status = "active" /\ OwnRoute(c, r) => ~served[r].open
    /\ \A w \in Workers : pc[w] \in {"applyOwn", "markActive"} =>
          \A c \in Clients : Included(c, loc[w].r) /\ OwnRoute(c, loc[w].r) => ~served[loc[w].r].open

\* A route that waits for no redeploy serves what the tables say, but for the
\* routes the running request has yet to queue.
Fresh(c, r) ==
    /\ att[c][r].status = "active" =>
          /\ served[r].base[c] = BaseAccess(c, r)
          /\ HasPerClientAuth(c, r) => served[r].own[c] = OwnAccess(c, r)
    /\ att[c][r].status \in {"removed", "approved"} =>
          served[r].own[c] = NoAccess /\ served[r].base[c] = NoAccess
Lags(w, r) == \/ pc[w] = "list" /\ r \in Affected(loc[w].c, loc[w].k)
              \/ pc[w] = "cascade" /\ r \in loc[w].todo
              \/ pc[w] = "requeue" /\ r = loc[w].r
Due(r) == Queued(r) \/ r \in missed \/ \E w \in Workers : Lags(w, r)
AppliedTo(w, c, r) ==
    /\ pc[w] \in {"applyOwn", "markActive", "finish"} =>
          /\ served[r].base[c] = BaseAccess(c, r)
          /\ Included(c, r) /\ HasPerClientAuth(c, r) /\ (pc[w] = "applyOwn" => c \notin loc[w].todo) =>
                served[r].own[c] = OwnAccess(c, r)
    /\ pc[w] \in {"markActive", "finish"} /\ loc[w].ok /\ ~Included(c, r) => served[r].own[c] = NoAccess
    /\ pc[w] = "finish" /\ loc[w].ok => att[c][r].status # "approved"
Applied(w) == \A c \in Clients, r \in Routes : r = loc[w].r => AppliedTo(w, c, r)
CurrentInv ==
    /\ \A r \in Routes : ~Due(r) => \A c \in Clients : Fresh(c, r)
    /\ \A w \in Workers : Applied(w)

TypedInv ==
    /\ StateTyped
    /\ \A w \in Workers : CredentialHeld(w) /\ AttachmentHeld(w) /\ DeployHeld(w)

ClientAccessInv ==
    TypedInv /\ ApprovalsInv /\ GrantedInv /\ ServedClientWasGranted /\ GuardedInv /\ CurrentInv

---------------------------------------------------------------------------
\* Types.

LEMMA Bounds == 0 \in Versions /\ MaxVersion \in Nat /\ MaxFailures \in Nat /\ Versions \subseteq Nat
  BY BoundsAssumption DEF Versions

LEMMA NextVersion == ASSUME version \in Versions, version < MaxVersion PROVE version + 1 \in Versions
  BY BoundsAssumption DEF Versions

LEMMA KindSets == /\ Creds = RowKinds \cup ListKinds /\ RowKinds \cap ListKinds = {}
                  /\ PerClientKinds \subseteq RowKinds /\ PerClientKinds \subseteq Kinds
                  /\ Kinds \subseteq Creds /\ "methods" \in Creds /\ "none" \notin Creds
  BY DEF Creds, RowKinds, ListKinds, PerClientKinds, Kinds

LEMMA NoAttTyped == NoAtt \in AttRows /\ NoAtt.status = "none"
  BY DEF NoAtt, AttRows, AttachmentStatus

LEMMA NoLocTyped == NoLoc \in Locals
  BY NoAttTyped, Bounds DEF NoLoc, Locals, LocOps, RouteStatus

LEMMA CredTyped ==
  ASSUME TypeOK, NEW c \in Clients, NEW k \in Creds
  PROVE  Cred(c, k) \in Versions
  BY KindSets DEF Cred, TypeOK

LEMMA AccessTyped ==
  ASSUME TypeOK, NEW c \in Clients, NEW r \in Routes
  PROVE  BaseAccess(c, r) \in Access /\ OwnAccess(c, r) \in Access /\ NoAccess \in Access
  BY CredTyped, Bounds DEF BaseAccess, OwnAccess, Access, NoAccess, Creds

LEMMA GotoTyped ==
  ASSUME StateTyped, NEW w \in Workers, NEW label \in Labels, NEW l \in Locals, Goto(w, label, l)
  PROVE  /\ pc' \in [Workers -> Labels] /\ loc' \in [Workers -> Locals]
         /\ pc'[w] = label /\ loc'[w] = l
  BY DEF StateTyped, Goto

LEMMA ReturnTyped ==
  ASSUME StateTyped, NEW w \in Workers, Return(w)
  PROVE  /\ pc' \in [Workers -> Labels] /\ loc' \in [Workers -> Locals]
         /\ pc'[w] = "idle" /\ loc'[w] = NoLoc
  BY GotoTyped, NoLocTyped DEF Return, Labels

\* One request at a time: what the tables and the serving worker keep, all keep.
Held(w) == CredentialHeld(w) /\ AttachmentHeld(w) /\ DeployHeld(w)

LEMMA OneWorker ==
  ASSUME Serial, NEW w \in Workers, StateTyped', Held(w)'
  PROVE  TypedInv'
<1>1. \A v \in Workers : v = w
  BY DEF Serial
<1>2. \A v \in Workers : Held(v)'
  <2> SUFFICES ASSUME NEW v \in Workers PROVE Held(v)'
    OBVIOUS
  <2>1. v = w
    BY <1>1
  <2> QED
    BY <2>1
<1> QED
  BY <1>2 DEF TypedInv, Held

LEMMA IdleHeld ==
  ASSUME NEW w, pc'[w] = "idle"
  PROVE  Held(w)'
  BY DEF Held, CredentialHeld, AttachmentHeld, DeployHeld, CascadeLabels, AttachLabels, DeployLabels

\* An idle worker without a step of its own.
LEMMA FailuresTyped ==
  ASSUME StateTyped, NEW w, NEW label, Fails(w, label)
  PROVE  failures' \in 0..MaxFailures
  BY Bounds DEF StateTyped, TypeOK, Fails

LEMMA SetCredentialTyped ==
  ASSUME Serial, TypedInv, NEW w \in Workers, NEW c \in Clients, NEW k \in RowKinds,
         SetCredential(w, c, k) \/ ClearCredential(w, c, k)
  PROVE  TypedInv'
<1> USE DEF TypedInv
<1>1. PICK v \in Versions :
         /\ version' \in Versions
         /\ Goto(w, "saveClient", [NoLoc EXCEPT !.op = loc'[w].op, !.c = c, !.k = k,
                                                !.cred = [client[c] EXCEPT ![k] = v]])
         /\ loc'[w].op \in {"set", "clear"}
  <2>1. CASE SetCredential(w, c, k)
    <3>1. version + 1 \in Versions /\ version' = version + 1
      BY <2>1, NextVersion DEF SetCredential, StateTyped
    <3>2. loc'[w].op = "set"
      BY <2>1 DEF SetCredential, Goto, StateTyped, NoLoc
    <3> QED
      BY <2>1, <3>1, <3>2 DEF SetCredential
  <2>2. CASE ClearCredential(w, c, k)
    <3>1. loc'[w].op = "clear"
      BY <2>2 DEF ClearCredential, Goto, StateTyped, NoLoc
    <3> QED
      BY <2>2, <3>1, Bounds DEF ClearCredential, rows, StateTyped
  <2> QED
    BY <2>1, <2>2
<1> DEFINE l == [NoLoc EXCEPT !.op = loc'[w].op, !.c = c, !.k = k,
                              !.cred = [client[c] EXCEPT ![k] = v]]
<1>2. client[c] \in [RowKinds -> Versions] /\ [client[c] EXCEPT ![k] = v] \in [RowKinds -> Versions]
  BY DEF StateTyped, TypeOK
<1>3. l \in Locals
  BY <1>1, <1>2, NoLocTyped, KindSets DEF NoLoc, Locals, LocOps
<1>4. /\ pc' \in [Workers -> Labels] /\ loc' \in [Workers -> Locals]
      /\ pc'[w] = "saveClient" /\ loc'[w] = l
  BY <1>1, <1>3, GotoTyped DEF Labels, CascadeLabels
<1>5. /\ UNCHANGED <<alive, client, lists, attachments, route, approvalEnabled, served, missed, failures>>
      /\ c \in alive
  BY DEF SetCredential, ClearCredential, rows, Begin, Step
<1>6. StateTyped'
  BY <1>1, <1>4, <1>5 DEF StateTyped, TypeOK, attachments
<1>7. l.c = c /\ l.k = k /\ l.cred = [client[c] EXCEPT ![k] = v]
  BY DEF NoLoc
<1>8. CredentialHeld(w)'
  <2>1. \A j \in RowKinds \ {k} : l.cred[j] = client[c][j]
    BY <1>2, <1>7
  <2> QED
    BY <1>2, <1>4, <1>5, <1>7, <2>1, KindSets DEF CredentialHeld
<1>9. AttachmentHeld(w)' /\ DeployHeld(w)'
  BY <1>4 DEF AttachmentHeld, DeployHeld, AttachLabels, DeployLabels
<1> QED
  BY <1>6, <1>8, <1>9, OneWorker DEF Held

LEMMA SaveClientTyped ==
  ASSUME Serial, TypedInv, NEW w \in Workers, SaveClient(w)
  PROVE  TypedInv'
<1> USE DEF TypedInv
<1> DEFINE l == loc[w]
<1>1. l \in Locals /\ l.c \in Clients /\ l.cred \in [RowKinds -> Versions] /\ l.k \in Creds
  BY DEF SaveClient, Step, CredentialHeld, CascadeLabels, StateTyped
<1>2. client' \in [Clients -> [RowKinds -> Versions]] /\ alive' \subseteq Clients
  BY <1>1 DEF SaveClient, StateTyped, TypeOK
<1>3. missed' \subseteq Routes /\ failures' = failures
  BY DEF SaveClient, StateTyped, TypeOK, Step
<1>4. /\ pc' \in [Workers -> Labels] /\ loc' \in [Workers -> Locals]
      /\ \/ pc'[w] = "idle"
         \/ pc'[w] = "list" /\ loc'[w] = l /\ l.k # "mtls"
  <2>1. CASE l.k = "mtls"
    <3>1. Return(w)
      BY <2>1 DEF SaveClient
    <3> QED
      BY <3>1, ReturnTyped
  <2>2. CASE l.k # "mtls"
    BY <2>2, <1>1, GotoTyped DEF SaveClient, Continue, Labels, CascadeLabels
  <2> QED
    BY <2>1, <2>2
<1>5. StateTyped'
  BY <1>2, <1>3, <1>4 DEF StateTyped, TypeOK, SaveClient, attachments
<1>6. Held(w)'
  <2>1. CASE pc'[w] = "idle"
    BY <2>1, IdleHeld
  <2>2. CASE pc'[w] = "list" /\ loc'[w] = l /\ l.k # "mtls"
    BY <2>2, <1>1 DEF Held, CredentialHeld, AttachmentHeld, DeployHeld, AttachLabels, DeployLabels
  <2> QED
    BY <1>4, <2>1, <2>2
<1> QED
  BY <1>5, <1>6, OneWorker

LEMMA ListTyped ==
  ASSUME Serial, TypedInv, NEW w \in Workers, NEW c \in Clients, NEW k \in ListKinds,
         AddToList(w, c, k) \/ RemoveFromList(w, c, k)
  PROVE  TypedInv'
<1> USE DEF TypedInv
<1>1. /\ version' \in Versions /\ lists' \in [Clients -> [ListKinds -> Versions]]
  <2>1. CASE AddToList(w, c, k)
    BY <2>1, NextVersion DEF AddToList, StateTyped, TypeOK
  <2>2. CASE RemoveFromList(w, c, k)
    <3>1. version \in Versions /\ lists \in [Clients -> [ListKinds -> Versions]]
      BY DEF StateTyped, TypeOK
    <3>2. CASE lists' = [lists EXCEPT ![c][k] = 0] /\ UNCHANGED version
      BY <3>1, <3>2, Bounds
    <3>3. CASE /\ version < MaxVersion /\ version' = version + 1
               /\ lists' = [lists EXCEPT ![c][k] = version + 1]
      BY <3>1, <3>3, NextVersion
    <3> QED
      BY <2>2, <3>2, <3>3 DEF RemoveFromList
  <2> QED
    BY <2>1, <2>2
<1>2. PICK l \in Locals : Goto(w, "list", l) /\ l.c = c /\ l.k = k
  <2>1. /\ [NoLoc EXCEPT !.op = "set", !.c = c, !.k = k] \in Locals
        /\ [NoLoc EXCEPT !.op = "clear", !.c = c, !.k = k] \in Locals
    BY NoLocTyped, KindSets DEF NoLoc, Locals, LocOps
  <2> QED
    BY <2>1 DEF AddToList, RemoveFromList, NoLoc
<1>3. /\ pc' \in [Workers -> Labels] /\ loc' \in [Workers -> Locals]
      /\ pc'[w] = "list" /\ loc'[w] = l
  BY <1>2, GotoTyped DEF Labels, CascadeLabels
<1>4. UNCHANGED <<alive, client, attachments, route, approvalEnabled, served, missed, failures>>
  BY DEF AddToList, RemoveFromList, Begin, Step
<1>5. StateTyped'
  BY <1>1, <1>3, <1>4 DEF StateTyped, TypeOK, attachments
<1>6. Held(w)'
  BY <1>2, <1>3, KindSets DEF Held, CredentialHeld, AttachmentHeld, DeployHeld, AttachLabels, DeployLabels,
     ListKinds
<1> QED
  BY <1>5, <1>6, OneWorker

LEMMA CascadeTyped ==
  ASSUME Serial, TypedInv, NEW w \in Workers, NEW r,
         ListAttachments(w) \/ CascadeRoute(w, r) \/ CascadeFails(w, r)
  PROVE  TypedInv'
<1> USE DEF TypedInv
<1> DEFINE l == loc[w]
<1>1. l \in Locals /\ l.c \in Clients /\ l.k \in Creds /\ l.k # "mtls"
  BY DEF ListAttachments, CascadeRoute, CascadeFails, Step, Fails, CredentialHeld, CascadeLabels, StateTyped
<1>2. PICK s \in SUBSET Routes : Goto(w, "cascade", [l EXCEPT !.todo = s])
  <2>1. CASE ListAttachments(w)
    BY <2>1 DEF ListAttachments, Affected
  <2>2. CASE CascadeRoute(w, r) \/ CascadeFails(w, r)
    <3>1. l.todo \subseteq Routes
      BY <2>2 DEF CredentialHeld, CascadeRoute, CascadeFails, Step, Fails
    <3> QED
      BY <2>2, <3>1 DEF CascadeRoute, CascadeFails
  <2> QED
    BY <2>1, <2>2
<1>3. [l EXCEPT !.todo = s] \in Locals /\ [l EXCEPT !.todo = s].c = l.c /\ [l EXCEPT !.todo = s].k = l.k
        /\ [l EXCEPT !.todo = s].todo = s
  BY <1>1 DEF Locals
<1>4. /\ pc' \in [Workers -> Labels] /\ loc' \in [Workers -> Locals]
      /\ pc'[w] = "cascade" /\ loc'[w] = [l EXCEPT !.todo = s]
  BY <1>2, <1>3, GotoTyped DEF Labels, CascadeLabels
<1>5. /\ UNCHANGED <<rows, attachments, approvalEnabled, served>> /\ missed' \subseteq Routes
      /\ route' \in [Routes -> RouteStatus]
  <2>1. missed' \subseteq Routes
    BY DEF ListAttachments, CascadeRoute, CascadeFails, StateTyped, TypeOK, CredentialHeld, Step, Fails
  <2>2. route' \in [Routes -> RouteStatus]
    BY DEF ListAttachments, CascadeRoute, CascadeFails, StateTyped, TypeOK, RouteStatus
  <2> QED
    BY <2>1, <2>2 DEF ListAttachments, CascadeRoute, CascadeFails
<1>6. failures' \in 0..MaxFailures
  BY FailuresTyped DEF ListAttachments, CascadeRoute, CascadeFails, Step, StateTyped, TypeOK
<1>7. StateTyped'
  BY <1>4, <1>5, <1>6 DEF StateTyped, TypeOK, rows, attachments
<1>8. Held(w)'
  BY <1>1, <1>3, <1>4 DEF Held, CredentialHeld, AttachmentHeld, DeployHeld, AttachLabels, DeployLabels
<1> QED
  BY <1>7, <1>8, OneWorker

\* Requests that only read and return, or that change a row and hold nothing.
LEMMA DeleteClientTyped ==
  ASSUME Serial, TypedInv, NEW w \in Workers, NEW c \in Clients, DeleteClient(w, c)
  PROVE  TypedInv'
<1> USE DEF TypedInv
<1>1. pc[w] = "idle" /\ pc' = pc /\ loc' = loc /\ failures' = failures
  BY DEF DeleteClient, Begin, Step
<1>2. client' \in [Clients -> [RowKinds -> Versions]] /\ lists' \in [Clients -> [ListKinds -> Versions]]
  BY Bounds DEF DeleteClient, StateTyped, TypeOK
<1>3. att' \in [Clients -> [Routes -> AttRows]]
  BY NoAttTyped DEF DeleteClient, StateTyped, TypeOK
<1>4. StateTyped'
  BY <1>1, <1>2, <1>3 DEF StateTyped, TypeOK, DeleteClient
<1> QED
  BY <1>1, <1>4, IdleHeld, OneWorker

LEMMA StatusTyped ==
  ASSUME Serial, TypedInv, NEW w \in Workers, NEW r,
         SubmitUpdate(w, r) \/ ReviewUpdate(w, r) \/ Toggle(w)
  PROVE  TypedInv'
<1> USE DEF TypedInv
<1>1. pc[w] = "idle" /\ pc' = pc /\ loc' = loc /\ failures' = failures
  BY DEF SubmitUpdate, ReviewUpdate, Toggle, Begin, Step
<1>2. route' \in [Routes -> RouteStatus] /\ approvalEnabled' \in BOOLEAN
  BY DEF SubmitUpdate, ReviewUpdate, Toggle, StateTyped, TypeOK, RouteStatus
<1>3. UNCHANGED <<rows, attachments, served, missed>>
  BY DEF SubmitUpdate, ReviewUpdate, Toggle
<1>4. StateTyped'
  BY <1>1, <1>2, <1>3 DEF StateTyped, TypeOK, rows, attachments
<1> QED
  BY <1>1, <1>4, IdleHeld, OneWorker

LEMMA RowTyped ==
  ASSUME NEW row \in AttRows, NEW s \in AttachmentStatus
  PROVE  /\ [row EXCEPT !.status = s] \in AttRows
         /\ [row EXCEPT !.status = s].status = s
         /\ [row EXCEPT !.status = s].enabled = row.enabled
  BY DEF AttRows

LEMMA StoreTyped ==
  ASSUME TypeOK, NEW c \in Clients, NEW r \in Routes, NEW row \in AttRows,
         att' = [att EXCEPT ![c][r] = row]
  PROVE  /\ att' \in [Clients -> [Routes -> AttRows]] /\ att'[c][r] = row
         /\ \A b \in Clients, q \in Routes : <<b, q>> # <<c, r>> => att'[b][q] = att[b][q]
  BY DEF TypeOK

LEMMA AttachTyped ==
  ASSUME Serial, TypedInv, NEW w \in Workers, NEW c \in Clients, NEW r \in Routes,
         NEW e \in Configs, NEW site \in AttachSites, Attach(w, c, r, e, site)
  PROVE  TypedInv'
<1> USE DEF TypedInv
<1> DEFINE row == [status |-> "pending_attach", enabled |-> e]
           l == [NoLoc EXCEPT !.op = site, !.c = c, !.r = r, !.status = route[r], !.row = row]
<1>1. row \in AttRows
  BY SetsAssumption DEF AttRows, AttachmentStatus
<1>2. l \in Locals
  BY <1>1, NoLocTyped DEF NoLoc, Locals, LocOps, StateTyped, TypeOK
<1>3. l.op = site /\ l.c = c /\ l.r = r /\ l.status = route[r] /\ l.row = row
  BY DEF NoLoc
<1>4. /\ pc' \in [Workers -> Labels] /\ loc' \in [Workers -> Locals]
      /\ pc'[w] = "storeAttachment" /\ loc'[w] = l
  BY <1>2, GotoTyped DEF Attach, Labels, AttachLabels
<1>5. /\ UNCHANGED <<rows, attachments, route, approvalEnabled, served, missed, failures>>
      /\ MayAttach(c, r, e)
  BY DEF Attach, Begin, Step
<1>6. StateTyped'
  BY <1>4, <1>5 DEF StateTyped, TypeOK, rows, attachments
<1>7. AttachmentHeld(w)'
  BY <1>3, <1>4, <1>5 DEF AttachmentHeld, AttachLabels, MayAttach, rows, attachments
<1>8. CredentialHeld(w)' /\ DeployHeld(w)'
  BY <1>4 DEF CredentialHeld, DeployHeld, CascadeLabels, DeployLabels
<1> QED
  BY <1>6, <1>7, <1>8, OneWorker DEF Held

LEMMA RequestDetachTyped ==
  ASSUME Serial, TypedInv, NEW w \in Workers, NEW c \in Clients, NEW r \in Routes,
         RequestDetach(w, c, r)
  PROVE  TypedInv'
<1> USE DEF TypedInv
<1> DEFINE l == [NoLoc EXCEPT !.op = "RequestDetach", !.c = c, !.r = r, !.status = route[r],
                              !.row = att[c][r]]
           label == IF approvalEnabled THEN "storeDetach" ELSE "queueRoute"
<1>1. att[c][r] \in AttRows /\ att[c][r].status = "active"
  BY DEF StateTyped, TypeOK, RequestDetach
<1>2. l \in Locals
  BY <1>1, NoLocTyped DEF NoLoc, Locals, LocOps, StateTyped, TypeOK
<1>3. l.op = "RequestDetach" /\ l.c = c /\ l.r = r /\ l.status = route[r] /\ l.row = att[c][r]
  BY DEF NoLoc
<1>4. label \in {"storeDetach", "queueRoute"} /\ label \in Labels
  BY DEF Labels, AttachLabels
<1>5. /\ pc' \in [Workers -> Labels] /\ loc' \in [Workers -> Locals]
      /\ pc'[w] = label /\ loc'[w] = l
  BY <1>2, <1>4, GotoTyped DEF RequestDetach
<1>6. UNCHANGED <<rows, attachments, route, approvalEnabled, served, missed, failures>>
  BY DEF RequestDetach, Begin, Step
<1>7. StateTyped'
  BY <1>5, <1>6 DEF StateTyped, TypeOK, rows, attachments
<1> HIDE DEF l, label
<1>8. AttachmentHeld(w)'
  BY <1>1, <1>3, <1>4, <1>5, <1>6 DEF AttachmentHeld, AttachLabels, attachments
<1>9. CredentialHeld(w)' /\ DeployHeld(w)'
  BY <1>4, <1>5 DEF CredentialHeld, DeployHeld, CascadeLabels, DeployLabels
<1> QED
  BY <1>7, <1>8, <1>9, OneWorker DEF Held

LEMMA StoreAttachmentTyped ==
  ASSUME Serial, TypedInv, NEW w \in Workers, StoreAttachment(w) \/ StoreDetach(w)
  PROVE  TypedInv'
<1> USE DEF TypedInv
<1> DEFINE l == loc[w]
<1>1. /\ l \in Locals /\ l.c \in Clients /\ l.r \in Routes /\ l.row \in AttRows
      /\ l.op \in AttachSites \cup {"RequestDetach"}
  BY DEF StoreAttachment, StoreDetach, Step, AttachmentHeld, AttachLabels, StateTyped, Locals
<1>2. PICK label \in {"submit", "queueRoute"} : Goto(w, label, l)
  BY DEF StoreAttachment, StoreDetach, Continue
<1>3. /\ pc' \in [Workers -> Labels] /\ loc' \in [Workers -> Locals]
      /\ pc'[w] = label /\ loc'[w] = l
  BY <1>1, <1>2, GotoTyped DEF Labels, AttachLabels
<1>4. UNCHANGED <<rows, approvals, granted, override, route, approvalEnabled, served, missed, failures>>
  BY DEF StoreAttachment, StoreDetach, Step
<1>5. CASE StoreAttachment(w)
  <2>1. /\ l.op \in AttachSites /\ l.row.status = "pending_attach"
        /\ l.row = [status |-> "pending_attach", enabled |-> l.row.enabled]
    BY <1>1, <1>5 DEF AttachmentHeld, StoreAttachment, Step, AttRows
  <2>2. att' \in [Clients -> [Routes -> AttRows]] /\ att'[l.c][l.r] = l.row
    <3>1. TypeOK /\ att' = [att EXCEPT ![l.c][l.r] = l.row]
      BY <1>5 DEF StoreAttachment, StateTyped
    <3> QED
      BY <1>1, <3>1, StoreTyped
  <2>3. StateTyped'
    BY <2>2, <1>3, <1>4 DEF StateTyped, TypeOK, rows
  <2>4. label = "queueRoute" => l.status = route[l.r]
    BY <1>5 DEF AttachmentHeld, StoreAttachment, Step
  <2>5. AttachmentHeld(w)'
    BY <1>1, <1>2, <1>3, <1>4, <2>1, <2>2, <2>4 DEF AttachmentHeld, AttachLabels, AttachSites
  <2>6. CredentialHeld(w)' /\ DeployHeld(w)'
    BY <1>2, <1>3 DEF CredentialHeld, DeployHeld, CascadeLabels, DeployLabels
  <2> QED
    BY <2>3, <2>5, <2>6, OneWorker DEF Held
<1>6. CASE StoreDetach(w)
  <2> DEFINE row == [l.row EXCEPT !.status = "pending_detach"]
  <2>1. l.op = "RequestDetach" /\ label = "submit" /\ row \in AttRows
    <3>1. l.op = "RequestDetach" /\ row \in AttRows
      BY <1>1, <1>6, RowTyped DEF AttachmentHeld, StoreDetach, Step, AttachmentStatus
    <3>2. pc'[w] = "submit"
      BY <1>6 DEF StoreDetach, Continue, Goto, StateTyped
    <3> QED
      BY <3>1, <3>2, <1>3
  <2>2. att' \in [Clients -> [Routes -> AttRows]] /\ att'[l.c][l.r] = row
    <3>1. TypeOK /\ att' = [att EXCEPT ![l.c][l.r] = row]
      BY <1>6 DEF StoreDetach, StateTyped
    <3> HIDE DEF row
    <3> QED
      BY <1>1, <2>1, <3>1, StoreTyped
  <2>3. StateTyped'
    BY <2>2, <1>3, <1>4 DEF StateTyped, TypeOK, rows
  <2>5. AttachmentHeld(w)'
    BY <1>1, <1>3, <1>4, <2>1, <2>2 DEF AttachmentHeld, AttachLabels
  <2>6. CredentialHeld(w)' /\ DeployHeld(w)'
    BY <1>2, <1>3 DEF CredentialHeld, DeployHeld, CascadeLabels, DeployLabels
  <2> QED
    BY <2>3, <2>5, <2>6, OneWorker DEF Held
<1> QED
  BY <1>5, <1>6

LEMMA QueueRouteTyped ==
  ASSUME Serial, TypedInv, NEW w \in Workers, QueueRoute(w)
  PROVE  TypedInv'
<1> USE DEF TypedInv
<1> DEFINE l == loc[w]
<1>1. /\ l \in Locals /\ l.c \in Clients /\ l.r \in Routes /\ att[l.c][l.r] = l.row
      /\ l.op \in AttachSites \cup {"RequestDetach"} /\ l.status = route[l.r]
      /\ l.row.status = IF l.op = "RequestDetach" THEN "active" ELSE "pending_attach"
  BY DEF QueueRoute, Step, AttachmentHeld, AttachLabels, StateTyped
<1>2. UNCHANGED <<rows, attachments, approvalEnabled, served, missed, failures>>
  BY DEF QueueRoute, Step
<1>3. CASE Allowed(l.op, l.status, "pending_deploy")
  <2>1. /\ Goto(w, "settle", l)
        /\ route' = IF l.status = "pending_deploy" THEN route ELSE [route EXCEPT ![l.r] = "pending_deploy"]
    BY <1>3 DEF QueueRoute, Continue
  <2>2. /\ pc' \in [Workers -> Labels] /\ loc' \in [Workers -> Locals]
        /\ pc'[w] = "settle" /\ loc'[w] = l
    BY <1>1, <2>1, GotoTyped DEF Labels, AttachLabels
  <2>3. route' \in [Routes -> RouteStatus] /\ route'[l.r] = "pending_deploy"
    BY <1>1, <2>1 DEF StateTyped, TypeOK, RouteStatus
  <2>4. StateTyped'
    BY <1>2, <2>2, <2>3 DEF StateTyped, TypeOK, rows, attachments
  <2>5. Held(w)'
    BY <1>1, <1>2, <2>2, <2>3 DEF Held, AttachmentHeld, CredentialHeld, DeployHeld, AttachLabels, CascadeLabels,
       DeployLabels, attachments
  <2> QED
    BY <2>4, <2>5, OneWorker
<1>4. CASE ~Allowed(l.op, l.status, "pending_deploy")
  <2>1. Return(w) /\ route' = route
    BY <1>4 DEF QueueRoute
  <2>2. StateTyped'
    BY <1>2, <2>1, ReturnTyped DEF StateTyped, TypeOK, rows, attachments
  <2> QED
    BY <2>1, <2>2, ReturnTyped, IdleHeld, OneWorker
<1> QED
  BY <1>3, <1>4

LEMMA SettleTyped ==
  ASSUME Serial, TypedInv, NEW w \in Workers, Settle(w) \/ Submit(w) \/ Requeue(w) \/ CascadeDone(w)
  PROVE  TypedInv'
<1> USE DEF TypedInv
<1> DEFINE l == loc[w]
<1>1. l \in Locals /\ l.row \in AttRows
  BY DEF StateTyped, Locals
<1>2. Return(w) /\ failures' = failures
  BY DEF Settle, Submit, Requeue, CascadeDone, Step
<1>3. pc[w] \in {"settle", "submit", "callback"} => l.c \in Clients /\ l.r \in Routes
  BY DEF AttachmentHeld, AttachLabels
<1>4. att' \in [Clients -> [Routes -> AttRows]]
  <2>1. CASE Settle(w)
    <3>1. PICK s \in {"removed", "approved"} : att' = [att EXCEPT ![l.c][l.r] = [l.row EXCEPT !.status = s]]
      BY <2>1 DEF Settle
    <3> DEFINE row == [l.row EXCEPT !.status = s]
    <3>2. TypeOK /\ row \in AttRows /\ l.c \in Clients /\ l.r \in Routes
      BY <1>1, <1>3, <2>1, RowTyped DEF Settle, Step, AttachmentStatus, StateTyped
    <3> HIDE DEF row
    <3> QED
      BY <3>1, <3>2, StoreTyped DEF row
  <2> QED
    BY <2>1 DEF Submit, Requeue, CascadeDone, attachments, StateTyped, TypeOK
<1>5. approvals' \in Seq(Approvals)
  <2>1. CASE Submit(w)
    <3>1. [c |-> l.c, r |-> l.r, status |-> "pending", enabled |-> l.row.enabled,
           action |-> IF l.op = "RequestDetach" THEN "detach" ELSE "attach"] \in Approvals
      BY <1>1, <1>3, <2>1 DEF Submit, Step, Approvals, AttRows
    <3> QED
      BY <2>1, <3>1 DEF Submit, StateTyped
  <2> QED
    BY <2>1 DEF Settle, Requeue, CascadeDone, attachments, StateTyped
<1>6. route' \in [Routes -> RouteStatus] /\ missed' \subseteq Routes
  <2>1. CASE Requeue(w)
    <3>1. l.r \in Routes
      BY <2>1 DEF Requeue, Step, AttachmentHeld
    <3> QED
      BY <2>1, <3>1 DEF Requeue, StateTyped, TypeOK, RouteStatus
  <2> QED
    BY <2>1 DEF Settle, Submit, CascadeDone, StateTyped, TypeOK
<1>7. UNCHANGED <<rows, approvalEnabled, served>>
  BY DEF Settle, Submit, Requeue, CascadeDone
<1>8. StateTyped'
  BY <1>2, <1>4, <1>5, <1>6, <1>7, ReturnTyped DEF StateTyped, TypeOK, rows
<1> QED
  BY <1>2, <1>8, ReturnTyped, IdleHeld, OneWorker

\* What an attachment gives depends on its methods, on whether it is included,
\* and on the credentials of its client.
LEMMA SameAccess ==
  ASSUME NEW c, NEW r, UNCHANGED <<client, lists>>, att'[c][r].enabled = att[c][r].enabled,
         Included(c, r)' <=> Included(c, r)
  PROVE  /\ BaseAccess(c, r)' = BaseAccess(c, r) /\ OwnAccess(c, r)' = OwnAccess(c, r)
         /\ HasPerClientAuth(c, r)' <=> HasPerClientAuth(c, r)
<1>1. \A k : Cred(c, k)' = Cred(c, k)
  BY DEF Cred
<1>2. BaseAccess(c, r)' = BaseAccess(c, r)
  BY <1>1 DEF BaseAccess, ClientIPCIDRs, ClientHeaders, ClientMethods
<1>3. OwnAccess(c, r)' = OwnAccess(c, r) /\ (HasPerClientAuth(c, r)' <=> HasPerClientAuth(c, r))
  BY <1>1 DEF OwnAccess, HasPerClientAuth
<1> QED
  BY <1>2, <1>3

\* A credential that an attachment does not use may change.
LEMMA UnusedCredential ==
  ASSUME NEW c \in Clients, NEW r \in Routes, NEW k \in Creds, att' = att,
         \A j \in Creds \ {k} : Cred(c, j)' = Cred(c, j),
         k # "methods", k \notin att[c][r].enabled
  PROVE  /\ BaseAccess(c, r)' = BaseAccess(c, r) /\ OwnAccess(c, r)' = OwnAccess(c, r)
         /\ HasPerClientAuth(c, r)' <=> HasPerClientAuth(c, r)
<1>1. Included(c, r)' <=> Included(c, r)
  BY DEF Included
<1>2. BaseAccess(c, r)' = BaseAccess(c, r)
  BY <1>1 DEF BaseAccess, ClientIPCIDRs, ClientHeaders, ClientMethods, Creds
<1>3. OwnAccess(c, r)' = OwnAccess(c, r)
  BY DEF OwnAccess, Creds
<1>4. HasPerClientAuth(c, r)' <=> HasPerClientAuth(c, r)
  BY KindSets DEF HasPerClientAuth
<1> QED
  BY <1>2, <1>3, <1>4

LEMMA DecideTyped ==
  ASSUME Serial, TypedInv, NEW w \in Workers, NEW i \in DOMAIN approvals,
         NEW op \in {"approve", "reject", "cancel"}, Decide(w, i, op)
  PROVE  TypedInv'
<1> USE DEF TypedInv
<1> DEFINE a == approvals[i]
<1>1. /\ a \in Approvals /\ a.c \in Clients /\ a.r \in Routes /\ i \in Nat
      /\ DOMAIN approvals = 1..Len(approvals) /\ Len(approvals) \in Nat
  <2>1. approvals \in Seq(Approvals)
    BY DEF StateTyped
  <2>2. DOMAIN approvals = 1..Len(approvals) /\ Len(approvals) \in Nat /\ i \in Nat
    BY <2>1
  <2>3. a \in Approvals
    BY <2>1, <2>2
  <2> QED
    BY <2>2, <2>3 DEF Approvals
<1>2. Outcome[op] \in {"approved", "rejected", "cancelled"}
  BY DEF Outcome
<1>3. /\ approvals' = [approvals EXCEPT ![i].status = Outcome[op]]
      /\ UNCHANGED <<rows, att, route, approvalEnabled, served, missed, failures>> /\ pc[w] = "idle"
  BY DEF Decide, Begin, Step
<1>4. approvals' = [approvals EXCEPT ![i] = [a EXCEPT !.status = Outcome[op]]]
      /\ [a EXCEPT !.status = Outcome[op]] \in Approvals
  BY <1>1, <1>2, <1>3 DEF Approvals
<1>5. approvals' \in Seq(Approvals)
  BY <1>1, <1>4 DEF StateTyped
<1>6. approvals'[i].c = a.c /\ approvals'[i].r = a.r /\ i \in DOMAIN approvals'
  BY <1>1, <1>4 DEF Approvals
<1>7. CASE att[a.c][a.r] = NoAtt
  <2>1. pc' = pc /\ loc' = loc
    BY <1>7 DEF Decide
  <2>2. StateTyped'
    BY <1>3, <1>5, <2>1 DEF StateTyped, TypeOK, rows
  <2> QED
    BY <1>3, <2>1, <2>2, IdleHeld, OneWorker
<1>8. CASE att[a.c][a.r] # NoAtt
  <2> DEFINE l == [NoLoc EXCEPT !.op = op, !.c = a.c, !.r = a.r, !.id = i, !.row = att[a.c][a.r]]
  <2>1. l \in Locals
    <3>1. att[a.c][a.r] \in AttRows
      BY <1>1 DEF StateTyped, TypeOK
    <3> HIDE DEF a
    <3> QED
      BY <1>1, <3>1, NoLocTyped DEF NoLoc, Locals, LocOps
  <2>2. l.op = op /\ l.c = a.c /\ l.r = a.r /\ l.id = i /\ l.row = att[a.c][a.r]
    BY DEF NoLoc
  <2>3. Goto(w, "callback", l)
    BY <1>8 DEF Decide
  <2>4. /\ pc' \in [Workers -> Labels] /\ loc' \in [Workers -> Locals]
        /\ pc'[w] = "callback" /\ loc'[w] = l
    BY <2>1, <2>3, GotoTyped DEF Labels, AttachLabels
  <2>5. StateTyped'
    BY <1>3, <1>5, <2>4 DEF StateTyped, TypeOK, rows
  <2> HIDE DEF l
  <2>6. Held(w)'
    BY <1>1, <1>3, <1>6, <2>2, <2>4 DEF Held, AttachmentHeld, CredentialHeld, DeployHeld, AttachLabels,
       CascadeLabels, DeployLabels
  <2> QED
    BY <2>5, <2>6, OneWorker
<1> QED
  BY <1>7, <1>8

LEMMA CallbackTyped ==
  ASSUME Serial, TypedInv, NEW w \in Workers, Callback(w)
  PROVE  TypedInv'
<1> USE DEF TypedInv
<1> DEFINE l == loc[w]
<1>1. l \in Locals /\ l.row \in AttRows /\ l.c \in Clients /\ l.r \in Routes
  BY DEF Callback, Step, AttachmentHeld, AttachLabels, StateTyped, Locals
<1>2. /\ UNCHANGED <<rows, approvals, granted, override, route, approvalEnabled, served, failures>>
      /\ missed' \subseteq Routes
  BY <1>1 DEF Callback, Step, StateTyped, TypeOK
<1>3. PICK s \in {"rejected", "removed", "approved"} :
         att' = [att EXCEPT ![l.c][l.r] = [l.row EXCEPT !.status = s]]
  BY DEF Callback
<1>4. att' \in [Clients -> [Routes -> AttRows]]
  <2> DEFINE row == [l.row EXCEPT !.status = s]
  <2>1. TypeOK /\ row \in AttRows /\ att' = [att EXCEPT ![l.c][l.r] = row]
    BY <1>1, <1>3, RowTyped DEF AttachmentStatus, StateTyped
  <2> QED
    BY <1>1, <2>1, StoreTyped
<1>5. PICK label \in {"requeue", "idle"} : Goto(w, label, l) \/ (label = "idle" /\ Return(w))
  BY DEF Callback, Continue
<1>6. /\ pc' \in [Workers -> Labels] /\ loc' \in [Workers -> Locals]
      /\ \/ pc'[w] = "requeue" /\ loc'[w] = l
         \/ pc'[w] = "idle"
  BY <1>1, <1>5, GotoTyped, ReturnTyped DEF Labels
<1>7. StateTyped'
  BY <1>2, <1>4, <1>6 DEF StateTyped, TypeOK, rows
<1>8. Held(w)'
  <2>1. CASE pc'[w] = "requeue" /\ loc'[w] = l
    BY <1>1, <2>1 DEF Held, AttachmentHeld, CredentialHeld, DeployHeld, AttachLabels, CascadeLabels, DeployLabels
  <2> QED
    BY <1>6, <2>1, IdleHeld
<1> QED
  BY <1>7, <1>8, OneWorker

\* A request that returns and leaves the tables alone.
LEMMA ReturnsTyped ==
  ASSUME Serial, TypedInv, NEW w \in Workers, WriteFails(w) \/ DeployFails(w) \/ FinishDeploy(w)
  PROVE  TypedInv'
<1> USE DEF TypedInv
<1>1. Return(w) /\ UNCHANGED <<rows, attachments, approvalEnabled, served>>
  BY DEF WriteFails, DeployFails, FinishDeploy
<1>2. failures' \in 0..MaxFailures
  BY FailuresTyped DEF WriteFails, DeployFails, FinishDeploy, Step, StateTyped, TypeOK
<1>3. missed' \subseteq Routes /\ route' \in [Routes -> RouteStatus]
  <2>1. CASE WriteFails(w)
    <3>1. pc[w] \in {"callback", "requeue"} => loc[w].r \in Routes
      BY DEF AttachmentHeld, AttachLabels
    <3>2. route' = route /\ \/ missed' = missed \/ missed' = missed \cup Routes
                            \/ pc[w] \in {"callback", "requeue"} /\ missed' = missed \cup {loc[w].r}
      BY <2>1 DEF WriteFails
    <3> QED
      BY <3>1, <3>2 DEF StateTyped, TypeOK
  <2>2. CASE DeployFails(w)
    BY <2>2 DEF DeployFails, StateTyped, TypeOK
  <2>3. CASE FinishDeploy(w)
    <3>1. loc[w].r \in Routes
      BY <2>3 DEF FinishDeploy, Step, DeployHeld, DeployLabels
    <3> QED
      BY <2>3, <3>1 DEF FinishDeploy, StateTyped, TypeOK, RouteStatus
  <2> QED
    BY <2>1, <2>2, <2>3
<1>4. StateTyped'
  BY <1>1, <1>2, <1>3, ReturnTyped DEF StateTyped, TypeOK, rows, attachments
<1> QED
  BY <1>1, <1>4, ReturnTyped, IdleHeld, OneWorker

LEMMA BeginDeployTyped ==
  ASSUME Serial, TypedInv, NEW w \in Workers, NEW r \in Routes, BeginDeploy(w, r)
  PROVE  TypedInv'
<1> USE DEF TypedInv
<1> DEFINE l == [NoLoc EXCEPT !.op = "deploy", !.r = r, !.status = route[r]]
<1>1. l \in Locals /\ l.r = r
  BY NoLocTyped DEF NoLoc, Locals, LocOps, StateTyped, TypeOK
<1>2. /\ pc' \in [Workers -> Labels] /\ loc' \in [Workers -> Locals]
      /\ pc'[w] = "applyBase" /\ loc'[w] = l
  BY <1>1, GotoTyped DEF BeginDeploy, Labels, DeployLabels
<1>3. /\ UNCHANGED <<rows, attachments, route, approvalEnabled, served, missed, failures>>
      /\ route[r] \in {"approved", "pending_deploy"}
  BY DEF BeginDeploy, Begin, Step
<1>4. StateTyped'
  BY <1>2, <1>3 DEF StateTyped, TypeOK, rows, attachments
<1>5. Held(w)'
  BY <1>1, <1>2, <1>3 DEF Held, AttachmentHeld, CredentialHeld, DeployHeld, AttachLabels, CascadeLabels,
     DeployLabels, Queued
<1> QED
  BY <1>4, <1>5, OneWorker

\* What a deploy that goes on is about.
LEMMA DeployGoesOn ==
  ASSUME Serial, TypedInv, NEW w \in Workers, StateTyped', pc[w] \in DeployLabels,
         pc'[w] \in DeployLabels \ {"applyOwn"}, loc'[w].r = loc[w].r, UNCHANGED route
  PROVE  TypedInv'
<1>1. Held(w)'
  BY DEF TypedInv, Held, AttachmentHeld, CredentialHeld, DeployHeld, AttachLabels, CascadeLabels,
     DeployLabels, Queued
<1> QED
  BY <1>1, OneWorker

LEMMA ApplyBaseTyped ==
  ASSUME Serial, TypedInv, NEW w \in Workers, ApplyBase(w)
  PROVE  TypedInv'
<1> USE DEF TypedInv
<1> DEFINE r == loc[w].r
           todo == {c \in Clients : Included(c, r) /\ HasPerClientAuth(c, r)}
           cred == [c \in Clients |-> OwnAccess(c, r)]
           l == [loc[w] EXCEPT !.cred = cred, !.todo = todo]
<1>1. loc[w] \in Locals /\ r \in Routes /\ Queued(r)
  BY DEF ApplyBase, Step, DeployHeld, DeployLabels, StateTyped
<1>2. cred \in [Clients -> Access] /\ todo \subseteq Clients /\ \A c \in todo : Included(c, r)
  BY <1>1, AccessTyped DEF StateTyped
<1>3. Goto(w, "applyOwn", l)
  BY DEF ApplyBase
<1> HIDE DEF r, todo, cred
<1>4. l \in Locals /\ l.r = loc[w].r /\ l.cred = cred /\ l.todo = todo
  BY <1>1, <1>2 DEF Locals
<1>5. /\ pc' \in [Workers -> Labels] /\ loc' \in [Workers -> Locals]
      /\ pc'[w] = "applyOwn" /\ loc'[w] = l
  BY <1>3, <1>4, GotoTyped DEF Labels, DeployLabels
<1>6. UNCHANGED <<rows, attachments, route, approvalEnabled, missed, failures>>
  BY DEF ApplyBase, Step
<1>7. served' \in [Routes -> [base : [Clients -> Access], open : BOOLEAN, own : [Clients -> Access]]]
  <2>1. served' = [served EXCEPT ![r].base = [c \in Clients |-> BaseAccess(c, r)], ![r].open = BaseOpen(r)]
    BY DEF ApplyBase, r
  <2>2. [c \in Clients |-> BaseAccess(c, r)] \in [Clients -> Access]
    BY <1>1, AccessTyped DEF StateTyped
  <2>3. BaseOpen(r) \in BOOLEAN
    BY DEF BaseOpen
  <2> QED
    BY <1>1, <2>1, <2>2, <2>3 DEF StateTyped, TypeOK
<1>8. StateTyped'
  BY <1>5, <1>6, <1>7 DEF StateTyped, TypeOK, rows, attachments
<1>9. Held(w)'
  <2>1. \A c : OwnAccess(c, r)' = OwnAccess(c, loc[w].r)
    BY <1>4, <1>5, <1>6 DEF OwnAccess, Cred, r, rows, attachments
  <2>2. loc'[w].cred = [c \in Clients |-> OwnAccess(c, loc[w].r)']
    BY <1>4, <1>5, <1>6, <2>1 DEF cred, r, OwnAccess, Cred, rows, attachments
  <2>3. \A c \in todo : Included(c, loc[w].r)'
    BY <1>2, <1>4, <1>5, <1>6 DEF Included, r, attachments
  <2>4. DeployHeld(w)'
    BY <1>1, <1>2, <1>4, <1>5, <1>6, <2>2, <2>3 DEF DeployHeld, DeployLabels, Queued, r, OwnAccess, Cred,
       rows, attachments, Included
  <2> QED
    BY <1>5, <2>4 DEF Held, AttachmentHeld, CredentialHeld, AttachLabels, CascadeLabels
<1> QED
  BY <1>8, <1>9, OneWorker

LEMMA ApplyOwnTyped ==
  ASSUME Serial, TypedInv, NEW w \in Workers, NEW c \in Clients, ApplyOwn(w, c)
  PROVE  TypedInv'
<1> USE DEF TypedInv
<1> DEFINE l == loc[w]
           m == [l EXCEPT !.todo = @ \ {c}]
<1>1. /\ l \in Locals /\ l.r \in Routes /\ Queued(l.r)
      /\ l.todo \subseteq Clients /\ \A b \in l.todo : Included(b, l.r)
      /\ l.cred = [b \in Clients |-> OwnAccess(b, l.r)]
  BY DEF ApplyOwn, Step, DeployHeld, DeployLabels, StateTyped
<1>2. m \in Locals /\ m.r = l.r /\ m.cred = l.cred /\ m.todo \subseteq l.todo
  BY <1>1 DEF Locals
<1>3. /\ pc' \in [Workers -> Labels] /\ loc' \in [Workers -> Locals]
      /\ pc'[w] = "applyOwn" /\ loc'[w] = m
  BY <1>2, GotoTyped DEF ApplyOwn, Labels, DeployLabels
<1>4. UNCHANGED <<rows, attachments, route, approvalEnabled, missed, failures>>
  BY DEF ApplyOwn, Step
<1>5. served' \in [Routes -> [base : [Clients -> Access], open : BOOLEAN, own : [Clients -> Access]]]
  <2>1. l.cred[c] \in Access
    BY <1>1, AccessTyped DEF StateTyped
  <2> QED
    BY <1>1, <2>1 DEF ApplyOwn, StateTyped, TypeOK
<1>6. StateTyped'
  BY <1>3, <1>4, <1>5 DEF StateTyped, TypeOK, rows, attachments
<1>7. DeployHeld(w)'
  <2>1. [b \in Clients |-> OwnAccess(b, l.r)'] = [b \in Clients |-> OwnAccess(b, l.r)]
    BY <1>4, <1>2, <1>3 DEF OwnAccess, Cred, rows, attachments
  <2> HIDE DEF m
  <2> QED
    BY <1>1, <1>2, <1>3, <1>4, <2>1 DEF DeployHeld, DeployLabels, Queued, OwnAccess, Cred, rows, attachments,
       Included
<1>8. CredentialHeld(w)' /\ AttachmentHeld(w)'
  BY <1>3 DEF AttachmentHeld, CredentialHeld, AttachLabels, CascadeLabels
<1> QED
  BY <1>6, <1>7, <1>8, OneWorker DEF Held

LEMMA CleanupTyped ==
  ASSUME Serial, TypedInv, NEW w \in Workers, Cleanup(w) \/ CleanupFails(w)
  PROVE  TypedInv'
<1> USE DEF TypedInv
<1> DEFINE l == loc[w]
<1>1. l \in Locals /\ l.r \in Routes
  BY DEF Cleanup, CleanupFails, Step, Fails, DeployHeld, DeployLabels, StateTyped
<1>2. PICK b \in BOOLEAN : Goto(w, "markActive", [l EXCEPT !.ok = b])
  <2>1. CASE Cleanup(w)
    <3>1. [l EXCEPT !.ok = l.ok] = l /\ l.ok \in BOOLEAN
      BY <1>1 DEF Locals
    <3> QED
      BY <2>1, <3>1 DEF Cleanup, Continue
  <2>2. CASE CleanupFails(w)
    BY <2>2 DEF CleanupFails
  <2> QED
    BY <2>1, <2>2
<1>3. [l EXCEPT !.ok = b] \in Locals /\ [l EXCEPT !.ok = b].r = l.r
  BY <1>1 DEF Locals
<1>4. /\ pc' \in [Workers -> Labels] /\ loc' \in [Workers -> Locals]
      /\ pc'[w] = "markActive" /\ loc'[w] = [l EXCEPT !.ok = b]
  BY <1>2, <1>3, GotoTyped DEF Labels, DeployLabels
<1>5. UNCHANGED <<rows, attachments, route, approvalEnabled, missed>> /\ failures' \in 0..MaxFailures
  BY FailuresTyped DEF Cleanup, CleanupFails, Step, StateTyped, TypeOK
<1>6. served' \in [Routes -> [base : [Clients -> Access], open : BOOLEAN, own : [Clients -> Access]]]
  <2>1. NoAccess \in Access
    BY Bounds DEF NoAccess, Access
  <2>2. CASE Cleanup(w)
    <3> DEFINE expected == {c \in Clients : Included(c, l.r) /\ att[c][l.r].enabled \cap PerClientKinds # {}}
               own == [c \in Clients |-> IF c \in expected THEN served[l.r].own[c] ELSE NoAccess]
    <3>1. served' = [served EXCEPT ![l.r].own = own]
      BY <2>2 DEF Cleanup
    <3>2. own \in [Clients -> Access]
      BY <1>1, <2>1 DEF StateTyped, TypeOK
    <3> HIDE DEF own
    <3> QED
      BY <1>1, <3>1, <3>2 DEF StateTyped, TypeOK
  <2> QED
    BY <2>2 DEF CleanupFails, StateTyped, TypeOK
<1>7. StateTyped'
  BY <1>4, <1>5, <1>6 DEF StateTyped, TypeOK, rows, attachments
<1>8. pc[w] \in DeployLabels
  BY DEF Cleanup, CleanupFails, Step, Fails, DeployLabels
<1> QED
  BY <1>3, <1>4, <1>5, <1>7, <1>8, DeployGoesOn DEF DeployLabels

LEMMA MarkFailsTyped ==
  ASSUME Serial, TypedInv, NEW w \in Workers, MarkFails(w)
  PROVE  TypedInv'
<1> DEFINE l == loc[w]
<1>1. StateTyped /\ l \in Locals /\ pc[w] \in DeployLabels
  BY DEF TypedInv, StateTyped, MarkFails, Fails, DeployLabels
<1>2. [l EXCEPT !.ok = FALSE] \in Locals /\ [l EXCEPT !.ok = FALSE].r = l.r
  BY <1>1 DEF Locals
<1>3. /\ pc' \in [Workers -> Labels] /\ loc' \in [Workers -> Locals]
      /\ pc'[w] = "finish" /\ loc'[w] = [l EXCEPT !.ok = FALSE]
  BY <1>1, <1>2, GotoTyped DEF MarkFails, Labels, DeployLabels
<1>4. UNCHANGED <<rows, attachments, route, approvalEnabled, served, missed>> /\ failures' \in 0..MaxFailures
  BY <1>1, FailuresTyped DEF MarkFails
<1>5. StateTyped'
  BY <1>1, <1>3, <1>4 DEF StateTyped, TypeOK, rows, attachments
<1> QED
  BY <1>1, <1>2, <1>3, <1>4, <1>5, DeployGoesOn DEF DeployLabels

LEMMA MarkActiveTyped ==
  ASSUME Serial, TypedInv, NEW w \in Workers, MarkActive(w)
  PROVE  /\ TypedInv'
         /\ \A c \in Clients, r \in Routes :
               att'[c][r] = IF r = loc[w].r /\ att[c][r].status = "approved"
                            THEN [att[c][r] EXCEPT !.status = "active"] ELSE att[c][r]
<1> USE DEF TypedInv
<1> DEFINE l == loc[w]
<1>1. l \in Locals /\ l.r \in Routes
  BY DEF MarkActive, Step, DeployHeld, DeployLabels, StateTyped
<1>2. /\ pc' \in [Workers -> Labels] /\ loc' \in [Workers -> Locals]
      /\ pc'[w] = "finish" /\ loc'[w] = l
  BY <1>1, GotoTyped DEF MarkActive, Continue, Labels, DeployLabels
<1>3. att = [c \in Clients |-> att[c]] /\ att' = [c \in Clients |-> att'[c]]
  BY DEF MarkActive, StateTyped, TypeOK
<1>4. \A c \in Clients :
         /\ att'[c] \in [Routes -> AttRows]
         /\ \A r \in Routes : att'[c][r] = IF r = l.r /\ att[c][r].status = "approved"
                                          THEN [att[c][r] EXCEPT !.status = "active"] ELSE att[c][r]
  <2> SUFFICES ASSUME NEW c \in Clients
               PROVE  /\ att'[c] \in [Routes -> AttRows]
                      /\ \A r \in Routes : att'[c][r] = IF r = l.r /\ att[c][r].status = "approved"
                                          THEN [att[c][r] EXCEPT !.status = "active"] ELSE att[c][r]
    OBVIOUS
  <2> DEFINE row == att[c][l.r]
             s == IF row.status = "approved" THEN "active" ELSE row.status
             new == [row EXCEPT !.status = s]
  <2>1. att[c] \in [Routes -> AttRows] /\ row \in AttRows
    BY <1>1 DEF StateTyped, TypeOK
  <2>2. att'[c] = [att[c] EXCEPT ![l.r] = new]
    BY DEF MarkActive
  <2>3. s \in AttachmentStatus
    BY <2>1 DEF AttRows, AttachmentStatus
  <2>4. new \in AttRows
    BY <2>1, <2>3, RowTyped
  <2>5. row.status # "approved" => new = row
    BY <2>1 DEF AttRows
  <2>6. row.status = "approved" => new = [row EXCEPT !.status = "active"]
    OBVIOUS
  <2> HIDE DEF new
  <2> QED
    BY <1>1, <2>1, <2>2, <2>4, <2>5, <2>6
<1>5. \A c \in Clients, r \in Routes :
               att'[c][r] = IF r = l.r /\ att[c][r].status = "approved"
                            THEN [att[c][r] EXCEPT !.status = "active"] ELSE att[c][r]
  BY <1>4
<1>6. att' \in [Clients -> [Routes -> AttRows]]
  BY <1>3, <1>4
<1>7. UNCHANGED <<rows, approvals, granted, override, route, approvalEnabled, served, missed, failures>>
  BY DEF MarkActive, Step
<1>8. StateTyped'
  BY <1>2, <1>6, <1>7 DEF StateTyped, TypeOK, rows
<1>9. pc[w] \in DeployLabels
  BY DEF MarkActive, Step, DeployLabels
<1> QED
  BY <1>2, <1>5, <1>7, <1>8, <1>9, DeployGoesOn DEF DeployLabels

\* The steps of a worker, by what they are part of.
CredentialStep(w) ==
    \E c \in Clients : \/ \E k \in RowKinds : SetCredential(w, c, k) \/ ClearCredential(w, c, k)
                       \/ \E k \in ListKinds : AddToList(w, c, k) \/ RemoveFromList(w, c, k)
CascadeStep(w) ==
    \/ SaveClient(w) \/ ListAttachments(w) \/ CascadeDone(w)
    \/ \E r \in Routes : CascadeRoute(w, r) \/ CascadeFails(w, r)
AttachStep(w) ==
    \/ \E c \in Clients, r \in Routes :
          \/ \E e \in Configs, site \in AttachSites : Attach(w, c, r, e, site)
          \/ RequestDetach(w, c, r)
    \/ StoreAttachment(w) \/ StoreDetach(w) \/ QueueRoute(w) \/ Settle(w) \/ Submit(w)
DecideStep(w) ==
    \/ \E i \in DOMAIN approvals, op \in {"approve", "reject", "cancel"} : Decide(w, i, op)
    \/ Callback(w) \/ Requeue(w)
DeployStep(w) ==
    \/ \E r \in Routes : BeginDeploy(w, r)
    \/ \E c \in Clients : ApplyOwn(w, c)
    \/ ApplyBase(w) \/ Cleanup(w) \/ CleanupFails(w) \/ MarkActive(w) \/ MarkFails(w) \/ FinishDeploy(w)
OtherStep(w) ==
    \/ \E c \in Clients : DeleteClient(w, c)
    \/ \E r \in Routes : SubmitUpdate(w, r) \/ ReviewUpdate(w, r)
    \/ WriteFails(w) \/ DeployFails(w) \/ Toggle(w)

WorkerStep(w) == \/ CredentialStep(w) \/ CascadeStep(w) \/ AttachStep(w)
                 \/ DecideStep(w) \/ DeployStep(w) \/ OtherStep(w)

LEMMA Steps ==
  ASSUME Next
  PROVE  \E w \in Workers : WorkerStep(w)
<1>1. PICK w \in Workers :
        \/ \E c \in Clients :
              \/ GenerateAPIKey(w, c) \/ RevokeAPIKey(w, c)
              \/ ConfigureJWT(w, c) \/ RemoveJWT(w, c)
              \/ UpdateClientMTLS(w, c) \/ SetAllowedMethods(w, c)
              \/ AddIP(w, c) \/ RemoveIP(w, c) \/ AddHeader(w, c) \/ RemoveHeader(w, c)
              \/ DeleteClient(w, c) \/ ApplyOwn(w, c)
              \/ \E r \in Routes :
                    \/ \E e \in Configs :
                          AttachFromRoute(w, c, r, e) \/ AttachFromClient(w, c, r, e)
                    \/ RequestDetach(w, c, r)
        \/ AttachStep(w) \/ CascadeStep(w) \/ DecideStep(w) \/ DeployStep(w) \/ OtherStep(w)
  BY DEF Next, AttachStep, CascadeStep, DecideStep, DeployStep, OtherStep
<1>2. SUFFICES ASSUME NEW c \in Clients,
              \/ GenerateAPIKey(w, c) \/ RevokeAPIKey(w, c)
              \/ ConfigureJWT(w, c) \/ RemoveJWT(w, c)
              \/ UpdateClientMTLS(w, c) \/ SetAllowedMethods(w, c)
              \/ AddIP(w, c) \/ RemoveIP(w, c) \/ AddHeader(w, c) \/ RemoveHeader(w, c)
              \/ DeleteClient(w, c) \/ ApplyOwn(w, c)
              \/ \E r \in Routes :
                    \/ \E e \in Configs :
                          AttachFromRoute(w, c, r, e) \/ AttachFromClient(w, c, r, e)
                    \/ RequestDetach(w, c, r)
              PROVE  CredentialStep(w) \/ AttachStep(w) \/ OtherStep(w) \/ DeployStep(w)
  BY <1>1 DEF WorkerStep
<1>3. {"apiKey", "jwt", "mtls", "methods"} \subseteq RowKinds /\ {"ip", "header"} \subseteq ListKinds
  BY DEF RowKinds, PerClientKinds, ListKinds
<1>4. (\E k \in RowKinds : SetCredential(w, c, k) \/ ClearCredential(w, c, k)) => CredentialStep(w)
  BY DEF CredentialStep
<1>5. (\E k \in ListKinds : AddToList(w, c, k) \/ RemoveFromList(w, c, k)) => CredentialStep(w)
  BY DEF CredentialStep
<1>6. GenerateAPIKey(w, c) \/ RevokeAPIKey(w, c) \/ ConfigureJWT(w, c) \/ RemoveJWT(w, c)
        \/ UpdateClientMTLS(w, c) \/ SetAllowedMethods(w, c) => CredentialStep(w)
  BY <1>3, <1>4 DEF GenerateAPIKey, RevokeAPIKey, ConfigureJWT, RemoveJWT, UpdateClientMTLS, SetAllowedMethods
<1>7. AddIP(w, c) \/ RemoveIP(w, c) \/ AddHeader(w, c) \/ RemoveHeader(w, c) => CredentialStep(w)
  BY <1>3, <1>5 DEF AddIP, RemoveIP, AddHeader, RemoveHeader
<1>8. DeleteClient(w, c) => OtherStep(w)
  BY DEF OtherStep
<1>9. ApplyOwn(w, c) => DeployStep(w)
  BY DEF DeployStep
<1>10. (\E r \in Routes : \/ \E e \in Configs : AttachFromRoute(w, c, r, e) \/ AttachFromClient(w, c, r, e)
                          \/ RequestDetach(w, c, r)) => AttachStep(w)
  BY DEF AttachStep, AttachFromRoute, AttachFromClient, AttachSites
<1> QED
  BY <1>2, <1>6, <1>7, <1>8, <1>9, <1>10

LEMMA TypedInit == Init => TypedInv
<1> SUFFICES ASSUME Init PROVE TypedInv
  OBVIOUS
<1>1. TypeOK
  BY NoAttTyped, Bounds DEF Init, TypeOK, RouteStatus, NoAccess, Access
<1>2. StateTyped
  BY <1>1, NoLocTyped, Bounds DEF Init, StateTyped, Labels
<1>3. \A w \in Workers : CredentialHeld(w) /\ AttachmentHeld(w) /\ DeployHeld(w)
  BY DEF Init, CredentialHeld, AttachmentHeld, DeployHeld, CascadeLabels, AttachLabels, DeployLabels
<1> QED
  BY <1>2, <1>3 DEF TypedInv

LEMMA TypedStep ==
  ASSUME Serial, TypedInv, NEW w \in Workers, WorkerStep(w)
  PROVE  TypedInv'
<1>1. CASE CredentialStep(w)
  BY <1>1, SetCredentialTyped, ListTyped DEF CredentialStep
<1>2. CASE CascadeStep(w)
  BY <1>2, SaveClientTyped, CascadeTyped, SettleTyped DEF CascadeStep
<1>3. CASE AttachStep(w)
  BY <1>3, AttachTyped, RequestDetachTyped, StoreAttachmentTyped, QueueRouteTyped, SettleTyped DEF AttachStep
<1>4. CASE DecideStep(w)
  BY <1>4, DecideTyped, CallbackTyped, SettleTyped DEF DecideStep
<1>5. CASE DeployStep(w)
  BY <1>5, BeginDeployTyped, ApplyBaseTyped, ApplyOwnTyped, CleanupTyped, MarkActiveTyped, MarkFailsTyped, ReturnsTyped
     DEF DeployStep
<1>6. CASE OtherStep(w)
  BY <1>6, DeleteClientTyped, StatusTyped, ReturnsTyped DEF OtherStep
<1> QED
  BY <1>1, <1>2, <1>3, <1>4, <1>5, <1>6 DEF WorkerStep

---------------------------------------------------------------------------
\* Open approvals and the attachments that wait for them.

\* The common shape: approvals are as they were and every open one is still
\* awaited.
LEMMA ApprovalsKept ==
  ASSUME Serial, ApprovalsInv, NEW w \in Workers, UNCHANGED <<approvals, override>>, Reserved(w)',
         \A i \in DOMAIN approvals : Pending(i) => Awaited(i)'
  PROVE  ApprovalsInv'
<1>1. \A i : Pending(i)' <=> Pending(i)
  BY DEF Pending
<1>2. \A i \in DOMAIN approvals' : Pending(i)' => Awaited(i)'
  BY <1>1
<1>3. \A i, j \in DOMAIN approvals' :
         Pending(i)' /\ Pending(j)' /\ approvals'[i].c = approvals'[j].c
            /\ approvals'[i].r = approvals'[j].r => i = j
  BY <1>1 DEF ApprovalsInv
<1>4. \A v \in Workers : Reserved(v)'
  <2> SUFFICES ASSUME NEW v \in Workers PROVE Reserved(v)'
    OBVIOUS
  <2>1. v = w
    BY DEF Serial
  <2> QED
    BY <2>1
<1> QED
  BY <1>2, <1>3, <1>4 DEF ApprovalsInv

\* Steps that do not touch attachments or approvals.
LEMMA ApprovalsUntouched ==
  ASSUME Serial, ApprovalsInv, NEW w \in Workers, UNCHANGED <<approvals, override, att, alive>>,
         \/ pc'[w] \notin AttachLabels
         \/ pc[w] \in AttachLabels /\ loc'[w].c = loc[w].c /\ loc'[w].r = loc[w].r
  PROVE  ApprovalsInv'
<1>1. \A i \in DOMAIN approvals : Pending(i) => Awaited(i)'
  BY DEF ApprovalsInv, Awaited
<1>2. Reserved(w)'
  BY DEF ApprovalsInv, Reserved, Pending
<1> QED
  BY <1>1, <1>2, ApprovalsKept

\* Steps of a request that store the attachment it has reserved.
LEMMA ApprovalsReserved ==
  ASSUME Serial, TypedInv, ApprovalsInv, NEW w \in Workers, UNCHANGED <<approvals, override, alive>>,
         pc[w] \in AttachLabels,
         NEW row \in AttRows, att' = [att EXCEPT ![loc[w].c][loc[w].r] = row],
         \/ pc'[w] \notin AttachLabels
         \/ loc'[w].c = loc[w].c /\ loc'[w].r = loc[w].r
  PROVE  ApprovalsInv'
<1> DEFINE l == loc[w]
<1>1. l.c \in Clients /\ l.r \in Routes /\ TypeOK
  BY DEF TypedInv, AttachmentHeld, StateTyped
<1>2. \A b \in Clients, q \in Routes : <<b, q>> # <<l.c, l.r>> => att'[b][q] = att[b][q]
  BY <1>1, StoreTyped
<1>3. \A i \in DOMAIN approvals : Pending(i) => Awaited(i)'
  <2> SUFFICES ASSUME NEW i \in DOMAIN approvals, Pending(i) PROVE Awaited(i)'
    OBVIOUS
  <2>1. approvals[i].c \in Clients /\ approvals[i].r \in Routes
    <3>1. approvals \in Seq(Approvals)
      BY DEF TypedInv, StateTyped
    <3>2. approvals[i] \in Approvals
      BY <3>1
    <3> QED
      BY <3>2 DEF Approvals
  <2>2. <<approvals[i].c, approvals[i].r>> # <<l.c, l.r>>
    BY DEF ApprovalsInv, Reserved
  <2>3. att'[approvals[i].c][approvals[i].r] = att[approvals[i].c][approvals[i].r]
    BY <1>2, <2>1, <2>2
  <2>4. Awaited(i)
    BY DEF ApprovalsInv
  <2> QED
    BY <2>3, <2>4 DEF Awaited
<1>4. Reserved(w)'
  BY DEF ApprovalsInv, Reserved, Pending
<1> QED
  BY <1>3, <1>4, ApprovalsKept

LEMMA ApprovalsBegin ==
  ASSUME Serial, TypedInv, ApprovalsInv, NEW w \in Workers, NEW c \in Clients, NEW r \in Routes,
         \/ \E e \in Configs, site \in AttachSites : Attach(w, c, r, e, site)
         \/ RequestDetach(w, c, r)
  PROVE  ApprovalsInv'
<1>1. /\ UNCHANGED <<approvals, override, att, alive>>
      /\ loc'[w].c = c /\ loc'[w].r = r
      /\ \/ att[c][r].status = "active"
         \/ att[c][r].status \in {"none", "removed", "rejected"} /\ c \in alive
  <2>1. CASE \E e \in Configs, site \in AttachSites : Attach(w, c, r, e, site)
    <3>1. PICK e \in Configs, site \in AttachSites : Attach(w, c, r, e, site)
      BY <2>1
    <3> QED
      BY <3>1 DEF Attach, MayAttach, rows, attachments, Goto, NoLoc, TypedInv, StateTyped
  <2>2. CASE RequestDetach(w, c, r)
    BY <2>2 DEF RequestDetach, rows, attachments, Goto, NoLoc, TypedInv, StateTyped
  <2> QED
    BY <2>1, <2>2
<1>2. \A i \in DOMAIN approvals : Pending(i) => <<approvals[i].c, approvals[i].r>> # <<c, r>>
  <2> SUFFICES ASSUME NEW i \in DOMAIN approvals, Pending(i),
                      approvals[i].c = c, approvals[i].r = r
               PROVE  FALSE
    OBVIOUS
  <2>1. Awaited(i)
    BY DEF ApprovalsInv
  <2> QED
    BY <1>1, <2>1, NoAttTyped DEF Awaited
<1>3. Reserved(w)'
  BY <1>1, <1>2 DEF Reserved, Pending
<1>4. \A i \in DOMAIN approvals : Pending(i) => Awaited(i)'
  BY <1>1 DEF ApprovalsInv, Awaited
<1> QED
  BY <1>1, <1>3, <1>4, ApprovalsKept

LEMMA ApprovalsSubmit ==
  ASSUME Serial, TypedInv, ApprovalsInv, NEW w \in Workers, Submit(w)
  PROVE  ApprovalsInv'
<1> DEFINE l == loc[w]
           new == [c |-> l.c, r |-> l.r, status |-> "pending", enabled |-> l.row.enabled,
                   action |-> IF l.op = "RequestDetach" THEN "detach" ELSE "attach"]
<1>1. /\ pc[w] = "submit" /\ approvals' = Append(approvals, new)
      /\ UNCHANGED <<att, alive, override>> /\ Return(w)
  BY DEF Submit, Step, rows
<1>a. approvals \in Seq(Approvals) /\ l \in Locals
  BY DEF TypedInv, StateTyped
<1>b. PICK n \in Nat : n = Len(approvals)
  BY <1>a
<1>2. approvals \in Seq(Approvals) /\ n = Len(approvals) /\ DOMAIN approvals = 1..n /\ l.row \in AttRows
  BY <1>a, <1>b DEF Locals
<1>3. /\ DOMAIN approvals' = 1..n + 1 /\ approvals'[n + 1] = new
      /\ \A i \in 1..n : approvals'[i] = approvals[i]
  <2> HIDE DEF new
  <2> QED
    BY <1>1, <1>2
<1>4. pc'[w] = "idle"
  BY <1>1, ReturnTyped DEF TypedInv
<1>5. \A i \in 1..n : Pending(i)' <=> Pending(i)
  BY <1>1, <1>2, <1>3 DEF Pending
<1>6. \A i \in 1..n : Pending(i)' => Awaited(i)' /\ <<approvals[i].c, approvals[i].r>> # <<l.c, l.r>>
  <2> SUFFICES ASSUME NEW i \in 1..n, Pending(i)'
               PROVE  Awaited(i)' /\ <<approvals[i].c, approvals[i].r>> # <<l.c, l.r>>
    OBVIOUS
  <2>1. Pending(i) /\ Awaited(i)
    BY <1>2, <1>5 DEF ApprovalsInv
  <2>2. Awaited(i)'
    BY <1>1, <1>3, <2>1 DEF Awaited
  <2> QED
    BY <1>1, <1>2, <2>1, <2>2 DEF ApprovalsInv, Reserved, AttachLabels
<1>7. Awaited(n + 1)'
  <2>1. /\ att[l.c][l.r] = IF l.op = "RequestDetach" THEN [l.row EXCEPT !.status = "pending_detach"]
                           ELSE [status |-> "pending_attach", enabled |-> l.row.enabled]
        /\ l.op \in AttachSites \cup {"RequestDetach"}
    BY <1>1 DEF TypedInv, AttachmentHeld, AttachLabels
  <2>2. [l.row EXCEPT !.status = "pending_detach"].status = "pending_detach"
    BY <1>2 DEF AttRows
  <2>3. /\ new.c = l.c /\ new.r = l.r /\ new.enabled = l.row.enabled
        /\ l.op = "RequestDetach" => new.action = "detach"
        /\ l.op # "RequestDetach" => new.action = "attach"
    OBVIOUS
  <2>4. att'[l.c][l.r] = att[l.c][l.r] /\ approvals'[n + 1] = new
    BY <1>1, <1>3
  <2> HIDE DEF new, l
  <2>5. CASE l.op = "RequestDetach"
    BY <2>1, <2>2, <2>3, <2>4, <2>5 DEF Awaited
  <2>6. CASE l.op # "RequestDetach"
    BY <2>1, <2>3, <2>4, <2>6 DEF Awaited
  <2> QED
    BY <2>5, <2>6
<1>8. \A i \in DOMAIN approvals' : Pending(i)' => Awaited(i)'
  <2> SUFFICES ASSUME NEW i \in DOMAIN approvals', Pending(i)' PROVE Awaited(i)'
    OBVIOUS
  <2>1. i \in 1..n \/ i = n + 1
    BY <1>2, <1>3
  <2> QED
    BY <1>6, <1>7, <2>1
<1>9. \A i, j \in DOMAIN approvals' :
         Pending(i)' /\ Pending(j)' /\ approvals'[i].c = approvals'[j].c
            /\ approvals'[i].r = approvals'[j].r => i = j
  <2> SUFFICES ASSUME NEW i \in DOMAIN approvals', NEW j \in DOMAIN approvals', Pending(i)', Pending(j)',
                      approvals'[i].c = approvals'[j].c, approvals'[i].r = approvals'[j].r, i # j
               PROVE  FALSE
    OBVIOUS
  <2>1. new.c = l.c /\ new.r = l.r
    OBVIOUS
  <2>2. CASE i \in 1..n /\ j \in 1..n
    BY <1>2, <1>3, <1>5, <2>2 DEF ApprovalsInv
  <2>3. CASE i = n + 1
    <3>1. j \in 1..n
      BY <1>2, <1>3, <2>3
    <3> QED
      BY <1>3, <1>6, <2>1, <2>3, <3>1
  <2>4. CASE j = n + 1
    <3>1. i \in 1..n
      BY <1>2, <1>3, <2>4
    <3> QED
      BY <1>3, <1>6, <2>1, <2>4, <3>1
  <2> QED
    BY <1>2, <1>3, <2>2, <2>3, <2>4
<1>10. \A v \in Workers : Reserved(v)'
  BY <1>4 DEF Reserved, Serial, AttachLabels
<1> QED
  BY <1>8, <1>9, <1>10 DEF ApprovalsInv

\* What a decision does to the list of approvals.
LEMMA DecideApprovals ==
  ASSUME TypedInv, NEW w \in Workers, NEW i \in DOMAIN approvals,
         NEW op \in {"approve", "reject", "cancel"}, Decide(w, i, op)
  PROVE  /\ DOMAIN approvals' = DOMAIN approvals
         /\ approvals'[i].status # "pending"
         /\ \A j \in DOMAIN approvals : /\ approvals[j] \in Approvals
                                        /\ approvals'[j].c = approvals[j].c
                                        /\ approvals'[j].r = approvals[j].r
                                        /\ approvals'[j].action = approvals[j].action
                                        /\ approvals'[j].enabled = approvals[j].enabled
                                        /\ j # i => approvals'[j] = approvals[j]
<1>1. approvals \in Seq(Approvals)
  BY DEF TypedInv, StateTyped
<1>2. \A j \in DOMAIN approvals : approvals[j] \in Approvals
  BY <1>1
<1>3. approvals' = [approvals EXCEPT ![i] = [approvals[i] EXCEPT !.status = Outcome[op]]]
  BY DEF Decide
<1>4. DOMAIN approvals' = DOMAIN approvals /\ approvals'[i] = [approvals[i] EXCEPT !.status = Outcome[op]]
        /\ \A j \in DOMAIN approvals : j # i => approvals'[j] = approvals[j]
  BY <1>1, <1>3
<1>5. /\ approvals'[i].status = Outcome[op] /\ approvals'[i].c = approvals[i].c
      /\ approvals'[i].r = approvals[i].r /\ approvals'[i].action = approvals[i].action
      /\ approvals'[i].enabled = approvals[i].enabled
  BY <1>2, <1>4 DEF Approvals
<1>6. Outcome[op] # "pending"
  BY DEF Outcome
<1> QED
  BY <1>2, <1>4, <1>5, <1>6

LEMMA ApprovalsDecide ==
  ASSUME Serial, TypedInv, ApprovalsInv, NEW w \in Workers, NEW i \in DOMAIN approvals,
         NEW op \in {"approve", "reject", "cancel"}, Decide(w, i, op)
  PROVE  ApprovalsInv'
<1> DEFINE a == approvals[i]
<1>1. /\ DOMAIN approvals' = DOMAIN approvals /\ approvals'[i].status # "pending"
      /\ \A j \in DOMAIN approvals : /\ approvals'[j].c = approvals[j].c
                                     /\ approvals'[j].r = approvals[j].r
                                     /\ j # i => approvals'[j] = approvals[j]
  BY DecideApprovals
<1>2. /\ UNCHANGED <<att, alive>> /\ override \subseteq override'
      /\ a.status = "pending" \/ <<a.c, a.r>> \in override'
  BY DEF Decide, rows
<1>3. \A j \in DOMAIN approvals : Pending(j)' => Pending(j) /\ j # i
  BY <1>1, <1>2 DEF Pending
<1>4. \A j \in DOMAIN approvals' : Pending(j)' => Awaited(j)'
  <2> SUFFICES ASSUME NEW j \in DOMAIN approvals, Pending(j)' PROVE Awaited(j)'
    BY <1>1
  <2>1. Awaited(j) /\ j # i
    BY <1>3 DEF ApprovalsInv
  <2>2. approvals'[j] = approvals[j]
    BY <1>1, <2>1
  <2> QED
    BY <1>2, <2>1, <2>2 DEF Awaited
<1>5. \A j, k \in DOMAIN approvals' :
         Pending(j)' /\ Pending(k)' /\ approvals'[j].c = approvals'[k].c
            /\ approvals'[j].r = approvals'[k].r => j = k
  BY <1>1, <1>3 DEF ApprovalsInv
<1>6. pc'[w] \in AttachLabels => loc'[w].c = a.c /\ loc'[w].r = a.r
  BY DEF Decide, Begin, Step, Goto, NoLoc, TypedInv, StateTyped, AttachLabels
<1>7. \A j \in DOMAIN approvals : Pending(j)' => <<approvals[j].c, approvals[j].r>> # <<a.c, a.r>>
  <2> SUFFICES ASSUME NEW j \in DOMAIN approvals, Pending(j)', approvals[j].c = a.c, approvals[j].r = a.r
               PROVE  FALSE
    OBVIOUS
  <2>1. Pending(j) /\ j # i
    BY <1>3
  <2>2. <<a.c, a.r>> \notin override'
    BY <1>1 DEF Pending
  <2>3. Pending(i)
    BY <1>2, <2>2 DEF Pending
  <2> QED
    BY <2>1, <2>3 DEF ApprovalsInv
<1>8. \A v \in Workers : Reserved(v)'
  <2> SUFFICES ASSUME NEW v \in Workers PROVE Reserved(v)'
    OBVIOUS
  <2>1. v = w
    BY DEF Serial
  <2> HIDE DEF a
  <2> QED
    BY <1>1, <1>6, <1>7, <2>1 DEF Reserved
<1> QED
  BY <1>4, <1>5, <1>8 DEF ApprovalsInv

LEMMA ApprovalsDeploy ==
  ASSUME Serial, TypedInv, ApprovalsInv, NEW w \in Workers,
         MarkActive(w) \/ \E c \in Clients : DeleteClient(w, c)
  PROVE  ApprovalsInv'
<1>1. UNCHANGED <<approvals, override>> /\ pc'[w] \notin AttachLabels
  BY DEF MarkActive, DeleteClient, Continue, Goto, Begin, Step, AttachLabels, TypedInv, StateTyped
<1>2. \A i \in DOMAIN approvals : Pending(i) => Awaited(i)'
  <2> SUFFICES ASSUME NEW i \in DOMAIN approvals, Pending(i) PROVE Awaited(i)'
    OBVIOUS
  <2> DEFINE a == approvals[i]
  <2>1. approvals \in Seq(Approvals) /\ approvals' = approvals
    BY <1>1 DEF TypedInv, StateTyped
  <2>2. a \in Approvals
    BY <2>1
  <2>3. a.c \in Clients /\ a.r \in Routes
    BY <2>2 DEF Approvals
  <2>4. Awaited(i) /\ att[a.c][a.r].status # "approved"
    <3>1. Awaited(i)
      BY DEF ApprovalsInv
    <3> QED
      BY <3>1, NoAttTyped DEF Awaited
  <2>5. CASE MarkActive(w)
    <3>1. \A c \in Clients, r \in Routes :
             att'[c][r] = IF r = loc[w].r /\ att[c][r].status = "approved"
                          THEN [att[c][r] EXCEPT !.status = "active"] ELSE att[c][r]
      BY <2>5, MarkActiveTyped
    <3>2. att'[a.c][a.r] = att[a.c][a.r]
      BY <2>3, <2>4, <3>1
    <3>3. alive' = alive
      BY <2>5 DEF MarkActive, rows
    <3> QED
      BY <2>1, <2>4, <3>2, <3>3 DEF Awaited
  <2>6. ASSUME NEW c \in Clients, DeleteClient(w, c) PROVE Awaited(i)'
    <3>1. /\ att' = [att EXCEPT ![c] = [r \in Routes |-> NoAtt]] /\ alive' = alive \ {c}
          /\ att \in [Clients -> [Routes -> AttRows]]
      BY <2>6 DEF DeleteClient, TypedInv, StateTyped, TypeOK
    <3>2. IF a.c = c THEN att'[a.c][a.r] = NoAtt /\ a.c \notin alive'
          ELSE att'[a.c][a.r] = att[a.c][a.r] /\ (a.c \in alive' <=> a.c \in alive)
      BY <2>3, <3>1
    <3> QED
      BY <2>1, <2>4, <3>2 DEF Awaited
  <2> QED
    BY <2>5, <2>6
<1>3. Reserved(w)'
  BY <1>1 DEF Reserved
<1> QED
  BY <1>1, <1>2, <1>3, ApprovalsKept

LEMMA ApprovalsStep ==
  ASSUME Serial, TypedInv, ApprovalsInv, NEW w \in Workers, WorkerStep(w)
  PROVE  ApprovalsInv'
<1> DEFINE l == loc[w]
<1> USE DEF rows, attachments, Goto, Continue, Return, NoLoc, Step, Begin, Fails
<1>0. pc \in [Workers -> Labels] /\ loc \in [Workers -> Locals] /\ StateTyped /\ l.row \in AttRows
  BY DEF TypedInv, StateTyped, Locals
<1>1. CASE CredentialStep(w)
  <2>1. UNCHANGED <<approvals, override, att, alive>>
    BY <1>1 DEF CredentialStep, SetCredential, ClearCredential, AddToList, RemoveFromList
  <2>2. pc'[w] \notin AttachLabels
    <3>1. \E x : Goto(w, "saveClient", x) \/ Goto(w, "list", x)
      BY <1>1, Zenon DEF CredentialStep, SetCredential, ClearCredential, AddToList, RemoveFromList
    <3> QED
      BY <1>0, <3>1 DEF AttachLabels
  <2> QED
    BY <2>1, <2>2, ApprovalsUntouched
<1>2. CASE CascadeStep(w)
  <2>1. UNCHANGED <<approvals, override, att, alive>>
    <3>1. CASE SaveClient(w)
      BY <3>1 DEF SaveClient, TypedInv, CredentialHeld
    <3> QED
      BY <1>2, <3>1 DEF CascadeStep, ListAttachments, CascadeDone, CascadeRoute, CascadeFails
  <2>2. pc'[w] \notin AttachLabels
    BY <1>0, <1>2 DEF CascadeStep, SaveClient, ListAttachments, CascadeDone, CascadeRoute, CascadeFails, AttachLabels
  <2> QED
    BY <2>1, <2>2, ApprovalsUntouched
<1>3. CASE AttachStep(w)
  <2>1. CASE StoreAttachment(w)
    BY <1>0, <2>1, ApprovalsReserved DEF StoreAttachment, AttachLabels
  <2>2. CASE StoreDetach(w)
    <3>1. [l.row EXCEPT !.status = "pending_detach"] \in AttRows
      BY <1>0, RowTyped DEF AttachmentStatus
    <3> QED
      BY <1>0, <2>2, <3>1, ApprovalsReserved DEF StoreDetach, AttachLabels
  <2>3. CASE Settle(w)
    <3>1. PICK s \in {"removed", "approved"} : att' = [att EXCEPT ![l.c][l.r] = [l.row EXCEPT !.status = s]]
      BY <2>3 DEF Settle
    <3>2. [l.row EXCEPT !.status = s] \in AttRows
      BY <1>0, RowTyped DEF AttachmentStatus
    <3> QED
      BY <1>0, <2>3, <3>1, <3>2, ApprovalsReserved DEF Settle, AttachLabels
  <2>4. CASE QueueRoute(w)
    <3>1. UNCHANGED <<approvals, override, att, alive>> /\ pc[w] \in AttachLabels
      BY <2>4 DEF QueueRoute, AttachLabels
    <3>2. pc'[w] = "idle" \/ loc'[w] = l
      BY <1>0, <2>4 DEF QueueRoute
    <3> QED
      BY <3>1, <3>2, ApprovalsUntouched DEF AttachLabels
  <2> QED
    BY <1>3, <2>1, <2>2, <2>3, <2>4, ApprovalsBegin, ApprovalsSubmit DEF AttachStep
<1>4. CASE DecideStep(w)
  <2>1. CASE Callback(w)
    <3>1. PICK s \in {"rejected", "removed", "approved"} :
             att' = [att EXCEPT ![l.c][l.r] = [l.row EXCEPT !.status = s]]
      BY <2>1 DEF Callback
    <3>2. [l.row EXCEPT !.status = s] \in AttRows
      BY <1>0, RowTyped DEF AttachmentStatus
    <3>3. pc'[w] \notin AttachLabels
      BY <1>0, <2>1 DEF Callback, AttachLabels
    <3>4. UNCHANGED <<approvals, override, alive>> /\ pc[w] \in AttachLabels
      BY <2>1 DEF Callback, AttachLabels
    <3> QED
      BY <3>1, <3>2, <3>3, <3>4, ApprovalsReserved
  <2>2. CASE Requeue(w)
    BY <1>0, <2>2, ApprovalsUntouched DEF Requeue, AttachLabels
  <2> QED
    BY <1>4, <2>1, <2>2, ApprovalsDecide DEF DecideStep
<1>5. CASE DeployStep(w)
  <2>1. CASE MarkActive(w)
    BY <2>1, ApprovalsDeploy
  <2>2. CASE DeployStep(w) /\ ~MarkActive(w)
    <3>1. UNCHANGED <<approvals, override, att, alive>>
      BY <2>2 DEF DeployStep, BeginDeploy, ApplyOwn, ApplyBase, Cleanup, CleanupFails, MarkFails, FinishDeploy
    <3>2. pc'[w] \notin AttachLabels
      BY <1>0, <2>2 DEF DeployStep, BeginDeploy, ApplyOwn, ApplyBase, Cleanup, CleanupFails, MarkFails, FinishDeploy, AttachLabels
    <3> QED
      BY <3>1, <3>2, ApprovalsUntouched
  <2> QED
    BY <1>5, <2>1, <2>2
<1>6. CASE OtherStep(w)
  <2>1. CASE \E c \in Clients : DeleteClient(w, c)
    BY <2>1, ApprovalsDeploy
  <2>2. CASE OtherStep(w) /\ ~\E c \in Clients : DeleteClient(w, c)
    <3>1. UNCHANGED <<approvals, override, att, alive>>
      BY <2>2 DEF OtherStep, SubmitUpdate, ReviewUpdate, WriteFails, DeployFails, Toggle
    <3>2. pc'[w] \notin AttachLabels
      BY <1>0, <2>2 DEF OtherStep, SubmitUpdate, ReviewUpdate, WriteFails, DeployFails, Toggle, AttachLabels
    <3> QED
      BY <3>1, <3>2, ApprovalsUntouched
  <2> QED
    BY <1>6, <2>1, <2>2
<1> QED
  BY <1>1, <1>2, <1>3, <1>4, <1>5, <1>6 DEF WorkerStep

---------------------------------------------------------------------------
\* What a step can do to attachments and to what is served.

AttWrite(w) == StoreAttachment(w) \/ StoreDetach(w) \/ Settle(w) \/ Callback(w)
Opens(w) == \E i \in DOMAIN approvals, op \in {"approve", "reject", "cancel"} : Decide(w, i, op)
Deletes(w) == \E c \in Clients : DeleteClient(w, c)
AppliesOwn(w) == \E c \in Clients : ApplyOwn(w, c)

\* A step leaves the attachments alone or is one of these.
LEMMA AttSteps ==
  ASSUME NEW w \in Workers, WorkerStep(w)
  PROVE  att' = att \/ AttWrite(w) \/ MarkActive(w) \/ Deletes(w)
<1>1. CASE CredentialStep(w)
  BY <1>1 DEF CredentialStep, SetCredential, ClearCredential, AddToList, RemoveFromList, attachments
<1>2. CASE CascadeStep(w)
  BY <1>2 DEF CascadeStep, SaveClient, ListAttachments, CascadeDone, CascadeRoute, CascadeFails, attachments
<1>3. CASE AttachStep(w)
  BY <1>3 DEF AttachStep, Attach, RequestDetach, QueueRoute, Submit, AttWrite, attachments
<1>4. CASE DecideStep(w)
  BY <1>4 DEF DecideStep, Decide, Requeue, AttWrite, attachments
<1>5. CASE DeployStep(w)
  BY <1>5 DEF DeployStep, BeginDeploy, ApplyOwn, ApplyBase, Cleanup, CleanupFails, MarkFails, FinishDeploy, attachments
<1>6. CASE OtherStep(w)
  BY <1>6 DEF OtherStep, SubmitUpdate, ReviewUpdate, WriteFails, DeployFails, Toggle, Deletes, attachments
<1> QED
  BY <1>1, <1>2, <1>3, <1>4, <1>5, <1>6 DEF WorkerStep

\* A step leaves what is served alone or is one of these.
LEMMA ServedSteps ==
  ASSUME NEW w \in Workers, WorkerStep(w)
  PROVE  served' = served \/ ApplyBase(w) \/ AppliesOwn(w) \/ Cleanup(w)
<1>1. CASE CredentialStep(w)
  BY <1>1 DEF CredentialStep, SetCredential, ClearCredential, AddToList, RemoveFromList
<1>2. CASE CascadeStep(w)
  BY <1>2 DEF CascadeStep, SaveClient, ListAttachments, CascadeDone, CascadeRoute, CascadeFails
<1>3. CASE AttachStep(w)
  BY <1>3 DEF AttachStep, Attach, RequestDetach, QueueRoute, Submit, StoreAttachment, StoreDetach, Settle
<1>4. CASE DecideStep(w)
  BY <1>4 DEF DecideStep, Decide, Requeue, Callback
<1>5. CASE DeployStep(w)
  BY <1>5 DEF DeployStep, BeginDeploy, AppliesOwn, CleanupFails, MarkFails, MarkActive, FinishDeploy
<1>6. CASE OtherStep(w)
  BY <1>6 DEF OtherStep, SubmitUpdate, ReviewUpdate, WriteFails, DeployFails, Toggle, DeleteClient
<1> QED
  BY <1>1, <1>2, <1>3, <1>4, <1>5, <1>6 DEF WorkerStep

\* Which step leads to the labels that the invariants speak of.
LEMMA LabelSteps ==
  ASSUME TypedInv, NEW w \in Workers, WorkerStep(w)
  PROVE  /\ pc'[w] = "callback" => Opens(w)
         /\ pc'[w] = "applyOwn" => ApplyBase(w) \/ AppliesOwn(w)
         /\ pc'[w] = "markActive" => Cleanup(w) \/ CleanupFails(w)
         /\ pc'[w] = "finish" => MarkActive(w) \/ MarkFails(w)
<1> USE DEF Goto, Continue, Return, Step, Begin, Fails
<1>0. pc \in [Workers -> Labels]
  BY DEF TypedInv, StateTyped
<1>1. CASE CredentialStep(w)
  <2>1. \E x : Goto(w, "saveClient", x) \/ Goto(w, "list", x)
    BY <1>1, Zenon DEF CredentialStep, SetCredential, ClearCredential, AddToList, RemoveFromList
  <2> QED
    BY <1>0, <2>1
<1>2. CASE CascadeStep(w)
  BY <1>0, <1>2 DEF CascadeStep, SaveClient, ListAttachments, CascadeDone, CascadeRoute, CascadeFails
<1>3. CASE AttachStep(w)
  <2>1. CASE \E c \in Clients, r \in Routes :
                \/ \E e \in Configs, site \in AttachSites : Attach(w, c, r, e, site)
                \/ RequestDetach(w, c, r)
    <3>1. \E x : Goto(w, "storeAttachment", x) \/ Goto(w, "storeDetach", x) \/ Goto(w, "queueRoute", x)
      BY <2>1 DEF Attach, RequestDetach
    <3> QED
      BY <1>0, <3>1
  <2> QED
    BY <1>0, <1>3, <2>1 DEF AttachStep, QueueRoute, Submit, StoreAttachment, StoreDetach, Settle
<1>4. CASE DecideStep(w)
  <2>1. CASE Opens(w)
    <3>1. pc'[w] \in {"callback", "idle"}
      BY <1>0, <2>1 DEF Opens, Decide
    <3> QED
      BY <2>1, <3>1
  <2> QED
    BY <1>0, <1>4, <2>1 DEF DecideStep, Requeue, Callback, Opens
<1>5. CASE DeployStep(w)
  BY <1>0, <1>5 DEF DeployStep, BeginDeploy, AppliesOwn, ApplyOwn, ApplyBase, Cleanup, CleanupFails, MarkFails, MarkActive,
     FinishDeploy
<1>6. CASE OtherStep(w)
  BY <1>0, <1>6 DEF OtherStep, SubmitUpdate, ReviewUpdate, WriteFails, DeployFails, Toggle, DeleteClient
<1> QED
  BY <1>1, <1>2, <1>3, <1>4, <1>5, <1>6 DEF WorkerStep

\* Grants and overrides are never taken back.
LEMMA HistoryGrows ==
  ASSUME NEW w \in Workers, WorkerStep(w)
  PROVE  granted \subseteq granted' /\ override \subseteq override'
<1>1. CASE CredentialStep(w)
  BY <1>1 DEF CredentialStep, SetCredential, ClearCredential, AddToList, RemoveFromList, attachments
<1>2. CASE CascadeStep(w)
  BY <1>2 DEF CascadeStep, SaveClient, ListAttachments, CascadeDone, CascadeRoute, CascadeFails, attachments
<1>3. CASE AttachStep(w)
  BY <1>3 DEF AttachStep, Attach, RequestDetach, QueueRoute, Submit, StoreAttachment, StoreDetach, Settle, attachments
<1>4. CASE DecideStep(w)
  BY <1>4 DEF DecideStep, Decide, Requeue, Callback, attachments
<1>5. CASE DeployStep(w)
  BY <1>5 DEF DeployStep, BeginDeploy, ApplyOwn, ApplyBase, Cleanup, CleanupFails, MarkFails, MarkActive, FinishDeploy, attachments
<1>6. CASE OtherStep(w)
  BY <1>6 DEF OtherStep, SubmitUpdate, ReviewUpdate, WriteFails, DeployFails, Toggle, DeleteClient, attachments
<1> QED
  BY <1>1, <1>2, <1>3, <1>4, <1>5, <1>6 DEF WorkerStep

\* The row a request stores: its own, with a status that no deploy gave it.
LEMMA AttWrites ==
  ASSUME TypedInv, NEW w \in Workers, AttWrite(w)
  PROVE  /\ loc[w].c \in Clients /\ loc[w].r \in Routes /\ pc[w] \in AttachLabels
         /\ UNCHANGED <<alive, client, lists, served>>
         /\ \E s \in {"pending_attach", "pending_detach", "removed", "approved", "rejected"} :
               /\ att'[loc[w].c][loc[w].r] = [loc[w].row EXCEPT !.status = s]
               /\ att'[loc[w].c][loc[w].r].status = s
               /\ att'[loc[w].c][loc[w].r].enabled = loc[w].row.enabled
               /\ s \in {"removed", "approved"} => Settle(w) \/ (Callback(w) /\ loc[w].op = "approve")
               /\ s = "approved" => \/ Settle(w) /\ <<loc[w].c, loc[w].r, loc[w].row.enabled>> \in granted'
                                    \/ Callback(w) /\ approvals[loc[w].id].action # "detach"
         /\ \A b \in Clients, q \in Routes : <<b, q>> # <<loc[w].c, loc[w].r>> => att'[b][q] = att[b][q]
<1> DEFINE l == loc[w]
<1>1. l.c \in Clients /\ l.r \in Routes /\ pc[w] \in AttachLabels /\ l.row \in AttRows /\ TypeOK
  BY DEF TypedInv, StateTyped, Locals, AttachmentHeld, AttWrite, StoreAttachment, StoreDetach, Settle, Callback,
     Step, AttachLabels
<1>2. UNCHANGED <<alive, client, lists, served>>
  BY DEF AttWrite, StoreAttachment, StoreDetach, Settle, Callback, rows
<1>3. PICK s \in {"pending_attach", "pending_detach", "removed", "approved", "rejected"} :
         /\ att' = [att EXCEPT ![l.c][l.r] = [l.row EXCEPT !.status = s]]
         /\ s \in {"removed", "approved"} => Settle(w) \/ (Callback(w) /\ l.op = "approve")
         /\ s = "approved" => \/ Settle(w) /\ <<l.c, l.r, l.row.enabled>> \in granted'
                              \/ Callback(w) /\ approvals[l.id].action # "detach"
  <2>1. CASE StoreAttachment(w)
    <3>1. l.row.status = "pending_attach"
      BY <2>1 DEF StoreAttachment, Step, TypedInv, AttachmentHeld
    <3>2. l.row = [l.row EXCEPT !.status = "pending_attach"]
      BY <1>1, <3>1 DEF AttRows
    <3> QED
      BY <2>1, <3>2 DEF StoreAttachment
  <2>2. CASE StoreDetach(w)
    BY <2>2 DEF StoreDetach
  <2>3. CASE Settle(w)
    BY <2>3 DEF Settle
  <2>4. CASE Callback(w)
    BY <2>4 DEF Callback
  <2> QED
    BY <2>1, <2>2, <2>3, <2>4 DEF AttWrite
<1> DEFINE row == [l.row EXCEPT !.status = s]
<1>4. row \in AttRows /\ row.status = s /\ row.enabled = l.row.enabled
  <2>1. s \in AttachmentStatus
    BY DEF AttachmentStatus
  <2> QED
    BY <1>1, <2>1, RowTyped
<1>5. att' = [att EXCEPT ![l.c][l.r] = row]
  BY <1>3
<1> HIDE DEF row
<1>6. /\ att'[l.c][l.r] = row
      /\ \A b \in Clients, q \in Routes : <<b, q>> # <<l.c, l.r>> => att'[b][q] = att[b][q]
  BY <1>1, <1>4, <1>5 DEF TypeOK
<1> QED
  BY <1>1, <1>2, <1>3, <1>4, <1>6 DEF row

LEMMA MarkedRows ==
  ASSUME Serial, TypedInv, NEW w \in Workers, MarkActive(w), NEW c \in Clients, NEW r \in Routes
  PROVE  /\ att'[c][r].enabled = att[c][r].enabled
         /\ r # loc[w].r \/ att[c][r].status # "approved" => att'[c][r] = att[c][r]
         /\ r = loc[w].r /\ att[c][r].status = "approved" => att'[c][r].status = "active"
<1>1. \A b \in Clients, q \in Routes :
         att'[b][q] = IF q = loc[w].r /\ att[b][q].status = "approved"
                      THEN [att[b][q] EXCEPT !.status = "active"] ELSE att[b][q]
  BY MarkActiveTyped
<1>2. att[c][r] \in AttRows
  BY DEF TypedInv, StateTyped, TypeOK
<1>3. /\ [att[c][r] EXCEPT !.status = "active"].enabled = att[c][r].enabled
      /\ [att[c][r] EXCEPT !.status = "active"].status = "active"
  BY <1>2 DEF AttRows
<1> QED
  BY <1>1, <1>3

LEMMA DeletedRows ==
  ASSUME TypedInv, NEW w \in Workers, Deletes(w), NEW c \in Clients, NEW r \in Routes
  PROVE  att'[c][r] = att[c][r] \/ att'[c][r] = NoAtt
  BY DEF Deletes, DeleteClient, TypedInv, StateTyped, TypeOK

\* What the calls of a deploy change of what is served, and of nothing else.
LEMMA DeployWrites ==
  ASSUME TypedInv, NEW w \in Workers, ApplyBase(w) \/ AppliesOwn(w) \/ Cleanup(w)
  PROVE  /\ loc[w].r \in Routes /\ Queued(loc[w].r)
         /\ UNCHANGED <<alive, client, lists, att, route, missed>>
         /\ ApplyBase(w) => pc[w] = "applyBase"
         /\ AppliesOwn(w) \/ Cleanup(w) => pc[w] = "applyOwn"
  BY DEF ApplyBase, AppliesOwn, ApplyOwn, Cleanup, Step, TypedInv, DeployHeld, DeployLabels, rows, attachments

LEMMA AppliedBase ==
  ASSUME TypedInv, NEW w \in Workers, ApplyBase(w), NEW r \in Routes
  PROVE  /\ served'[r].own = served[r].own
         /\ r # loc[w].r => served'[r] = served[r]
         /\ r = loc[w].r => served'[r].base = [c \in Clients |-> BaseAccess(c, r)]
         /\ r = loc[w].r => served'[r].open = BaseOpen(r)
<1> DEFINE q == loc[w].r
           base == [c \in Clients |-> BaseAccess(c, q)]
<1>1. q \in Routes
  BY DeployWrites
<1>2. served' = [served EXCEPT ![q].base = base, ![q].open = BaseOpen(q)]
  BY DEF ApplyBase
<1>3. served \in [Routes -> [base : [Clients -> Access], open : BOOLEAN, own : [Clients -> Access]]]
  BY DEF TypedInv, StateTyped, TypeOK
<1> HIDE DEF base, q
<1>4. /\ served'[r].own = served[r].own
      /\ r # q => served'[r] = served[r]
      /\ r = q => served'[r].base = base /\ served'[r].open = BaseOpen(q)
  BY <1>1, <1>2, <1>3
<1> QED
  BY <1>4 DEF base, q

LEMMA AppliedOwn ==
  ASSUME TypedInv, NEW w \in Workers, NEW c \in Clients, ApplyOwn(w, c), NEW r \in Routes
  PROVE  /\ served'[r].base = served[r].base /\ served'[r].open = served[r].open
         /\ r # loc[w].r => served'[r] = served[r]
         /\ r = loc[w].r => /\ served'[r].own = [served[r].own EXCEPT ![c] = OwnAccess(c, r)]
                            /\ served'[r].own[c] = OwnAccess(c, r) /\ Included(c, r) /\ c \in loc[w].todo
<1> DEFINE q == loc[w].r
           new == OwnAccess(c, q)
<1>1. q \in Routes /\ Included(c, q) /\ loc[w].cred[c] = new /\ c \in loc[w].todo
  BY DEF ApplyOwn, Step, TypedInv, DeployHeld, DeployLabels
<1>2. served' = [served EXCEPT ![q].own[c] = new]
  BY <1>1 DEF ApplyOwn
<1>3. served \in [Routes -> [base : [Clients -> Access], open : BOOLEAN, own : [Clients -> Access]]]
  BY DEF TypedInv, StateTyped, TypeOK
<1> HIDE DEF new, q
<1>4. /\ served'[r].base = served[r].base /\ served'[r].open = served[r].open
      /\ r # q => served'[r] = served[r]
      /\ r = q => served'[r].own = [served[r].own EXCEPT ![c] = new] /\ served'[r].own[c] = new
  BY <1>1, <1>2, <1>3
<1> QED
  BY <1>1, <1>4 DEF new, q

LEMMA CleanedUp ==
  ASSUME TypedInv, NEW w \in Workers, Cleanup(w), NEW r \in Routes
  PROVE  /\ served'[r].base = served[r].base /\ served'[r].open = served[r].open
         /\ r # loc[w].r => served'[r] = served[r]
         /\ r = loc[w].r => served'[r].own = [c \in Clients |-> IF Included(c, r) /\ OwnRoute(c, r)
                                                               THEN served[r].own[c] ELSE NoAccess]
<1> DEFINE q == loc[w].r
           own == [c \in Clients |-> IF Included(c, q) /\ OwnRoute(c, q) THEN served[q].own[c] ELSE NoAccess]
<1>1. q \in Routes
  BY DeployWrites
<1>2. served' = [served EXCEPT ![q].own = own]
  BY DEF Cleanup, OwnRoute
<1>3. served \in [Routes -> [base : [Clients -> Access], open : BOOLEAN, own : [Clients -> Access]]]
  BY DEF TypedInv, StateTyped, TypeOK
<1> HIDE DEF own, q
<1>4. /\ served'[r].base = served[r].base /\ served'[r].open = served[r].open
      /\ r # q => served'[r] = served[r]
      /\ r = q => served'[r].own = own
  BY <1>1, <1>2, <1>3
<1> QED
  BY <1>4 DEF own, q

---------------------------------------------------------------------------
\* Grants.

LEMMA GrantedStep ==
  ASSUME Serial, TypedInv, ApprovalsInv, GrantedInv, NEW w \in Workers, WorkerStep(w)
  PROVE  GrantedInv'
<1> DEFINE l == loc[w]
<1>1. granted \subseteq granted' /\ override \subseteq override'
  BY HistoryGrows
<1>2. \A c \in Clients, r \in Routes :
         Included(c, r)' /\ <<c, r>> \notin override' => <<c, r, att'[c][r].enabled>> \in granted'
  <2> SUFFICES ASSUME NEW c \in Clients, NEW r \in Routes,
                      att'[c][r].status \in {"active", "approved"}, <<c, r>> \notin override'
               PROVE  <<c, r, att'[c][r].enabled>> \in granted'
    BY DEF Included
  <2>1. CASE att[c][r].status \in {"active", "approved"} /\ att'[c][r].enabled = att[c][r].enabled
    BY <1>1, <2>1 DEF GrantedInv, Included
  <2>2. CASE att' = att
    BY <2>1, <2>2
  <2>3. CASE MarkActive(w)
    <3>1. att[c][r].status \in {"active", "approved"} /\ att'[c][r].enabled = att[c][r].enabled
      BY <2>3, MarkedRows
    <3> QED
      BY <2>1, <3>1
  <2>4. CASE Deletes(w)
    BY <2>1, <2>4, DeletedRows, NoAttTyped
  <2>5. CASE AttWrite(w)
    <3>1. PICK s \in {"pending_attach", "pending_detach", "removed", "approved", "rejected"} :
             /\ att'[l.c][l.r].status = s /\ att'[l.c][l.r].enabled = l.row.enabled
             /\ s \in {"removed", "approved"} => Settle(w) \/ (Callback(w) /\ l.op = "approve")
             /\ s = "approved" => \/ Settle(w) /\ <<l.c, l.r, l.row.enabled>> \in granted'
                                  \/ Callback(w) /\ approvals[l.id].action # "detach"
      BY <2>5, AttWrites
    <3>2. <<c, r>> # <<l.c, l.r>> => att'[c][r] = att[c][r]
      BY <2>5, AttWrites
    <3>3. CASE <<c, r>> # <<l.c, l.r>>
      BY <2>1, <3>2, <3>3
    <3>4. CASE c = l.c /\ r = l.r
      <4>1. s = "approved"
        BY <3>1, <3>4
      <4>2. CASE Callback(w)
        <5>1. l.op = "approve" /\ approvals[l.id].action # "detach"
          BY <3>1, <4>1, <4>2 DEF Callback, Settle, Step
        <5>2. l.id \in DOMAIN approvals /\ pc[w] = "callback"
          BY <4>2 DEF Callback, Step, TypedInv, AttachmentHeld
        <5>3. approvals[l.id].action = "attach"
          <6>1. approvals \in Seq(Approvals)
            BY DEF TypedInv, StateTyped
          <6>2. approvals[l.id] \in Approvals
            BY <5>2, <6>1
          <6> QED
            BY <5>1, <6>2 DEF Approvals
        <5>4. <<l.c, l.r, l.row.enabled>> \in granted
          BY <1>1, <3>4, <5>1, <5>2, <5>3 DEF GrantedInv, CallbackGranted
        <5> QED
          BY <1>1, <3>1, <3>4, <5>4
      <4>3. CASE Settle(w)
        <5>1. <<l.c, l.r, l.row.enabled>> \in granted'
          BY <3>1, <4>1, <4>3 DEF Callback, Settle, Step
        <5> QED
          BY <3>1, <3>4, <5>1
      <4> QED
        BY <3>1, <4>1, <4>2, <4>3
    <3> QED
      BY <3>3, <3>4
  <2> QED
    BY <2>2, <2>3, <2>4, <2>5, AttSteps
<1>3. CallbackGranted(w)'
  <2>1. CASE pc'[w] # "callback"
    BY <2>1 DEF CallbackGranted
  <2>2. CASE pc'[w] = "callback"
    <3>1. PICK i \in DOMAIN approvals, op \in {"approve", "reject", "cancel"} : Decide(w, i, op)
      BY <2>2, LabelSteps DEF Opens
    <3> DEFINE a == approvals[i]
    <3>2. pc[w] = "idle" /\ pc \in [Workers -> Labels] /\ loc \in [Workers -> Locals]
      BY <3>1 DEF Decide, Begin, Step, TypedInv, StateTyped
    <3>3. att[a.c][a.r] # NoAtt
      BY <2>2, <3>1, <3>2 DEF Decide
    <3>4. /\ loc'[w].op = op /\ loc'[w].c = a.c /\ loc'[w].r = a.r /\ loc'[w].id = i
          /\ loc'[w].row = att[a.c][a.r]
      BY <3>1, <3>2, <3>3 DEF Decide, Goto, NoLoc
    <3>5. approvals'[i].action = a.action
      BY <3>1, DecideApprovals
    <3>6. SUFFICES ASSUME op = "approve", a.action = "attach", <<a.c, a.r>> \notin override'
                   PROVE  <<a.c, a.r, att[a.c][a.r].enabled>> \in granted'
      BY <3>4, <3>5 DEF CallbackGranted
    <3>7. Pending(i)
      BY <1>1, <3>1, <3>6 DEF Decide, Pending
    <3>8. Awaited(i)
      BY <3>7 DEF ApprovalsInv
    <3>9. att[a.c][a.r].enabled = a.enabled
      BY <3>3, <3>6, <3>8 DEF Awaited
    <3> QED
      BY <3>1, <3>6, <3>9 DEF Decide
  <2> QED
    BY <2>1, <2>2
<1>4. \A v \in Workers : CallbackGranted(v)'
  <2> SUFFICES ASSUME NEW v \in Workers PROVE CallbackGranted(v)'
    OBVIOUS
  <2>1. v = w
    BY DEF Serial
  <2> QED
    BY <1>3, <2>1
<1> QED
  BY <1>2, <1>4 DEF GrantedInv

\* What a route of a client's own can be: what the attachment enables.
LEMMA ServedGrantedStep ==
  ASSUME Serial, TypedInv, GrantedInv, ServedClientWasGranted, NEW w \in Workers, WorkerStep(w)
  PROVE  ServedClientWasGranted'
<1>1. granted \subseteq granted' /\ override \subseteq override'
  BY HistoryGrows
<1> SUFFICES ASSUME NEW r \in Routes, NEW c \in Clients, served'[r].own[c] # NoAccess,
                    <<c, r>> \notin override'
             PROVE  \E g \in granted' :
                       /\ g[1] = c /\ g[2] = r
                       /\ \A k \in Kinds : served'[r].own[c][k] # 0 => k \in g[3]
  BY DEF ServedClientWasGranted
<1>2. CASE served'[r].own[c] = served[r].own[c]
  BY <1>1, <1>2 DEF ServedClientWasGranted
<1>3. CASE served' = served \/ ApplyBase(w)
  BY <1>2, <1>3, AppliedBase
<1>4. CASE Cleanup(w)
  <2>1. served'[r].own[c] \in {served[r].own[c], NoAccess}
    BY <1>4, CleanedUp
  <2> QED
    BY <1>2, <2>1
<1>5. ASSUME NEW b \in Clients, ApplyOwn(w, b)
      PROVE  \E g \in granted' : /\ g[1] = c /\ g[2] = r
                                 /\ \A k \in Kinds : served'[r].own[c][k] # 0 => k \in g[3]
  <2> DEFINE l == loc[w]
  <2>2. CASE c = b /\ r = l.r
    <3>1. served'[r].own[c] = OwnAccess(c, r) /\ Included(c, r)
      BY <1>5, <2>2, AppliedOwn
    <3>2. <<c, r, att[c][r].enabled>> \in granted'
      BY <1>1, <3>1 DEF GrantedInv
    <3>3. \A k \in Kinds : served'[r].own[c][k] # 0 => k \in att[c][r].enabled
      BY <3>1 DEF OwnAccess, Kinds, PerClientKinds, ListKinds
    <3> QED
      BY <3>2, <3>3
  <2>3. CASE ~(c = b /\ r = l.r)
    <3>1. served'[r].own[c] = served[r].own[c]
      <4>1. served[r].own \in [Clients -> Access]
        BY DEF TypedInv, StateTyped, TypeOK
      <4>2. CASE r = l.r
        <5>1. served'[r].own = [served[r].own EXCEPT ![b] = OwnAccess(b, r)]
          BY <1>5, <4>2, AppliedOwn
        <5> QED
          BY <2>3, <4>1, <4>2, <5>1
      <4>3. CASE r # l.r
        BY <1>5, <4>3, AppliedOwn
      <4> QED
        BY <4>2, <4>3
    <3> QED
      BY <1>2, <3>1
  <2> QED
    BY <2>2, <2>3
<1> QED
  BY <1>3, <1>4, <1>5, ServedSteps DEF AppliesOwn

---------------------------------------------------------------------------
\* The base route.

LEMMA GuardedStep ==
  ASSUME Serial, TypedInv, GuardedInv, NEW w \in Workers, WorkerStep(w)
  PROVE  GuardedInv'
<1> DEFINE l == loc[w]
<1>1. \A r \in Routes : ~ApplyBase(w) => served'[r].open = served[r].open
  <2> SUFFICES ASSUME NEW r \in Routes, ~ApplyBase(w) PROVE served'[r].open = served[r].open
    OBVIOUS
  <2>1. CASE Cleanup(w)
    BY <2>1, CleanedUp
  <2>2. CASE AppliesOwn(w)
    BY <2>2, AppliedOwn DEF AppliesOwn
  <2> QED
    BY <2>1, <2>2, ServedSteps
<1>2. ASSUME ApplyBase(w)
      PROVE  /\ att' = att /\ l.r \in Routes /\ loc'[w].r = l.r
             /\ \A r \in Routes : r # l.r => served'[r].open = served[r].open
             /\ \A c \in Clients : Included(c, l.r) /\ OwnRoute(c, l.r) => ~served'[l.r].open
  <2>1. l.r \in Routes /\ l \in Locals /\ att' = att
    BY <1>2 DEF ApplyBase, Step, TypedInv, DeployHeld, DeployLabels, StateTyped, attachments
  <2>2. served'[l.r].open = BaseOpen(l.r) /\ \A r \in Routes : r # l.r => served'[r].open = served[r].open
    BY <1>2, <2>1, AppliedBase
  <2>3. loc'[w].r = l.r
    BY <1>2, <2>1 DEF ApplyBase, Goto, Locals, TypedInv, StateTyped
  <2> QED
    BY <2>1, <2>2, <2>3 DEF BaseOpen, OwnRoute
<1>3. ASSUME NEW c \in Clients, NEW r \in Routes, att'[c][r].status = "active", OwnRoute(c, r)'
      PROVE  ~served'[r].open
  <2>1. CASE att'[c][r] = att[c][r]
    <3>1. att[c][r].status = "active" /\ OwnRoute(c, r)
      BY <1>3, <2>1 DEF OwnRoute
    <3> QED
      BY <1>1, <1>2, <3>1 DEF GuardedInv, Included
  <2>2. CASE MarkActive(w)
    <3>1. ~ApplyBase(w) /\ pc[w] = "markActive"
      BY <2>2 DEF MarkActive, ApplyBase, Step
    <3>2. OwnRoute(c, r)
      BY <1>3, <2>2, MarkedRows DEF OwnRoute
    <3>3. CASE r = l.r /\ att[c][r].status = "approved"
      BY <1>1, <3>1, <3>2, <3>3 DEF GuardedInv, Included
    <3> QED
      BY <2>1, <2>2, <3>3, MarkedRows
  <2>3. CASE Deletes(w)
    BY <1>3, <2>1, <2>3, DeletedRows, NoAttTyped
  <2>4. CASE AttWrite(w)
    <3>1. att'[l.c][l.r].status # "active"
          /\ (<<c, r>> # <<l.c, l.r>> => att'[c][r] = att[c][r])
      BY <2>4, AttWrites
    <3> QED
      BY <1>3, <2>1, <3>1
  <2> QED
    BY <2>1, <2>2, <2>3, <2>4, AttSteps
<1>4. ASSUME pc'[w] \in {"applyOwn", "markActive"}, NEW c \in Clients,
             Included(c, loc[w].r)', OwnRoute(c, loc[w].r)'
      PROVE  ~served'[loc'[w].r].open
  <2>1. CASE ApplyBase(w)
    BY <1>2, <1>4, <2>1 DEF Included, OwnRoute
  <2>2. CASE AppliesOwn(w) \/ Cleanup(w) \/ CleanupFails(w)
    <3>1. /\ ~ApplyBase(w) /\ pc[w] = "applyOwn" /\ l.r \in Routes /\ l \in Locals /\ att' = att
          /\ loc \in [Workers -> Locals]
      BY <2>2 DEF AppliesOwn, ApplyOwn, Cleanup, CleanupFails, ApplyBase, Step, Fails, TypedInv, DeployHeld,
         DeployLabels, StateTyped, attachments
    <3>2. loc'[w].r = l.r
      BY <2>2, <3>1 DEF AppliesOwn, ApplyOwn, Cleanup, CleanupFails, Goto, Continue, Locals
    <3> QED
      BY <1>1, <1>4, <3>1, <3>2 DEF GuardedInv, Included, OwnRoute
  <2> QED
    BY <1>4, <2>1, <2>2, LabelSteps
<1>5. \A v \in Workers : v = w
  BY DEF Serial
<1>6. \A c \in Clients, r \in Routes : att'[c][r].status = "active" /\ OwnRoute(c, r)' => ~served'[r].open
  BY <1>3
<1>7. pc'[w] \in {"applyOwn", "markActive"} =>
         \A c \in Clients : (Included(c, loc[w].r) /\ OwnRoute(c, loc[w].r))' => ~served'[loc'[w].r].open
  BY <1>4
<1> QED
  BY <1>5, <1>6, <1>7 DEF GuardedInv

---------------------------------------------------------------------------
\* What is served and what the tables say.

LEMMA OneLags ==
  ASSUME Serial, NEW w \in Workers, NEW r
  PROVE  /\ Due(r) <=> Queued(r) \/ r \in missed \/ Lags(w, r)
         /\ Due(r)' <=> Queued(r)' \/ r \in missed' \/ Lags(w, r)'
<1>1. \A v \in Workers : v = w
  BY DEF Serial
<1>2. (\E v \in Workers : Lags(v, r)) <=> Lags(w, r)
  BY <1>1
<1>3. (\E v \in Workers : Lags(v, r)') <=> Lags(w, r)'
  BY <1>1
<1> QED
  BY <1>2, <1>3 DEF Due

LEMMA FreshKept ==
  ASSUME NEW c \in Clients, NEW r \in Routes, Fresh(c, r), served'[r] = served[r],
         att'[c][r] = att[c][r], UNCHANGED <<client, lists>>
  PROVE  Fresh(c, r)'
<1>1. Included(c, r)' <=> Included(c, r)
  BY DEF Included
<1>2. /\ BaseAccess(c, r)' = BaseAccess(c, r) /\ OwnAccess(c, r)' = OwnAccess(c, r)
      /\ HasPerClientAuth(c, r)' <=> HasPerClientAuth(c, r)
  BY <1>1, SameAccess
<1> QED
  BY <1>2 DEF Fresh

\* A deploy keeps what it has applied.
LEMMA AppliedStep ==
  ASSUME Serial, TypedInv, CurrentInv, NEW w \in Workers, WorkerStep(w)
  PROVE  Applied(w)'
<1> DEFINE l == loc[w]
<1>0. /\ Applied(w) /\ StateTyped /\ l \in Locals /\ loc \in [Workers -> Locals] /\ pc \in [Workers -> Labels]
  BY DEF CurrentInv, TypedInv, StateTyped
<1> SUFFICES ASSUME NEW c \in Clients, NEW r \in Routes, r = loc'[w].r PROVE AppliedTo(w, c, r)'
  BY DEF Applied
<1>1. CASE pc'[w] \notin {"applyOwn", "markActive", "finish"}
  BY <1>1 DEF AppliedTo
<1>2. ASSUME UNCHANGED <<client, lists, att>>
      PROVE  /\ BaseAccess(c, r)' = BaseAccess(c, r) /\ OwnAccess(c, r)' = OwnAccess(c, r)
             /\ HasPerClientAuth(c, r)' <=> HasPerClientAuth(c, r)
             /\ Included(c, r)' <=> Included(c, r)
  <2>1. att'[c][r].enabled = att[c][r].enabled /\ (Included(c, r)' <=> Included(c, r))
    BY <1>2 DEF Included
  <2> QED
    BY <1>2, <2>1, SameAccess
<1>3. served[r].own \in [Clients -> Access]
  BY <1>0 DEF StateTyped, TypeOK
<1>4. CASE ApplyBase(w)
  <2>1. UNCHANGED <<client, lists, att>>
    BY <1>4, DeployWrites
  <2>2. /\ pc'[w] = "applyOwn" /\ l.r = r
        /\ loc'[w].todo = {b \in Clients : Included(b, l.r) /\ HasPerClientAuth(b, l.r)}
    BY <1>0, <1>4 DEF ApplyBase, Goto, Locals
  <2>3. served'[r].base = [b \in Clients |-> BaseAccess(b, r)]
    BY <1>4, <2>2, AppliedBase
  <2>4. Included(c, r) /\ HasPerClientAuth(c, r) => c \in loc'[w].todo
    BY <2>2
  <2> QED
    BY <1>2, <2>1, <2>2, <2>3, <2>4 DEF AppliedTo
<1>5. ASSUME NEW b \in Clients, ApplyOwn(w, b) PROVE AppliedTo(w, c, r)'
  <2>1. UNCHANGED <<client, lists, att>> /\ pc[w] = "applyOwn"
    BY <1>5, DeployWrites DEF AppliesOwn
  <2>2. /\ pc'[w] = "applyOwn" /\ l.r = r /\ loc'[w].todo = l.todo \ {b}
    BY <1>0, <1>5 DEF ApplyOwn, Goto, Locals
  <2>3. AppliedTo(w, c, r)
    BY <1>0, <2>2 DEF Applied
  <2>4. served'[r].base = served[r].base /\ served'[r].own = [served[r].own EXCEPT ![b] = OwnAccess(b, r)]
    BY <1>5, <2>2, AppliedOwn
  <2>5. CASE c = b
    BY <1>2, <1>3, <2>1, <2>2, <2>3, <2>4, <2>5 DEF AppliedTo
  <2>6. CASE c # b
    BY <1>2, <1>3, <2>1, <2>2, <2>3, <2>4, <2>6 DEF AppliedTo
  <2> QED
    BY <2>5, <2>6
<1>6. CASE Cleanup(w)
  <2>1. UNCHANGED <<client, lists, att>> /\ pc[w] = "applyOwn" /\ l.todo = {}
    BY <1>6, DeployWrites DEF Cleanup
  <2>2. pc'[w] = "markActive" /\ l.r = r /\ loc'[w] = l
    BY <1>0, <1>6 DEF Cleanup, Continue, Goto
  <2>3. AppliedTo(w, c, r)
    BY <1>0, <2>2 DEF Applied
  <2>4. served'[r].base = served[r].base
        /\ served'[r].own = [b \in Clients |-> IF Included(b, r) /\ OwnRoute(b, r)
                                               THEN served[r].own[b] ELSE NoAccess]
    BY <1>6, <2>2, CleanedUp
  <2>5. HasPerClientAuth(c, r) => OwnRoute(c, r)
    BY DEF HasPerClientAuth, OwnRoute
  <2>6. served'[r].own[c] = IF Included(c, r) /\ OwnRoute(c, r) THEN served[r].own[c] ELSE NoAccess
    BY <2>4
  <2> QED
    BY <1>2, <2>1, <2>2, <2>3, <2>4, <2>5, <2>6 DEF AppliedTo
<1>7. CASE CleanupFails(w)
  <2>1. UNCHANGED <<client, lists, att, served>> /\ pc[w] = "applyOwn" /\ l.todo = {}
    BY <1>7 DEF CleanupFails, Fails, rows, attachments
  <2>2. pc'[w] = "markActive" /\ l.r = r /\ loc'[w].ok = FALSE
    BY <1>0, <1>7 DEF CleanupFails, Goto, Locals
  <2>3. AppliedTo(w, c, r)
    BY <1>0, <2>2 DEF Applied
  <2> QED
    BY <1>2, <2>1, <2>2, <2>3 DEF AppliedTo
<1>8. CASE MarkActive(w)
  <2>1. UNCHANGED <<client, lists, served>> /\ pc[w] = "markActive"
    BY <1>8 DEF MarkActive, Step, rows
  <2>2. pc'[w] = "finish" /\ l.r = r /\ loc'[w] = l
    BY <1>0, <1>8 DEF MarkActive, Continue, Goto
  <2>3. AppliedTo(w, c, r)
    BY <1>0, <2>2 DEF Applied
  <2>4. /\ att'[c][r].enabled = att[c][r].enabled
        /\ att[c][r].status # "approved" => att'[c][r] = att[c][r]
        /\ att[c][r].status = "approved" => att'[c][r].status = "active"
    BY <1>8, <2>2, MarkedRows
  <2>5. att'[c][r].status # "approved" /\ (Included(c, r)' <=> Included(c, r))
    BY <2>4 DEF Included
  <2>6. /\ BaseAccess(c, r)' = BaseAccess(c, r) /\ OwnAccess(c, r)' = OwnAccess(c, r)
        /\ HasPerClientAuth(c, r)' <=> HasPerClientAuth(c, r)
    BY <2>1, <2>4, <2>5, SameAccess
  <2> QED
    BY <2>1, <2>2, <2>3, <2>5, <2>6 DEF AppliedTo
<1>9. CASE MarkFails(w)
  <2>1. UNCHANGED <<client, lists, att, served>> /\ pc[w] = "markActive"
    BY <1>9 DEF MarkFails, Fails, rows, attachments
  <2>2. pc'[w] = "finish" /\ l.r = r /\ loc'[w].ok = FALSE
    BY <1>0, <1>9 DEF MarkFails, Goto, Locals
  <2>3. AppliedTo(w, c, r)
    BY <1>0, <2>2 DEF Applied
  <2> QED
    BY <1>2, <2>1, <2>2, <2>3 DEF AppliedTo
<1> QED
  BY <1>1, <1>4, <1>5, <1>6, <1>7, <1>8, <1>9, LabelSteps DEF AppliesOwn

\* What a route owes is paid by its deploy only.
LEMMA QueuedKept ==
  ASSUME TypedInv, NEW w \in Workers, WorkerStep(w), NEW r \in Routes, Queued(r), ~Queued(r)'
  PROVE  FinishDeploy(w) /\ r = loc[w].r
<1>0. route \in [Routes -> RouteStatus]
  BY DEF TypedInv, StateTyped, TypeOK
<1>1. CASE route' = route
  BY <1>1 DEF Queued
<1>2. ASSUME NEW q, route' = [route EXCEPT ![q] = "pending_deploy"] PROVE FALSE
  BY <1>0, <1>2 DEF Queued
<1>3. ASSUME NEW q, route' = [route EXCEPT ![q] = "active"], q # r PROVE FALSE
  BY <1>0, <1>3 DEF Queued
<1>4. CASE CredentialStep(w)
  BY <1>1, <1>4 DEF CredentialStep, SetCredential, ClearCredential, AddToList, RemoveFromList
<1>5. CASE CascadeStep(w)
  BY <1>1, <1>2, <1>5 DEF CascadeStep, SaveClient, ListAttachments, CascadeDone, CascadeRoute, CascadeFails
<1>6. CASE AttachStep(w)
  BY <1>1, <1>2, <1>6 DEF AttachStep, Attach, RequestDetach, QueueRoute, Submit, StoreAttachment, StoreDetach, Settle
<1>7. CASE DecideStep(w)
  BY <1>1, <1>2, <1>7 DEF DecideStep, Decide, Requeue, Callback
<1>8. CASE DeployStep(w)
  <2>1. CASE FinishDeploy(w)
    BY <1>3, <2>1 DEF FinishDeploy
  <2> QED
    BY <1>1, <1>8, <2>1 DEF DeployStep, BeginDeploy, ApplyOwn, ApplyBase, Cleanup, CleanupFails, MarkFails, MarkActive
<1>9. CASE OtherStep(w)
  <2>1. ASSUME NEW q \in Routes, SubmitUpdate(w, q) PROVE FALSE
    BY <1>0, <2>1 DEF SubmitUpdate, Queued
  <2>2. ASSUME NEW q \in Routes, ReviewUpdate(w, q) PROVE FALSE
    <3>1. CASE route' = [route EXCEPT ![q] = "active"] /\ <<route[q], "active">> \in LegalTransitions("ApprovalRejected")
      <4>1. ~Queued(q)
        BY <3>1 DEF Queued, LegalTransitions
      <4> QED
        BY <1>3, <3>1, <4>1
    <3> QED
      BY <1>2, <2>2, <3>1 DEF ReviewUpdate
  <2> QED
    BY <1>1, <1>9, <2>1, <2>2 DEF OtherStep, WriteFails, DeployFails, Toggle, DeleteClient
<1> QED
  BY <1>4, <1>5, <1>6, <1>7, <1>8, <1>9 DEF WorkerStep

LEMMA MissedKept ==
  ASSUME NEW w \in Workers, WorkerStep(w), NEW r \in Routes, r \in missed, r \notin missed'
  PROVE  FinishDeploy(w) /\ r = loc[w].r
<1>1. CASE CredentialStep(w)
  BY <1>1 DEF CredentialStep, SetCredential, ClearCredential, AddToList, RemoveFromList
<1>2. CASE CascadeStep(w)
  BY <1>2 DEF CascadeStep, SaveClient, ListAttachments, CascadeDone, CascadeRoute, CascadeFails
<1>3. CASE AttachStep(w)
  BY <1>3 DEF AttachStep, Attach, RequestDetach, QueueRoute, Submit, StoreAttachment, StoreDetach, Settle
<1>4. CASE DecideStep(w)
  BY <1>4 DEF DecideStep, Decide, Requeue, Callback
<1>5. CASE DeployStep(w)
  BY <1>5 DEF DeployStep, BeginDeploy, ApplyOwn, ApplyBase, Cleanup, CleanupFails, MarkFails, MarkActive, FinishDeploy
<1>6. CASE OtherStep(w)
  BY <1>6 DEF OtherStep, SubmitUpdate, ReviewUpdate, WriteFails, DeployFails, Toggle, DeleteClient
<1> QED
  BY <1>1, <1>2, <1>3, <1>4, <1>5, <1>6 DEF WorkerStep

\* The steps of a request that has routes left to queue.
LEMMA LagSteps ==
  ASSUME NEW w \in Workers, WorkerStep(w)
  PROVE  /\ pc[w] = "list" => ListAttachments(w) \/ WriteFails(w)
         /\ pc[w] = "cascade" => CascadeDone(w) \/ \E q \in Routes : CascadeRoute(w, q) \/ CascadeFails(w, q)
         /\ pc[w] = "requeue" => Requeue(w) \/ WriteFails(w)
<1> USE DEF Step, Begin, Fails
<1>1. CASE CredentialStep(w)
  BY <1>1 DEF CredentialStep, SetCredential, ClearCredential, AddToList, RemoveFromList
<1>2. CASE CascadeStep(w)
  BY <1>2 DEF CascadeStep, SaveClient, ListAttachments, CascadeDone, CascadeRoute, CascadeFails
<1>3. CASE AttachStep(w)
  BY <1>3 DEF AttachStep, Attach, RequestDetach, QueueRoute, Submit, StoreAttachment, StoreDetach, Settle
<1>4. CASE DecideStep(w)
  BY <1>4 DEF DecideStep, Decide, Requeue, Callback
<1>5. CASE DeployStep(w)
  BY <1>5 DEF DeployStep, BeginDeploy, ApplyOwn, ApplyBase, Cleanup, CleanupFails, MarkFails, MarkActive, FinishDeploy
<1>6. CASE OtherStep(w)
  BY <1>6 DEF OtherStep, SubmitUpdate, ReviewUpdate, WriteFails, DeployFails, Toggle, DeleteClient
<1> QED
  BY <1>1, <1>2, <1>3, <1>4, <1>5, <1>6 DEF WorkerStep

LEMMA LagsKept ==
  ASSUME TypedInv, NEW w \in Workers, WorkerStep(w), NEW r \in Routes, Lags(w, r)
  PROVE  Queued(r)' \/ r \in missed' \/ Lags(w, r)'
<1>0. /\ route \in [Routes -> RouteStatus] /\ loc \in [Workers -> Locals] /\ loc[w] \in Locals
      /\ pc \in [Workers -> Labels]
  BY DEF TypedInv, StateTyped, TypeOK
<1>1. CASE pc[w] = "list"
  <2>1. CASE ListAttachments(w)
    <3>1. r \in Affected(loc[w].c, loc[w].k)
      BY <1>1 DEF Lags
    <3>2. pc'[w] = "cascade" /\ loc'[w].todo = Affected(loc[w].c, loc[w].k)
      BY <1>0, <2>1 DEF ListAttachments, Goto, Locals
    <3> QED
      BY <3>1, <3>2 DEF Lags
  <2>2. CASE WriteFails(w)
    BY <1>1, <2>2 DEF WriteFails
  <2> QED
    BY <1>1, <2>1, <2>2, LagSteps
<1>2. CASE pc[w] = "cascade"
  <2>0. r \in loc[w].todo
    BY <1>2 DEF Lags
  <2>1. CASE CascadeDone(w)
    BY <2>0, <2>1 DEF CascadeDone
  <2>2. ASSUME NEW q \in Routes, CascadeRoute(w, q) \/ CascadeFails(w, q)
        PROVE  Queued(r)' \/ r \in missed' \/ Lags(w, r)'
    <3>1. CASE q = r
      BY <1>0, <2>2, <3>1 DEF CascadeRoute, CascadeFails, Queued
    <3>2. CASE q # r
      <4>1. pc'[w] = "cascade" /\ loc'[w].todo = loc[w].todo \ {q}
        BY <1>0, <2>2 DEF CascadeRoute, CascadeFails, Goto, Locals
      <4> QED
        BY <2>0, <3>2, <4>1 DEF Lags
    <3> QED
      BY <3>1, <3>2
  <2> QED
    BY <1>2, <2>1, <2>2, LagSteps
<1>3. CASE pc[w] = "requeue"
  <2>0. r = loc[w].r
    BY <1>3 DEF Lags
  <2>1. CASE Requeue(w)
    BY <1>0, <2>0, <2>1 DEF Requeue, Queued
  <2>2. CASE WriteFails(w)
    BY <1>3, <2>0, <2>2 DEF WriteFails
  <2> QED
    BY <1>3, <2>1, <2>2, LagSteps
<1> QED
  BY <1>1, <1>2, <1>3 DEF Lags

LEMMA DueKept ==
  ASSUME Serial, TypedInv, NEW w \in Workers, WorkerStep(w), NEW r \in Routes, Due(r),
         ~(FinishDeploy(w) /\ r = loc[w].r)
  PROVE  Due(r)'
  BY OneLags, QueuedKept, MissedKept, LagsKept

\* The credentials of another client change.
LEMMA OtherClient ==
  ASSUME NEW c, NEW r, att' = att, \A k : Cred(c, k)' = Cred(c, k)
  PROVE  /\ BaseAccess(c, r)' = BaseAccess(c, r) /\ OwnAccess(c, r)' = OwnAccess(c, r)
         /\ HasPerClientAuth(c, r)' <=> HasPerClientAuth(c, r)
<1>1. BaseAccess(c, r)' = BaseAccess(c, r)
  BY DEF BaseAccess, Included, ClientIPCIDRs, ClientHeaders, ClientMethods
<1>2. OwnAccess(c, r)' = OwnAccess(c, r) /\ (HasPerClientAuth(c, r)' <=> HasPerClientAuth(c, r))
  BY DEF OwnAccess, HasPerClientAuth
<1> QED
  BY <1>1, <1>2

\* The credentials of one client change; where they are in use, the request that
\* changes them has the route on its list, or the change waits for a deploy.
LEMMA FreshCredential ==
  ASSUME NEW c \in Clients, NEW r \in Routes, NEW k \in Creds, Fresh(c, r), att' = att, served'[r] = served[r],
         \A j \in Creds \ {k} : Cred(c, j)' = Cred(c, j),
         att[c][r].status = "active" => k # "methods" /\ k \notin att[c][r].enabled
  PROVE  Fresh(c, r)'
<1>1. CASE att[c][r].status = "active"
  <2>1. /\ BaseAccess(c, r)' = BaseAccess(c, r) /\ OwnAccess(c, r)' = OwnAccess(c, r)
        /\ HasPerClientAuth(c, r)' <=> HasPerClientAuth(c, r)
    BY <1>1, UnusedCredential
  <2> QED
    BY <2>1 DEF Fresh
<1>2. CASE att[c][r].status # "active"
  BY <1>2 DEF Fresh
<1> QED
  BY <1>1, <1>2

\* Which steps write credentials.
EditsList(w) == \E c \in Clients, k \in ListKinds : AddToList(w, c, k) \/ RemoveFromList(w, c, k)

LEMMA CredSteps ==
  ASSUME NEW w \in Workers, WorkerStep(w)
  PROVE  UNCHANGED <<client, lists>> \/ SaveClient(w) \/ EditsList(w) \/ Deletes(w)
<1>1. CASE CredentialStep(w)
  BY <1>1 DEF CredentialStep, EditsList, SetCredential, ClearCredential, rows
<1>2. CASE CascadeStep(w)
  BY <1>2 DEF CascadeStep, ListAttachments, CascadeDone, CascadeRoute, CascadeFails, rows
<1>3. CASE AttachStep(w)
  BY <1>3 DEF AttachStep, Attach, RequestDetach, QueueRoute, Submit, StoreAttachment, StoreDetach, Settle, rows
<1>4. CASE DecideStep(w)
  BY <1>4 DEF DecideStep, Decide, Requeue, Callback, rows
<1>5. CASE DeployStep(w)
  BY <1>5 DEF DeployStep, BeginDeploy, ApplyOwn, ApplyBase, Cleanup, CleanupFails, MarkFails, MarkActive, FinishDeploy, rows
<1>6. CASE OtherStep(w)
  BY <1>6 DEF OtherStep, SubmitUpdate, ReviewUpdate, WriteFails, DeployFails, Toggle, Deletes, rows
<1> QED
  BY <1>1, <1>2, <1>3, <1>4, <1>5, <1>6 DEF WorkerStep

LEMMA FreshSaved ==
  ASSUME TypedInv, NEW w \in Workers, SaveClient(w), NEW c \in Clients, NEW r \in Routes,
         Fresh(c, r), r \notin missed', ~Lags(w, r)'
  PROVE  Fresh(c, r)'
<1> DEFINE l == loc[w]
<1>0. /\ l.c \in Clients /\ l.k \in RowKinds /\ l.cred \in [RowKinds -> Versions]
      /\ \A j \in RowKinds \ {l.k} : l.cred[j] = client[l.c][j]
      /\ pc \in [Workers -> Labels] /\ loc \in [Workers -> Locals]
      /\ client \in [Clients -> [RowKinds -> Versions]]
  BY DEF SaveClient, Step, TypedInv, CredentialHeld, CascadeLabels, StateTyped, TypeOK
<1>1. UNCHANGED <<lists, att, served>> /\ client' = [client EXCEPT ![l.c] = l.cred]
  BY DEF SaveClient, attachments
<1>2. ASSUME NEW j \in Creds, c # l.c \/ j # l.k PROVE Cred(c, j)' = Cred(c, j)
  BY <1>0, <1>1, <1>2 DEF Cred
<1>3. l.k \in Creds /\ "none" \notin Creds
  BY <1>0, KindSets
<1>4. CASE c # l.c
  <2>1. \A j : Cred(c, j)' = Cred(c, j)
    BY <1>0, <1>1, <1>4 DEF Cred
  <2>2. /\ BaseAccess(c, r)' = BaseAccess(c, r) /\ OwnAccess(c, r)' = OwnAccess(c, r)
        /\ HasPerClientAuth(c, r)' <=> HasPerClientAuth(c, r)
    BY <1>1, <2>1, OtherClient
  <2> QED
    BY <1>1, <2>2 DEF Fresh
<1>5. CASE c = l.c
  <2>1. ASSUME att[c][r].status = "active" PROVE l.k # "methods" /\ l.k \notin att[c][r].enabled
    <3>1. CASE l.k = "mtls"
      BY <1>1, <1>5, <2>1, <3>1 DEF SaveClient
    <3>2. CASE l.k # "mtls"
      <4>1. pc'[w] = "list" /\ loc'[w] = l
        BY <1>0, <3>2 DEF SaveClient, Continue, Goto
      <4>2. r \notin Affected(c, l.k)'
        BY <1>5, <4>1 DEF Lags
      <4> QED
        BY <1>1, <2>1, <3>2, <4>1, <4>2 DEF Affected
    <3> QED
      BY <3>1, <3>2
  <2>2. \A j \in Creds \ {l.k} : Cred(c, j)' = Cred(c, j)
    BY <1>2
  <2> QED
    BY <1>1, <1>3, <2>1, <2>2, FreshCredential
<1> QED
  BY <1>4, <1>5

LEMMA FreshEdited ==
  ASSUME TypedInv, NEW w \in Workers, NEW b \in Clients, NEW k \in ListKinds,
         AddToList(w, b, k) \/ RemoveFromList(w, b, k), NEW c \in Clients, NEW r \in Routes,
         Fresh(c, r), ~Lags(w, r)'
  PROVE  Fresh(c, r)'
<1>0. /\ pc \in [Workers -> Labels] /\ loc \in [Workers -> Locals]
      /\ lists \in [Clients -> [ListKinds -> Versions]]
  BY DEF TypedInv, StateTyped, TypeOK
<1>1. UNCHANGED <<client, att, served>> /\ \E v : lists' = [lists EXCEPT ![b][k] = v]
  BY DEF AddToList, RemoveFromList, attachments
<1>2. pc'[w] = "list" /\ loc'[w].c = b /\ loc'[w].k = k
  BY <1>0 DEF AddToList, RemoveFromList, Goto, NoLoc
<1>3. k \in Creds /\ k \notin {"mtls", "methods"}
  BY KindSets DEF ListKinds
<1>4. CASE c # b
  <2>1. \A j : Cred(c, j)' = Cred(c, j)
    BY <1>0, <1>1, <1>4 DEF Cred
  <2>2. /\ BaseAccess(c, r)' = BaseAccess(c, r) /\ OwnAccess(c, r)' = OwnAccess(c, r)
        /\ HasPerClientAuth(c, r)' <=> HasPerClientAuth(c, r)
    BY <1>1, <2>1, OtherClient
  <2> QED
    BY <1>1, <2>2 DEF Fresh
<1>5. CASE c = b
  <2>1. r \notin Affected(c, k)'
    BY <1>2, <1>5 DEF Lags
  <2>2. att[c][r].status = "active" => k # "methods" /\ k \notin att[c][r].enabled
    BY <1>1, <1>3, <2>1 DEF Affected
  <2>3. \A j \in Creds \ {k} : Cred(c, j)' = Cred(c, j)
    BY <1>0, <1>1, <1>5, KindSets DEF Cred
  <2> QED
    BY <1>1, <1>3, <2>2, <2>3, FreshCredential
<1> QED
  BY <1>4, <1>5

\* A route that owed nothing before a step and owes nothing after it still
\* serves what the tables say.
LEMMA FreshStep ==
  ASSUME Serial, TypedInv, NEW w \in Workers, WorkerStep(w), NEW c \in Clients, NEW r \in Routes,
         ~Due(r), Fresh(c, r), ~Due(r)'
  PROVE  Fresh(c, r)'
<1> DEFINE l == loc[w]
<1>0. /\ ~Queued(r) /\ r \notin missed /\ ~Lags(w, r)
      /\ ~Queued(r)' /\ r \notin missed' /\ ~Lags(w, r)'
  BY OneLags
<1>1. served'[r] = served[r]
  <2>1. CASE ApplyBase(w) \/ AppliesOwn(w) \/ Cleanup(w)
    <3>1. r # l.r
      BY <1>0, <2>1, DeployWrites
    <3> QED
      BY <2>1, <3>1, AppliedBase, AppliedOwn, CleanedUp DEF AppliesOwn
  <2> QED
    BY <2>1, ServedSteps
<1>2. CASE SaveClient(w)
  BY <1>0, <1>2, FreshSaved
<1>3. CASE EditsList(w)
  BY <1>0, <1>3, FreshEdited DEF EditsList
<1>4. CASE Deletes(w)
  <2>1. PICK b \in Clients : DeleteClient(w, b)
    BY <1>4 DEF Deletes
  <2>2. /\ client' = [client EXCEPT ![b] = [k \in RowKinds |-> 0]]
        /\ lists' = [lists EXCEPT ![b] = [k \in ListKinds |-> 0]]
        /\ att' = [att EXCEPT ![b] = [q \in Routes |-> NoAtt]]
        /\ TypeOK
    BY <2>1 DEF DeleteClient, TypedInv, StateTyped
  <2>3. CASE c = b
    <3>1. att'[c][r] = NoAtt
      BY <2>2, <2>3 DEF TypeOK
    <3> QED
      BY <3>1, NoAttTyped DEF Fresh
  <2>4. CASE c # b
    <3>1. client'[c] = client[c] /\ lists'[c] = lists[c] /\ att'[c] = att[c]
      BY <2>2, <2>4 DEF TypeOK
    <3>2. \A k : Cred(c, k)' = Cred(c, k)
      BY <3>1 DEF Cred
    <3>3. BaseAccess(c, r)' = BaseAccess(c, r)
      BY <3>1, <3>2 DEF BaseAccess, Included, ClientIPCIDRs, ClientHeaders, ClientMethods
    <3>4. OwnAccess(c, r)' = OwnAccess(c, r) /\ (HasPerClientAuth(c, r)' <=> HasPerClientAuth(c, r))
      BY <3>1, <3>2 DEF OwnAccess, HasPerClientAuth
    <3> QED
      BY <1>1, <3>1, <3>3, <3>4 DEF Fresh
  <2> QED
    BY <2>3, <2>4
<1>5. CASE UNCHANGED <<client, lists>>
  <2>1. CASE att'[c][r] = att[c][r]
    BY <1>1, <1>5, <2>1, FreshKept
  <2>2. CASE MarkActive(w)
    <3>1. r # l.r
      BY <1>0, <2>2 DEF MarkActive, Step, TypedInv, DeployHeld, DeployLabels
    <3> QED
      BY <2>1, <2>2, <3>1, MarkedRows
  <2>3. CASE AttWrite(w)
    <3>1. PICK s \in {"pending_attach", "pending_detach", "removed", "approved", "rejected"} :
             /\ att'[l.c][l.r].status = s
             /\ s \in {"removed", "approved"} => Settle(w) \/ (Callback(w) /\ l.op = "approve")
      BY <2>3, AttWrites
    <3>2. CASE <<c, r>> # <<l.c, l.r>>
      BY <2>1, <2>3, <3>2, AttWrites
    <3>3. CASE c = l.c /\ r = l.r
      <4>1. ~Settle(w)
        BY <1>0, <3>3 DEF Settle, Step, TypedInv, AttachmentHeld, Queued
      <4>2. ~(Callback(w) /\ l.op = "approve")
        <5> SUFFICES ASSUME Callback(w), l.op = "approve" PROVE FALSE
          OBVIOUS
        <5>1. route' = route
          BY DEF Callback
        <5>2. route[r] = "active"
          BY <1>0, <3>3 DEF Callback
        <5>3. pc'[w] = "requeue" /\ loc'[w] = l
          BY <3>3, <5>2 DEF Callback, Continue, Goto, TypedInv, StateTyped
        <5> QED
          BY <1>0, <3>3, <5>3 DEF Lags
      <4>3. s \notin {"removed", "approved", "active"}
        BY <3>1, <4>1, <4>2
      <4>4. att'[c][r].status = s
        BY <3>1, <3>3
      <4> QED
        BY <4>3, <4>4 DEF Fresh
    <3> QED
      BY <3>2, <3>3
  <2> QED
    BY <1>4, <2>1, <2>2, <2>3, AttSteps
<1> QED
  BY <1>2, <1>3, <1>4, <1>5, CredSteps

\* The deploy of a route leaves it serving what the tables say.
LEMMA FreshDeploy ==
  ASSUME Serial, TypedInv, CurrentInv, NEW w \in Workers, FinishDeploy(w), NEW c \in Clients, NEW r \in Routes,
         r = loc[w].r, r \notin missed'
  PROVE  Fresh(c, r)'
<1>1. pc[w] = "finish" /\ loc[w].ok /\ AppliedTo(w, c, r)
  BY DEF FinishDeploy, Step, CurrentInv, Applied
<1>2. UNCHANGED <<client, lists, att, served>>
  BY DEF FinishDeploy, rows, attachments
<1>3. /\ served[r].base[c] = BaseAccess(c, r)
      /\ Included(c, r) /\ HasPerClientAuth(c, r) => served[r].own[c] = OwnAccess(c, r)
      /\ ~Included(c, r) => served[r].own[c] = NoAccess
      /\ att[c][r].status # "approved"
  BY <1>1 DEF AppliedTo
<1>4. ~Included(c, r) => BaseAccess(c, r) = NoAccess
  BY DEF BaseAccess, NoAccess
<1>5. Fresh(c, r)
  BY <1>3, <1>4 DEF Fresh, Included
<1> QED
  BY <1>2, <1>5, FreshKept

LEMMA CurrentStep ==
  ASSUME Serial, TypedInv, CurrentInv, NEW w \in Workers, WorkerStep(w)
  PROVE  CurrentInv'
<1>1. ASSUME NEW r \in Routes, ~Due(r)', NEW c \in Clients PROVE Fresh(c, r)'
  <2>1. CASE FinishDeploy(w) /\ r = loc[w].r
    BY <1>1, <2>1, OneLags, FreshDeploy
  <2>2. CASE ~(FinishDeploy(w) /\ r = loc[w].r)
    <3>1. ~Due(r)
      BY <1>1, <2>2, DueKept
    <3>2. Fresh(c, r)
      BY <3>1 DEF CurrentInv
    <3> QED
      BY <1>1, <3>1, <3>2, FreshStep
  <2> QED
    BY <2>1, <2>2
<1>2. \A v \in Workers : Applied(v)'
  <2> SUFFICES ASSUME NEW v \in Workers PROVE Applied(v)'
    OBVIOUS
  <2>1. v = w
    BY DEF Serial
  <2> QED
    BY <2>1, AppliedStep
<1> QED
  BY <1>1, <1>2 DEF CurrentInv

---------------------------------------------------------------------------
\* The invariant, and what it says of a state without a request.

LEMMA InvInit == ASSUME Init PROVE ClientAccessInv
<1>1. \A w \in Workers : pc[w] = "idle"
  BY DEF Init
<1>2. \A c \in Clients, r \in Routes : att[c][r] = NoAtt /\ att[c][r].status = "none"
  BY NoAttTyped DEF Init
<1>3. \A r \in Routes, c \in Clients : served[r].own[c] = NoAccess
  BY DEF Init
<1>4. ApprovalsInv
  BY <1>1 DEF Init, ApprovalsInv, Reserved, AttachLabels
<1>5. GrantedInv
  BY <1>1, <1>2 DEF GrantedInv, Included, CallbackGranted
<1>6. ServedClientWasGranted
  BY <1>3 DEF ServedClientWasGranted
<1>7. GuardedInv
  BY <1>1, <1>2 DEF GuardedInv
<1>8. \A r \in Routes, c \in Clients : Fresh(c, r)
  BY <1>2 DEF Fresh
<1>9. \A w \in Workers : Applied(w)
  BY <1>1 DEF Applied, AppliedTo
<1>10. CurrentInv
  BY <1>8, <1>9 DEF CurrentInv
<1>11. TypedInv
  BY TypedInit
<1> QED
  BY <1>4, <1>5, <1>6, <1>7, <1>10, <1>11 DEF ClientAccessInv

LEMMA InvStutters == ASSUME ClientAccessInv, UNCHANGED vars PROVE ClientAccessInv'
<1> USE DEF vars, rows, attachments
<1>1. TypedInv'
  <2>1. StateTyped'
    BY DEF ClientAccessInv, TypedInv, StateTyped, TypeOK
  <2>2. ASSUME NEW w \in Workers PROVE CredentialHeld(w)'
    BY DEF ClientAccessInv, TypedInv, CredentialHeld
  <2>3. ASSUME NEW w \in Workers PROVE AttachmentHeld(w)'
    <3>1. AttachmentHeld(w)
      BY DEF ClientAccessInv, TypedInv
    <3> QED
      BY <3>1 DEF AttachmentHeld
  <2>4. ASSUME NEW w \in Workers PROVE DeployHeld(w)'
    <3>1. DeployHeld(w)
      BY DEF ClientAccessInv, TypedInv
    <3>2. \A c \in Clients, r \in Routes : OwnAccess(c, r)' = OwnAccess(c, r) /\ (Included(c, r)' <=> Included(c, r))
      BY DEF OwnAccess, Included, Cred
    <3> QED
      BY <3>1, <3>2 DEF DeployHeld, Queued, DeployLabels
  <2> QED
    BY <2>1, <2>2, <2>3, <2>4 DEF TypedInv
<1>2. ApprovalsInv'
  BY DEF ClientAccessInv, ApprovalsInv, Pending, Awaited, Reserved
<1>3. GrantedInv' /\ ServedClientWasGranted' /\ GuardedInv'
  BY DEF ClientAccessInv, GrantedInv, Included, CallbackGranted, ServedClientWasGranted, GuardedInv, OwnRoute
<1>4. ASSUME NEW c, NEW r
      PROVE  /\ BaseAccess(c, r)' = BaseAccess(c, r) /\ OwnAccess(c, r)' = OwnAccess(c, r)
             /\ HasPerClientAuth(c, r)' <=> HasPerClientAuth(c, r)
             /\ Included(c, r)' <=> Included(c, r)
  BY SameAccess DEF Included
<1>5. ASSUME NEW r \in Routes, ~Due(r)', NEW c \in Clients PROVE Fresh(c, r)'
  <2>1. ~Due(r)
    BY <1>5 DEF Due, Queued, Lags, Affected
  <2>2. Fresh(c, r)
    BY <2>1 DEF ClientAccessInv, CurrentInv
  <2> QED
    BY <2>2, FreshKept
<1>6. ASSUME NEW w \in Workers, NEW c \in Clients, NEW r \in Routes, r = loc'[w].r PROVE AppliedTo(w, c, r)'
  <2>1. AppliedTo(w, c, r)
    BY <1>6 DEF ClientAccessInv, CurrentInv, Applied
  <2> QED
    BY <1>4, <2>1 DEF AppliedTo
<1>7. CurrentInv'
  <2>1. \A w \in Workers : Applied(w)'
    BY <1>6 DEF Applied
  <2> QED
    BY <1>5, <2>1 DEF CurrentInv
<1> QED
  BY <1>1, <1>2, <1>3, <1>7 DEF ClientAccessInv

LEMMA InvNext == ASSUME Serial, ClientAccessInv, [Next]_vars PROVE ClientAccessInv'
<1>1. CASE Next
  <2>1. PICK w \in Workers : WorkerStep(w)
    BY <1>1, Steps
  <2>2. TypedInv' /\ ApprovalsInv'
    BY <2>1, TypedStep, ApprovalsStep DEF ClientAccessInv
  <2>3. GrantedInv' /\ ServedClientWasGranted' /\ GuardedInv'
    BY <2>1, GrantedStep, ServedGrantedStep, GuardedStep DEF ClientAccessInv
  <2>4. CurrentInv'
    BY <2>1, CurrentStep DEF ClientAccessInv
  <2> QED
    BY <2>2, <2>3, <2>4 DEF ClientAccessInv
<1> QED
  BY <1>1, InvStutters

\* Served one after the other, requests keep the invariant of clients: what a
\* request holds is what the tables say, an open approval is awaited by the
\* attachment it names, and a route that is not due for a deploy serves what the
\* tables say.
THEOREM ClientAccessInvariant == ASSUME Serial PROVE Spec => []ClientAccessInv
<1>1. Init => ClientAccessInv
  BY InvInit
<1>2. ClientAccessInv /\ [Next]_vars => ClientAccessInv'
  BY InvNext
<1> QED
  BY <1>1, <1>2, PTL DEF Spec

\* Then an active client is let through with its current credentials by every
\* route that is active and owes no redeploy, whatever calls fail on the way.
THEOREM ActiveIsCurrent == ASSUME Serial PROVE Spec => []ActiveClientIsCurrent
<1>1. ClientAccessInv => ActiveClientIsCurrent
  <2> SUFFICES ASSUME ClientAccessInv, NEW r \in Routes, NEW c \in Clients, Settled(r)
               PROVE  Fresh(c, r)
    BY DEF ActiveClientIsCurrent, Fresh
  <2>1. ~Due(r)
    BY DEF Settled, Quiet, Due, Queued, Lags
  <2> QED
    BY <2>1 DEF ClientAccessInv, CurrentInv
<1> QED
  BY <1>1, ClientAccessInvariant, PTL

\* And a client that was detached is let through by none.
THEOREM DetachedIsGone == ASSUME Serial PROVE Spec => []DetachedClientIsGone
<1>1. ClientAccessInv => DetachedClientIsGone
  <2> SUFFICES ASSUME ClientAccessInv, NEW r \in Routes, NEW c \in Clients, Settled(r)
               PROVE  Fresh(c, r)
    BY DEF DetachedClientIsGone, Fresh
  <2>1. ~Due(r)
    BY DEF Settled, Quiet, Due, Queued, Lags
  <2> QED
    BY <2>1 DEF ClientAccessInv, CurrentInv
<1> QED
  BY <1>1, ClientAccessInvariant, PTL

\* And whoever has a route of its own was granted the methods it uses there.
THEOREM ServedGranted == ASSUME Serial PROVE Spec => []ServedClientWasGranted
<1>1. ClientAccessInv => ServedClientWasGranted
  BY DEF ClientAccessInv
<1> QED
  BY <1>1, ClientAccessInvariant, PTL

\* And the base route of a client with a route of its own is not open to all.
THEOREM BaseGuarded == ASSUME Serial PROVE Spec => []BaseRouteIsGuarded
<1>1. ClientAccessInv => BaseRouteIsGuarded
  BY DEF ClientAccessInv, GuardedInv, OwnRoute, BaseRouteIsGuarded
<1> QED
  BY <1>1, ClientAccessInvariant, PTL
=============================================================================
