------------------------ MODULE RouteLifecycleProofs ------------------------
(***************************************************************************)
(* Proofs about RouteLifecycle, for any set of workers, any mix of requests*)
(* and any number of submissions and failures: the types, that no config is*)
(* served that was never approved, and that the route keeps RouteContract. *)
(* For requests served one at a time also that one approval at most is     *)
(* pending and finds the route as its callback expects, that approved      *)
(* configs are kept, and that a deleted route leaves nothing behind.       *)
(***************************************************************************)
EXTENDS RouteLifecycle, FiniteSetTheorems, TLAPS

\* What a worker holds and is about to do, for one worker.
WorkerOK(w) ==
    /\ pc[w] \in PCs
    /\ loc[w] \in Locals
    /\ pc[w] \notin {"idle", "persistPolicies", "saveApproval", "complete"} =>
           loc[w].row # NoRow
    /\ pc[w] \in {"fastPath", "submit"} => loc[w].op \in Actions
    /\ pc[w] = "getProject" => loc[w].op \in Actions \cup {"attach"}
    /\ pc[w] = "requeue" => loc[w].op \in Requeues
    /\ pc[w] \in {"getPending", "setPending"} => loc[w].op \in {"update", "delete"}
    /\ pc[w] \in {"saveApproval", "complete", "saveRoute"} =>
           loc[w].op \in Decisions /\ loc[w].rev \in Revs
    /\ pc[w] = "persistPolicies" => loc[w].rev \in Revs
    /\ Backed(loc[w].row.config)
    /\ pc[w] \in {"complete", "saveRoute"} /\ loc[w].op = "approve" =>
           loc[w].rev \in GrantedFor(loc[w].action)
    /\ pc[w] \in {"saveApproval", "complete", "saveRoute"} =>
           /\ loc[w].rev <= lastRev
           /\ loc[w].action = "create" => loc[w].rev = 1
    /\ pc[w] \in {"getProject", "fastPath", "submit"} /\ loc[w].op = "create" => 1 <= lastRev
    /\ pc[w] = "applyRoute" /\ loc[w].action # "update" => 1 \in granted
    /\ pc[w] \in {"removePolicies", "removeRoute"} => grantedDeletes # {}

\* The tables and the cluster.
TablesOK ==
    /\ row \in Rows
    /\ policies \in 0..MaxRev
    /\ approvals \in [Revs -> Approvals]
    /\ approvalEnabled \in BOOLEAN
    /\ k8s \in [route : 0..MaxRev, policies : 0..MaxRev]
    /\ lastRev \in 0..MaxRev
    /\ granted \subseteq Revs
    /\ grantedDeletes \subseteq Revs
    /\ override \in Overrides
    /\ overlooked \in BOOLEAN
    /\ failures \in 0..MaxFailures
    /\ Backed(row.config)
    /\ ApprovalsBacked
    /\ k8s.route # 0 => k8s.route \in granted /\ 1 \in granted

Inv == /\ pc \in [Workers -> PCs]
       /\ loc \in [Workers -> Locals]
       /\ TablesOK
       /\ \A w \in Workers : WorkerOK(w)

\* Inv is the type invariant together with the strengthening.
LEMMA InvIs == Inv <=> TypeOK /\ LocalsOK /\ ServedInv
BY DEF Inv, TablesOK, WorkerOK, TypeOK, LocalsOK, ServedInv, WorkersBacked

\* A saved route is a route: Save keeps the config and sets the status.
LEMMA SavedRow ==
    ASSUME NEW r \in Rows, r # NoRow, NEW s \in RouteStatus
    PROVE  /\ [r EXCEPT !.status = s] \in Rows
           /\ [r EXCEPT !.status = s] # NoRow
           /\ [r EXCEPT !.status = s].config = r.config
<1>1. s # "none" BY DEF RouteStatus
<1> QED BY <1>1 DEF Rows, NoRow

\* The snapshot of a granted revision is a route with that config.
LEMMA SnapshotRow ==
    ASSUME NEW r \in Rows, r # NoRow, NEW c \in Revs
    PROVE  /\ [r EXCEPT !.config = c] \in Rows
           /\ [r EXCEPT !.config = c] # NoRow
           /\ [r EXCEPT !.config = c].config = c
<1>1. \A s \in RouteStatus : s # "none" BY DEF RouteStatus
<1> QED BY <1>1 DEF Rows, NoRow

\* What was submitted and granted stays so.
Grows == /\ granted \subseteq granted'
         /\ grantedDeletes \subseteq grantedDeletes'
         /\ lastRev' # lastRev => lastRev < lastRev'

\* Approvals that nobody touches stay backed.
LEMMA StillBacked ==
    ASSUME TablesOK, Grows, UNCHANGED approvals, lastRev' \in 0..MaxRev
    PROVE  ApprovalsBacked'
<1>1. lastRev \in Int /\ lastRev' \in Int /\ lastRev <= lastRev'
  BY BoundsAssumption DEF TablesOK, Grows
<1>2. \A r \in Revs : r <= lastRev => r <= lastRev'
  BY <1>1, BoundsAssumption DEF Revs
<1>3. ASSUME NEW r \in Revs
      PROVE  /\ approvals'[r].status # "none" => r <= lastRev'
             /\ approvals'[r].status = "approved" => r \in GrantedFor(approvals[r].action)'
             /\ approvals'[r].status # "none" /\ approvals'[r].action = "create" => r = 1
  <2>1. /\ approvals[r].status # "none" => r <= lastRev
        /\ approvals[r].status = "approved" => r \in GrantedFor(approvals[r].action)
        /\ approvals[r].status # "none" /\ approvals[r].action = "create" => r = 1
        /\ approvals' = approvals
    BY DEF TablesOK, ApprovalsBacked
  <2>2. GrantedFor(approvals[r].action) \subseteq GrantedFor(approvals[r].action)'
    BY <2>1 DEF Grows, GrantedFor
  <2> QED BY <1>2, <2>1, <2>2
<1> QED BY <1>3 DEF ApprovalsBacked

\* Worker w moves on and nobody else does; what was granted stays granted.
LEMMA Moved ==
    ASSUME Inv, NEW w \in Workers, NEW label \in PCs, NEW locals \in Locals,
           Goto(w, label, locals), Grows,
           TablesOK', WorkerOK(w)'
    PROVE  Inv'
<1>1. /\ pc' \in [Workers -> PCs] /\ loc' \in [Workers -> Locals]
      /\ \A v \in Workers \ {w} : pc'[v] = pc[v] /\ loc'[v] = loc[v]
  BY DEF Inv, Goto
<1>2. ASSUME NEW v \in Workers \ {w} PROVE WorkerOK(v)'
  <2>1. pc'[v] = pc[v] /\ loc'[v] = loc[v] /\ WorkerOK(v)
    BY <1>1 DEF Inv
  <2>2. lastRev \in Int /\ lastRev' \in Int /\ lastRev <= lastRev'
    BY DEF Inv, TablesOK, Grows
  <2>3. \A n \in Int : n <= lastRev => n <= lastRev'
    BY <2>2
  <2>4. /\ \A a : GrantedFor(a) \subseteq GrantedFor(a)'
        /\ \A c : Backed(c) => Backed(c)'
        /\ grantedDeletes # {} => grantedDeletes' # {}
        /\ 1 \in granted => 1 \in granted'
    BY DEF Grows, GrantedFor, Backed
  <2>5. loc[v].rev \in Int
    BY <2>1 DEF WorkerOK, Locals
  <2> HIDE DEF GrantedFor, Backed
  <2> QED BY <2>1, <2>3, <2>4, <2>5 DEF WorkerOK
<1> QED BY <1>1, <1>2 DEF Inv

\* A worker may always return: nothing is claimed of an idle worker.
LEMMA IdleOK ==
    ASSUME NEW w \in Workers, pc \in [Workers -> PCs], loc \in [Workers -> Locals],
           Return(w)
    PROVE  WorkerOK(w)' /\ "idle" \in PCs /\ Idle \in Locals
<1>1. Idle \in Locals /\ Idle.row.config = 0
  BY BoundsAssumption DEF Idle, Locals, Rows, NoRow, Actions
<1>2. "idle" \in PCs BY DEF PCs
<1>3. pc'[w] = "idle" /\ loc'[w] = Idle BY DEF Return, Goto
<1> QED BY <1>1, <1>2, <1>3 DEF WorkerOK, Backed

\* So a step that returns and keeps the tables consistent keeps Inv.
LEMMA Returned ==
    ASSUME Inv, NEW w \in Workers, Return(w), Grows, TablesOK'
    PROVE  Inv'
<1>1. WorkerOK(w)' /\ "idle" \in PCs /\ Idle \in Locals BY IdleOK DEF Inv
<1>2. Goto(w, "idle", Idle) BY DEF Return
<1> QED BY <1>1, <1>2, Moved

\* The handlers of route_write_service.go.
LEMMA WriteStep == ASSUME Inv, NEW w \in Workers, Write(w) PROVE Inv'
<1> USE BoundsAssumption
<1> USE DEF Inv, Grows, GrantedFor
<1>w. WorkerOK(w) OBVIOUS
<1>1. CASE Create(w)
  <2>1. row' \in Rows /\ row' # NoRow /\ row'.config = 1 /\ 1 \in Revs
    BY <1>1 DEF Create, Rows, NoRow, RouteStatus, Revs
  <2>g. Grows /\ UNCHANGED approvals /\ lastRev' = 1 /\ lastRev' \in 0..MaxRev
    BY <1>1 DEF Create, history
  <2>b. ApprovalsBacked'
    BY <2>g, StillBacked
  <2>2. TablesOK'
    BY <1>1, <2>1, <2>b, <2>g DEF Create, Begin, At, TablesOK, Backed, history
  <2> DEFINE l == [op |-> "create", rev |-> 1, action |-> "create", row |-> row']
  <2>3. l \in Locals BY <2>1 DEF Locals, Actions, Revs
  <2>4. Goto(w, "getProject", l) BY <1>1 DEF Create
  <2>5. pc'[w] = "getProject" /\ loc'[w] = l BY <2>4 DEF Goto
  <2>6. "getProject" \in PCs BY DEF PCs
  <2>7. WorkerOK(w)' BY <2>1, <2>3, <2>5, <2>6, <2>g DEF WorkerOK, Backed, Actions
  <2> QED BY <2>2, <2>3, <2>4, <2>6, <2>7, <2>g, Moved
<1>2. ASSUME NEW op \in {"update", "delete"}, BeginChange(w, op) PROVE Inv'
  <2>1. TablesOK' BY <1>2 DEF BeginChange, Begin, At, TablesOK, Backed, ApprovalsBacked, history
  <2> DEFINE l == [op |-> op, rev |-> 0, action |-> op, row |-> row]
  <2>2. row \in Rows /\ row # NoRow /\ Backed(row.config)
    BY <1>2 DEF BeginChange, HasRow, TablesOK
  <2>3. l \in Locals BY <2>2 DEF Locals, Actions
  <2>4. Goto(w, "getPending", l) BY <1>2 DEF BeginChange
  <2>5. pc'[w] = "getPending" /\ loc'[w] = l BY <2>4 DEF Goto
  <2>6. "getPending" \in PCs BY DEF PCs
  <2>7. Grows BY <1>2 DEF BeginChange, history
  <2>8. WorkerOK(w)' BY <2>2, <2>3, <2>5, <2>6, <2>7 DEF WorkerOK, Backed
  <2> QED BY <2>1, <2>3, <2>4, <2>6, <2>7, <2>8, Moved
<1>3. CASE GetPending(w)
  <2>f. failures' \in 0..MaxFailures BY <1>3, BoundsAssumption DEF GetPending, CallFails, TablesOK
  <2>o. overlooked' \in BOOLEAN BY <1>3 DEF GetPending, TablesOK
  <2>1. TablesOK' /\ Grows
    BY <1>3, <2>f, <2>o DEF GetPending, TablesOK, Backed, ApprovalsBacked
  <2>2. CASE Return(w) BY <2>1, <2>2, Returned
  <2>3. CASE Goto(w, "setPending", loc[w])
    <3>1. pc'[w] = "setPending" /\ loc'[w] = loc[w] BY <2>3 DEF Goto
    <3>2. "setPending" \in PCs BY DEF PCs
    <3>3. WorkerOK(w)' BY <1>3, <1>w, <3>1, <3>2, <2>1 DEF WorkerOK, Backed, GetPending
    <3> QED BY <2>1, <2>3, <3>2, <3>3, Moved
  <2> QED BY <1>3, <2>2, <2>3 DEF GetPending, Continue
<1>4. CASE SetPending(w)
  <2> DEFINE op == loc[w].op
             next == IF op = "update" THEN "pending_update" ELSE "pending_delete"
             saved == [loc[w].row EXCEPT !.status = next]
             l == [loc[w] EXCEPT !.row.status = next]
  <2>1. /\ loc[w] \in Locals /\ loc[w].row \in Rows /\ loc[w].row # NoRow
        /\ op \in {"update", "delete"} /\ Backed(loc[w].row.config)
    BY <1>4, <1>w DEF SetPending, At, WorkerOK, Locals
  <2>2. next \in RouteStatus BY DEF RouteStatus
  <2>3. saved \in Rows /\ saved # NoRow /\ saved.config = loc[w].row.config
    BY <2>1, <2>2, SavedRow
  <2>4. l \in Locals /\ l.row = saved /\ l.op = op
    BY <2>1, <2>3 DEF Locals
  <2>5. /\ row' = row \/ row' = saved
        /\ Return(w) \/ Goto(w, "getProject", l)
    BY <1>4 DEF SetPending, Save
  <2>6. TablesOK' /\ Grows
    BY <1>4, <2>1, <2>3, <2>5 DEF SetPending, At, TablesOK, Backed, ApprovalsBacked, history
  <2>7. CASE Return(w) BY <2>6, <2>7, Returned
  <2>8. CASE Goto(w, "getProject", l)
    <3>1. pc'[w] = "getProject" /\ loc'[w] = l BY <2>8 DEF Goto
    <3>2. "getProject" \in PCs BY DEF PCs
    <3>3. WorkerOK(w)'
      BY <2>1, <2>3, <2>4, <2>6, <3>1, <3>2 DEF WorkerOK, Backed, Actions
    <3> QED BY <2>4, <2>6, <2>8, <3>2, <3>3, Moved
  <2> QED BY <2>5, <2>7, <2>8
<1>5. CASE GetProject(w)
  <2>1. TablesOK' /\ Grows
    BY <1>5 DEF GetProject, At, TablesOK, Backed, ApprovalsBacked, history
  <2>2. CASE Return(w) BY <2>1, <2>2, Returned
  <2>3. ASSUME NEW label \in {"requeue", "submit", "fastPath"},
               Goto(w, label, loc[w]), label = "requeue" <=> loc[w].op = "attach"
        PROVE  Inv'
    <3>1. pc'[w] = label /\ loc'[w] = loc[w] BY <2>3 DEF Goto
    <3>2. label \in PCs BY DEF PCs
    <3>3. WorkerOK(w)'
      BY <1>5, <1>w, <2>1, <2>3, <3>1, <3>2 DEF WorkerOK, Backed, GetProject, At, Requeues
    <3>4. loc[w] \in Locals BY <1>w DEF WorkerOK
    <3> QED BY <2>1, <2>3, <3>2, <3>3, <3>4, Moved
  <2> QED BY <1>5, <2>2, <2>3 DEF GetProject, Continue
<1>6. CASE FastPath(w)
  <2> DEFINE next == IF loc[w].op = "create" THEN "approved" ELSE "pending_deploy"
  <2>1. loc[w].row \in Rows /\ loc[w].row # NoRow /\ Backed(loc[w].row.config)
    BY <1>6, <1>w DEF FastPath, At, WorkerOK, Locals
  <2>2. next \in RouteStatus BY DEF RouteStatus
  <2>3. row' = [loc[w].row EXCEPT !.status = next] BY <1>6 DEF FastPath, Save
  <2>4. row' \in Rows /\ row'.config = loc[w].row.config BY <2>1, <2>2, <2>3, SavedRow
  <2>5. granted \subseteq granted' /\ granted' \subseteq granted \cup {1} /\ 1 \in Revs
    BY <1>6 DEF FastPath, Revs
  <2>6. TablesOK'
    BY <1>6, <2>1, <2>4, <2>5 DEF FastPath, At, TablesOK, Backed, ApprovalsBacked, Overrides
  <2> QED BY <1>6, <2>5, <2>6, Returned DEF FastPath
<1>7. CASE Submit(w)
  <2> DEFINE op == loc[w].op
             rev == IF op = "create" THEN 1 ELSE lastRev + 1
             l == [loc[w] EXCEPT !.rev = rev]
  <2>1. /\ loc[w] \in Locals /\ op \in Actions /\ loc[w].row # NoRow
        /\ Backed(loc[w].row.config) /\ rev \in Revs
        /\ op = "create" => 1 <= lastRev
    BY <1>7, <1>w DEF Submit, At, WorkerOK
  <2>g. Grows /\ lastRev' = (IF op = "create" THEN lastRev ELSE lastRev + 1) /\ rev <= lastRev'
        /\ lastRev \in Int
    BY <1>7, <2>1 DEF Submit, TablesOK, history
  <2>2. /\ approvals' = [approvals EXCEPT ![rev] = [action |-> op, status |-> "pending"]]
        /\ [action |-> op, status |-> "pending"] \in Approvals
    BY <1>7, <2>1 DEF Submit, Approvals, ApprovalStatus
  <2>3. approvals' \in [Revs -> Approvals] /\ lastRev' \in 0..MaxRev
    BY <1>7, <2>1, <2>2 DEF Submit, TablesOK, Revs
  <2>4. ApprovalsBacked'
    <3>1. \A r \in Revs : approvals'[r] = approvals[r] \/ r = rev
      BY <2>2, <2>1 DEF TablesOK
    <3>2. approvals'[rev] = [action |-> op, status |-> "pending"]
      BY <2>2, <2>1 DEF TablesOK
    <3>3. \A r \in Revs : r <= lastRev => r <= lastRev'
      BY <2>g DEF Revs
    <3>4. UNCHANGED <<granted, grantedDeletes>>
      BY <1>7 DEF Submit, history
    <3>5. op = "create" => rev = 1
      OBVIOUS
    <3> HIDE DEF rev
    <3> QED BY <2>1, <2>g, <3>1, <3>2, <3>3, <3>4, <3>5 DEF TablesOK, ApprovalsBacked
  <2>5. TablesOK'
    BY <1>7, <2>1, <2>3, <2>4 DEF Submit, At, TablesOK, Backed, history
  <2>6. CASE Return(w) BY <2>g, <2>5, <2>6, Returned
  <2>7. CASE Goto(w, "persistPolicies", l)
    <3>1. pc'[w] = "persistPolicies" /\ loc'[w] = l BY <2>7 DEF Goto
    <3>2. l \in Locals /\ l.rev = rev /\ l.row = loc[w].row
      BY <2>1 DEF Locals, Revs
    <3>3. "persistPolicies" \in PCs BY DEF PCs
    <3>4. WorkerOK(w)' BY <2>1, <2>g, <3>1, <3>2, <3>3 DEF WorkerOK, Backed
    <3> QED BY <2>1, <2>g, <2>5, <2>7, <3>2, <3>3, <3>4, Moved
  <2> QED BY <1>7, <2>6, <2>7 DEF Submit
<1>8. CASE PersistPolicies(w)
  <2>1. policies' \in 0..MaxRev
    BY <1>8, <1>w DEF PersistPolicies, At, WorkerOK, TablesOK, Revs
  <2>2. TablesOK'
    BY <1>8, <2>1 DEF PersistPolicies, At, TablesOK, Backed, ApprovalsBacked, history
  <2> QED BY <1>8, <2>2, Returned DEF PersistPolicies, history
<1> QED BY <1>1, <1>2, <1>3, <1>4, <1>5, <1>6, <1>7, <1>8 DEF Write

\* The decisions and the callbacks of route_approval.go.
LEMMA DecideStep == ASSUME Inv, NEW w \in Workers, Decide(w) PROVE Inv'
<1> USE BoundsAssumption
<1> USE DEF Inv, Grows, GrantedFor
<1>w. WorkerOK(w) OBVIOUS
<1>1. ASSUME NEW op \in Decisions, NEW r \in Revs, BeginDecision(w, op, r) PROVE Inv'
  <2> DEFINE l == [op |-> op, rev |-> r, row |-> NoRow, action |-> approvals[r].action]
  <2>1. TablesOK' /\ Grows
    BY <1>1 DEF BeginDecision, Begin, At, TablesOK, Backed, ApprovalsBacked, history
  <2>2. approvals[r].status # "none" /\ approvals[r].action \in Actions
    BY <1>1 DEF BeginDecision, Accepts, TablesOK, Approvals, NoApproval, Actions
  <2>3. (approvals[r].action = "create" => r = 1) /\ r <= lastRev'
    BY <1>1, <2>2 DEF TablesOK, ApprovalsBacked, BeginDecision
  <2>4. l \in Locals BY <2>2 DEF Locals, Rows, NoRow, Revs
  <2>5. Goto(w, "saveApproval", l) BY <1>1 DEF BeginDecision
  <2>6. pc'[w] = "saveApproval" /\ loc'[w] = l BY <2>5 DEF Goto
  <2>7. "saveApproval" \in PCs BY DEF PCs
  <2>8. WorkerOK(w)' BY <2>1, <2>3, <2>4, <2>6, <2>7 DEF WorkerOK, Backed, NoRow
  <2> QED BY <2>1, <2>4, <2>5, <2>7, <2>8, Moved
<1>2. CASE SaveApproval(w)
  <2> DEFINE me == loc[w]
             a == [action |-> me.action, status |-> Outcome(me.op)]
  <2>1. /\ me \in Locals /\ me.op \in Decisions /\ me.rev \in Revs
        /\ me.action = "create" => me.rev = 1
        /\ me.rev <= lastRev /\ lastRev' = lastRev
        /\ Backed(me.row.config)
    BY <1>2, <1>w DEF SaveApproval, At, WorkerOK
  <2>2. a \in Approvals /\ (a.status = "approved" <=> me.op = "approve")
    BY <2>1 DEF Approvals, ApprovalStatus, Outcome, Decisions, Locals
  <2>3. /\ approvals' = [approvals EXCEPT ![me.rev] = a]
        /\ granted' = IF me.op = "approve" /\ me.action # "delete"
                      THEN granted \cup {me.rev} ELSE granted
        /\ grantedDeletes' = IF me.op = "approve" /\ me.action = "delete"
                             THEN grantedDeletes \cup {me.rev} ELSE grantedDeletes
    BY <1>2 DEF SaveApproval
  <2>4. /\ Grows /\ granted' \subseteq Revs /\ grantedDeletes' \subseteq Revs
        /\ me.op = "approve" => me.rev \in IF me.action = "delete" THEN grantedDeletes' ELSE granted'
    BY <2>1, <2>3 DEF TablesOK
  <2>5. approvals' \in [Revs -> Approvals] BY <2>1, <2>2, <2>3 DEF TablesOK
  <2>6. ApprovalsBacked'
    <3>1. \A r \in Revs : approvals'[r] = approvals[r] \/ r = me.rev
      BY <2>1, <2>3 DEF TablesOK
    <3>2. approvals'[me.rev] = a /\ a.action = me.action
      BY <2>1, <2>3 DEF TablesOK
    <3> HIDE DEF a, me
    <3> QED BY <2>1, <2>2, <2>4, <3>1, <3>2 DEF TablesOK, ApprovalsBacked
  <2>o. override' \in Overrides
    BY <1>2 DEF SaveApproval, TablesOK, Overrides
  <2>7. TablesOK'
    BY <1>2, <2>4, <2>5, <2>6, <2>o DEF SaveApproval, At, TablesOK, Backed
  <2>8. Goto(w, "complete", me) BY <1>2 DEF SaveApproval, Continue
  <2>9. pc'[w] = "complete" /\ loc'[w] = me BY <2>8 DEF Goto
  <2>10. "complete" \in PCs BY DEF PCs
  <2>11. WorkerOK(w)' BY <2>1, <2>3, <2>4, <2>9, <2>10 DEF WorkerOK, Backed
  <2> QED BY <2>1, <2>4, <2>7, <2>8, <2>10, <2>11, Moved
<1>3. CASE Complete(w)
  <2> DEFINE me == loc[w]
             l == [me EXCEPT !.row = row]
  <2>1. /\ me \in Locals /\ me.op \in Decisions /\ me.rev \in Revs
        /\ me.action = "create" => me.rev = 1
        /\ me.op = "approve" => me.rev \in GrantedFor(me.action)
        /\ me.rev <= lastRev' /\ UNCHANGED <<granted, grantedDeletes>>
    BY <1>3, <1>w DEF Complete, At, WorkerOK, history
  <2>2. NoRow \in Rows /\ NoRow.config = 0 BY DEF Rows, NoRow
  <2>3. TablesOK' /\ Grows
    BY <1>3, <2>2 DEF Complete, At, TablesOK, Backed, ApprovalsBacked, history
  <2>4. CASE Return(w) BY <2>3, <2>4, Returned
  <2>5. CASE Goto(w, "saveRoute", l) /\ HasRow
    <3>1. pc'[w] = "saveRoute" /\ loc'[w] = l BY <2>5 DEF Goto
    <3>2. /\ l \in Locals /\ l.row = row /\ l.op = me.op /\ l.rev = me.rev
          /\ l.action = me.action
      BY <2>1 DEF TablesOK, Locals
    <3>3. "saveRoute" \in PCs BY DEF PCs
    <3>4. row # NoRow /\ Backed(row.config) BY <2>5 DEF HasRow, TablesOK
    <3>5. WorkerOK(w)' BY <2>1, <2>3, <3>1, <3>2, <3>3, <3>4 DEF WorkerOK, Backed
    <3> QED BY <2>3, <2>5, <3>2, <3>3, <3>5, Moved
  <2> QED BY <1>3, <2>4, <2>5 DEF Complete
<1>4. CASE SaveRoute(w)
  <2> DEFINE me == loc[w]
             next == Target(me.op, me.action)
             snap == Snapshot(me)
  <2>1. /\ me.row \in Rows /\ me.row # NoRow /\ me.rev \in Revs
        /\ Backed(me.row.config)
        /\ me.op = "approve" /\ me.action # "delete" => me.rev \in granted
    BY <1>4, <1>w DEF SaveRoute, At, WorkerOK, Locals
  <2>2. next \in RouteStatus BY DEF Target, RouteStatus
  <2>3. snap \in Rows /\ snap # NoRow /\ Backed(snap.config)
    <3>1. CASE me.op = "approve" /\ me.action # "delete"
      <4>1. snap = [me.row EXCEPT !.config = me.rev] BY <3>1 DEF Snapshot
      <4> QED BY <2>1, <3>1, <4>1, SnapshotRow DEF Backed
    <3>2. CASE ~(me.op = "approve" /\ me.action # "delete")
      <4>1. snap = me.row BY <3>2 DEF Snapshot
      <4> QED BY <2>1, <4>1
    <3> QED BY <3>1, <3>2
  <2>4. row' = row \/ row' = [snap EXCEPT !.status = next]
    BY <1>4 DEF SaveRoute, Save
  <2>5. [snap EXCEPT !.status = next] \in Rows /\ [snap EXCEPT !.status = next].config = snap.config
    BY <2>2, <2>3, SavedRow
  <2>6. row' \in Rows /\ Backed(row'.config) BY <2>3, <2>4, <2>5 DEF TablesOK
  <2>7. override' \in Overrides /\ Grows
    BY <1>4 DEF SaveRoute, TablesOK, history
  <2>8. TablesOK'
    BY <1>4, <2>6, <2>7 DEF SaveRoute, At, TablesOK, Backed, ApprovalsBacked, history
  <2> QED BY <1>4, <2>7, <2>8, Returned DEF SaveRoute
<1> QED BY <1>1, <1>2, <1>3, <1>4 DEF Decide

\* Deploy.
LEMMA DeployStep == ASSUME Inv, NEW w \in Workers, Deploy(w) PROVE Inv'
<1> USE BoundsAssumption
<1> USE DEF Inv, Grows, GrantedFor
<1>w. WorkerOK(w) OBVIOUS
<1>n. NoRow \in Rows /\ NoRow.config = 0 BY DEF Rows, NoRow
<1>1. CASE BeginDeploy(w)
  <2> DEFINE l == Reading("deploy")
  <2>1. TablesOK' /\ Grows
    BY <1>1 DEF BeginDeploy, Begin, At, TablesOK, Backed, ApprovalsBacked, history
  <2>2. row \in Rows /\ row # NoRow /\ Backed(row.config)
    BY <1>1 DEF BeginDeploy, TablesOK, NoRow
  <2>3. l \in Locals /\ l.row = row BY <2>2 DEF Locals, Reading, Actions
  <2>4. Goto(w, "getAction", l) BY <1>1 DEF BeginDeploy
  <2>5. pc'[w] = "getAction" /\ loc'[w] = l BY <2>4 DEF Goto
  <2>6. "getAction" \in PCs BY DEF PCs
  <2>7. WorkerOK(w)' BY <2>1, <2>2, <2>3, <2>5, <2>6 DEF WorkerOK, Backed
  <2> QED BY <2>1, <2>3, <2>4, <2>6, <2>7, Moved
<1>2. CASE GetAction(w)
  <2>f. failures' \in 0..MaxFailures BY <1>2, BoundsAssumption DEF GetAction, CallFails, TablesOK
  <2>1. TablesOK' /\ Grows
    BY <1>2, <2>f DEF GetAction, TablesOK, Backed, ApprovalsBacked, history
  <2>2. loc[w] \in Locals /\ loc[w].row # NoRow /\ Backed(loc[w].row.config)
    BY <1>2, <1>w DEF GetAction, WorkerOK
  <2>3. ASSUME NEW action \in Actions, StartDeploy(w, action),
               action = "create" => 1 \in granted,
               action = "delete" => grantedDeletes # {}
        PROVE  Inv'
    <3> DEFINE label == IF action = "delete" THEN "removePolicies" ELSE "applyRoute"
               l == [loc[w] EXCEPT !.action = action]
    <3>1. l \in Locals /\ l.row = loc[w].row /\ l.action = action
      BY <2>2 DEF Locals
    <3>2. Goto(w, label, l) BY <2>3 DEF StartDeploy
    <3>3. pc'[w] = label /\ loc'[w] = l BY <3>2 DEF Goto
    <3>4. label \in PCs BY DEF PCs
    <3>5. WorkerOK(w)' BY <2>1, <2>2, <2>3, <3>1, <3>3, <3>4 DEF WorkerOK, Backed, Actions
    <3> QED BY <2>1, <3>1, <3>2, <3>4, <3>5, Moved
  <2>4. ASSUME NEW r \in Revs, IsLatestApproved(r), StartDeploy(w, approvals[r].action)
        PROVE  Inv'
    <3>1. approvals[r].status = "approved" BY <2>4 DEF IsLatestApproved, WithStatus
    <3>2. approvals[r].action \in Actions
      BY <3>1 DEF TablesOK, Approvals, NoApproval
    <3>3. /\ approvals[r].action = "create" => 1 \in granted
          /\ approvals[r].action = "delete" => grantedDeletes # {}
      BY <3>1 DEF TablesOK, ApprovalsBacked
    <3> QED BY <2>3, <2>4, <3>2, <3>3
  <2>5. CASE StartDeploy(w, "update") BY <2>3, <2>5 DEF Actions
  <2>6. CASE Return(w) BY <2>1, <2>6, Returned
  <2> QED BY <1>2, <2>4, <2>5, <2>6 DEF GetAction
<1>3. CASE ApplyRoute(w)
  <2>1. /\ loc[w] \in Locals /\ loc[w].row \in Rows /\ loc[w].row # NoRow
        /\ Backed(loc[w].row.config)
        /\ loc[w].action # "update" => 1 \in granted
    BY <1>3, <1>w DEF ApplyRoute, At, WorkerOK, Locals
  <2>2. Grows BY <1>3 DEF ApplyRoute, history
  <2>3. CASE UNCHANGED k8s /\ Return(w)
    <3>1. TablesOK'
      BY <1>3, <2>3 DEF ApplyRoute, At, TablesOK, Backed, ApprovalsBacked, history
    <3> QED BY <2>2, <2>3, <3>1, Returned
  <2>4. CASE /\ ~(loc[w].action = "update" /\ k8s.route = 0)
             /\ k8s' = [k8s EXCEPT !.route = loc[w].row.config]
             /\ Goto(w, "applyPolicies", loc[w])
    <3>1. loc[w].row.config \in Revs BY <2>1 DEF Rows
    <3>2. k8s' \in [route : 0..MaxRev, policies : 0..MaxRev] /\ k8s'.route = loc[w].row.config
      BY <2>4, <3>1 DEF TablesOK, Revs
    <3>3. k8s.route # 0 => 1 \in granted BY DEF TablesOK
    <3>4. 1 \in granted BY <2>1, <2>4, <3>3
    <3>5. k8s'.route \in granted BY <2>1, <3>1, <3>2, <3>4 DEF Backed, Revs
    <3>6. TablesOK'
      BY <1>3, <2>2, <3>2, <3>4, <3>5 DEF ApplyRoute, At, TablesOK, Backed, ApprovalsBacked, history
    <3>7. pc'[w] = "applyPolicies" /\ loc'[w] = loc[w] BY <2>4 DEF Goto
    <3>8. "applyPolicies" \in PCs BY DEF PCs
    <3>9. WorkerOK(w)' BY <2>1, <2>2, <3>7, <3>8 DEF WorkerOK, Backed
    <3> QED BY <2>1, <2>2, <2>4, <3>6, <3>8, <3>9, Moved
  <2> QED BY <1>3, <2>3, <2>4 DEF ApplyRoute, Continue
<1>4. CASE ApplyPolicies(w)
  <2>1. k8s' \in [route : 0..MaxRev, policies : 0..MaxRev] /\ k8s'.route = k8s.route
    BY <1>4 DEF ApplyPolicies, TablesOK
  <2>2. TablesOK' /\ Grows
    BY <1>4, <2>1 DEF ApplyPolicies, At, TablesOK, Backed, ApprovalsBacked, history
  <2>3. Goto(w, "finish", loc[w]) BY <1>4 DEF ApplyPolicies, Continue
  <2>4. pc'[w] = "finish" /\ loc'[w] = loc[w] BY <2>3 DEF Goto
  <2>5. "finish" \in PCs BY DEF PCs
  <2>6. WorkerOK(w)'
    BY <1>4, <1>w, <2>2, <2>4, <2>5 DEF WorkerOK, Backed, ApplyPolicies, At
  <2>7. loc[w] \in Locals BY <1>w DEF WorkerOK
  <2> QED BY <2>2, <2>3, <2>5, <2>6, <2>7, Moved
<1>5. CASE Finish(w)
  <2>1. loc[w].row \in Rows /\ loc[w].row # NoRow /\ Backed(loc[w].row.config)
    BY <1>5, <1>w DEF Finish, At, WorkerOK, Locals
  <2>2. row' = [loc[w].row EXCEPT !.status = "active"] BY <1>5 DEF Finish, Save
  <2>3. "active" \in RouteStatus BY DEF RouteStatus
  <2>4. row' \in Rows /\ row'.config = loc[w].row.config BY <2>1, <2>2, <2>3, SavedRow
  <2>5. TablesOK' /\ Grows
    BY <1>5, <2>1, <2>4 DEF Finish, At, TablesOK, Backed, ApprovalsBacked, history
  <2> QED BY <1>5, <2>5, Returned DEF Finish
<1>6. CASE RemovePolicies(w)
  <2>1. k8s' \in [route : 0..MaxRev, policies : 0..MaxRev] /\ k8s'.route = k8s.route
    BY <1>6 DEF RemovePolicies, CallFails, TablesOK
  <2>2. failures' \in 0..MaxFailures BY <1>6 DEF RemovePolicies, CallFails, TablesOK
  <2>3. TablesOK' /\ Grows
    BY <1>6, <2>1, <2>2 DEF RemovePolicies, TablesOK, Backed, ApprovalsBacked, history
  <2>4. Goto(w, "removeRoute", loc[w]) BY <1>6 DEF RemovePolicies, Continue
  <2>5. pc'[w] = "removeRoute" /\ loc'[w] = loc[w] BY <2>4 DEF Goto
  <2>6. "removeRoute" \in PCs BY DEF PCs
  <2>7. WorkerOK(w)'
    BY <1>6, <1>w, <2>3, <2>5, <2>6 DEF WorkerOK, Backed, RemovePolicies
  <2>8. loc[w] \in Locals BY <1>w DEF WorkerOK
  <2> QED BY <2>3, <2>4, <2>6, <2>7, <2>8, Moved
<1>7. CASE RemoveRoute(w)
  <2>1. k8s' \in [route : 0..MaxRev, policies : 0..MaxRev] /\ k8s'.route = 0
    BY <1>7 DEF RemoveRoute, TablesOK
  <2>2. TablesOK' /\ Grows
    BY <1>7, <2>1 DEF RemoveRoute, At, TablesOK, Backed, ApprovalsBacked, history
  <2>3. Goto(w, "deleteApprovals", loc[w]) BY <1>7 DEF RemoveRoute, Continue
  <2>4. pc'[w] = "deleteApprovals" /\ loc'[w] = loc[w] BY <2>3 DEF Goto
  <2>5. "deleteApprovals" \in PCs BY DEF PCs
  <2>6. WorkerOK(w)'
    BY <1>7, <1>w, <2>2, <2>4, <2>5 DEF WorkerOK, Backed, RemoveRoute, At
  <2>7. loc[w] \in Locals BY <1>w DEF WorkerOK
  <2> QED BY <2>2, <2>3, <2>5, <2>6, <2>7, Moved
<1>8. CASE DeleteApprovals(w)
  <2>1. approvals' \in [Revs -> Approvals] /\ ApprovalsBacked' /\ Grows
    BY <1>8 DEF DeleteApprovals, CallFails, TablesOK, ApprovalsBacked, Approvals, NoApproval, history
  <2>2. failures' \in 0..MaxFailures BY <1>8 DEF DeleteApprovals, CallFails, TablesOK
  <2>3. TablesOK'
    BY <1>8, <2>1, <2>2 DEF DeleteApprovals, TablesOK, Backed, history
  <2>4. Goto(w, "deleteRow", loc[w]) BY <1>8 DEF DeleteApprovals, Continue
  <2>5. pc'[w] = "deleteRow" /\ loc'[w] = loc[w] BY <2>4 DEF Goto
  <2>6. "deleteRow" \in PCs BY DEF PCs
  <2>7. WorkerOK(w)'
    BY <1>8, <1>w, <2>1, <2>5, <2>6 DEF WorkerOK, Backed, DeleteApprovals
  <2>8. loc[w] \in Locals BY <1>w DEF WorkerOK
  <2> QED BY <2>1, <2>3, <2>4, <2>6, <2>7, <2>8, Moved
<1>9. CASE DeleteRow(w)
  <2>1. TablesOK' /\ Grows
    BY <1>9, <1>n DEF DeleteRow, At, TablesOK, Backed, ApprovalsBacked, history
  <2> QED BY <1>9, <2>1, Returned DEF DeleteRow
<1> QED BY <1>1, <1>2, <1>3, <1>4, <1>5, <1>6, <1>7, <1>8, <1>9 DEF Deploy

\* A redeploy queued by a client's change or an attachment.
LEMMA RequeueStep ==
    ASSUME Inv, NEW w \in Workers,
           (\E op \in Requeues : BeginRequeue(w, op)) \/ Requeue(w)
    PROVE  Inv'
<1> USE BoundsAssumption
<1> USE DEF Inv, Grows, GrantedFor
<1>w. WorkerOK(w) OBVIOUS
<1>1. ASSUME NEW op \in Requeues, BeginRequeue(w, op) PROVE Inv'
  <2> DEFINE l == Reading(op)
             label == IF op = "cascade" THEN "requeue" ELSE "getProject"
  <2>1. TablesOK' /\ Grows
    BY <1>1 DEF BeginRequeue, Begin, At, TablesOK, Backed, ApprovalsBacked, history
  <2>2. row \in Rows /\ row # NoRow /\ Backed(row.config)
    BY <1>1 DEF BeginRequeue, HasRow, TablesOK
  <2>3. l \in Locals /\ l.row = row /\ l.op = op BY <2>2 DEF Locals, Reading, Actions
  <2>4. Goto(w, label, l) BY <1>1 DEF BeginRequeue
  <2>5. pc'[w] = label /\ loc'[w] = l BY <2>4 DEF Goto
  <2>6. label \in PCs BY DEF PCs
  <2>7. WorkerOK(w)'
    BY <2>1, <2>2, <2>3, <2>5, <2>6 DEF WorkerOK, Backed, Requeues
  <2> QED BY <2>1, <2>3, <2>4, <2>6, <2>7, Moved
<1>2. CASE Requeue(w)
  <2> DEFINE saved == [loc[w].row EXCEPT !.status = "pending_deploy"]
  <2>1. /\ loc[w].row \in Rows /\ loc[w].row # NoRow /\ Backed(loc[w].row.config)
        /\ loc[w].op \in Actions \cup Decisions \cup Requeues \cup {"deploy", "none"}
    BY <1>2, <1>w DEF Requeue, At, WorkerOK, Locals
  <2>2. "pending_deploy" \in RouteStatus BY DEF RouteStatus
  <2>3. saved \in Rows /\ saved.config = loc[w].row.config BY <2>1, <2>2, SavedRow
  <2>4. row' = row \/ row' = saved BY <1>2 DEF Requeue, Save
  <2>5. row' \in Rows /\ Backed(row'.config) BY <2>1, <2>3, <2>4 DEF TablesOK
  <2>6. Grows BY <1>2 DEF Requeue
  <2>7. override' \in Overrides BY <1>2, <1>w DEF Requeue, At, WorkerOK, TablesOK, Overrides
  <2>8. TablesOK'
    BY <1>2, <2>5, <2>6, <2>7 DEF Requeue, At, TablesOK, Backed, ApprovalsBacked
  <2> QED BY <1>2, <2>6, <2>8, Returned DEF Requeue
<1> QED BY <1>1, <1>2

\* The initial state, and every step.
LEMMA InitInv == Init => Inv
<1> SUFFICES ASSUME Init PROVE Inv OBVIOUS
<1> USE BoundsAssumption
<1>1. Idle \in Locals /\ Idle.row.config = 0 /\ NoRow \in Rows /\ NoRow.config = 0
  BY DEF Idle, Locals, Rows, NoRow, Actions
<1>2. "idle" \in PCs /\ NoApproval \in Approvals /\ "none" \in Overrides
  BY DEF PCs, Approvals, Overrides
<1>b. approvalEnabled \in BOOLEAN /\ overlooked \in BOOLEAN
  BY DEF Init
<1>3. TablesOK
  BY <1>1, <1>2, <1>b DEF Init, TablesOK, Backed, ApprovalsBacked, NoApproval
<1>4. \A w \in Workers : WorkerOK(w)
  BY <1>1, <1>2 DEF Init, WorkerOK, Backed
<1> QED BY <1>1, <1>2, <1>3, <1>4 DEF Init, Inv

LEMMA NextInv == Inv /\ [Next]_vars => Inv'
<1> SUFFICES ASSUME Inv, [Next]_vars PROVE Inv' OBVIOUS
<1>1. ASSUME NEW w \in Workers, Write(w) PROVE Inv' BY <1>1, WriteStep
<1>2. ASSUME NEW w \in Workers, Decide(w) PROVE Inv' BY <1>2, DecideStep
<1>3. ASSUME NEW w \in Workers, Deploy(w) PROVE Inv' BY <1>3, DeployStep
<1>4. ASSUME NEW w \in Workers,
             (\E op \in Requeues : BeginRequeue(w, op)) \/ Requeue(w)
      PROVE  Inv'
  BY <1>4, RequeueStep
<1>5. ASSUME NEW w \in Workers, Fail(w) PROVE Inv'
  <2>1. failures' \in 0..MaxFailures BY <1>5, BoundsAssumption DEF Fail, CallFails, Inv, TablesOK
  <2>2. TablesOK' /\ Grows
    BY <1>5, <2>1 DEF Fail, Inv, TablesOK, Backed, ApprovalsBacked, history, Grows, GrantedFor
  <2> QED BY <1>5, <2>2, Returned DEF Fail
<1>6. CASE Toggle
  BY <1>6 DEF Toggle, Inv, TablesOK, WorkerOK, Backed, ApprovalsBacked, history, GrantedFor
<1>7. CASE UNCHANGED vars
  BY <1>7 DEF vars, Inv, TablesOK, WorkerOK, Backed, ApprovalsBacked, GrantedFor
<1> QED BY <1>1, <1>2, <1>3, <1>4, <1>5, <1>6, <1>7 DEF Next

\* Types: the tables, the cluster objects and the workers' copies stay
\* well-formed; in particular a worker never saves a route it did not read.
THEOREM TypeCorrect == Spec => []TypeOK
<1>1. Inv => TypeOK BY InvIs
<1> QED BY <1>1, InitInv, NextInv, PTL DEF Spec

\* No config that Deploy put into Kubernetes lacks a recorded approval,
\* for any number of concurrent requests, submissions and failing calls.
THEOREM ServedSafety == Spec => []ServedConfigWasApproved
<1>1. Inv => ServedConfigWasApproved BY DEF Inv, TablesOK, ServedConfigWasApproved
<1> QED BY <1>1, InitInv, NextInv, PTL DEF Spec

---------------------------------------------------------------------------
(* RouteLifecycle implements RouteContract. *)

\* Every step of a request is a step of the contract, or none.
LEMMA ContractStep ==
    ASSUME Inv, [Next]_vars
    PROVE  [Contract!Next]_(Contract!vars)
<1> USE BoundsAssumption
<1>t. /\ lastRev \in 0..MaxRev /\ granted \subseteq Revs
      /\ k8s \in [route : 0..MaxRev, policies : 0..MaxRev]
      /\ \A w \in Workers : WorkerOK(w)
  BY DEF Inv, TablesOK
<1>s. ASSUME UNCHANGED <<lastRev, granted, grantedDeletes>>, k8s'.route = k8s.route
      PROVE  [Contract!Next]_(Contract!vars)
  BY <1>s DEF Contract!vars
<1>1. ASSUME NEW w \in Workers, Create(w) PROVE Contract!Next
  BY <1>1 DEF Create, history, Contract!Next, Contract!Submit
<1>2. ASSUME NEW w \in Workers, FastPath(w) PROVE [Contract!Next]_(Contract!vars)
  <2>1. UNCHANGED <<lastRev, grantedDeletes, k8s>>
    BY <1>2 DEF FastPath
  <2>2. CASE loc[w].op # "create"
    BY <1>2, <1>s, <2>1, <2>2 DEF FastPath
  <2>3. CASE loc[w].op = "create"
    <3>1. 1 \in 1..lastRev /\ granted' = granted \cup {1}
      BY <1>2, <1>t, <2>3 DEF FastPath, At, WorkerOK
    <3>2. Contract!Grant(1)
      BY <2>1, <3>1 DEF Contract!Grant
    <3> QED BY <3>1, <3>2 DEF Contract!Next
  <2> QED BY <2>2, <2>3
<1>3. ASSUME NEW w \in Workers, Submit(w) PROVE [Contract!Next]_(Contract!vars)
  <2>1. UNCHANGED <<granted, grantedDeletes, k8s>>
    BY <1>3 DEF Submit, history
  <2>2. CASE loc[w].op = "create"
    BY <1>3, <1>s, <2>1, <2>2 DEF Submit
  <2>3. CASE loc[w].op # "create"
    <3>1. lastRev' = lastRev + 1
      BY <1>3, <2>3 DEF Submit
    <3> QED BY <2>1, <3>1 DEF Contract!Next, Contract!Submit
  <2> QED BY <2>2, <2>3
<1>4. ASSUME NEW w \in Workers, SaveApproval(w) PROVE [Contract!Next]_(Contract!vars)
  <2> DEFINE r == loc[w].rev
  <2>1. UNCHANGED <<lastRev, k8s>> /\ r \in 1..lastRev
    BY <1>4, <1>t DEF SaveApproval, At, WorkerOK, Revs
  <2>2. CASE loc[w].op # "approve"
    BY <1>4, <1>s, <2>1, <2>2 DEF SaveApproval
  <2>3. CASE loc[w].op = "approve" /\ loc[w].action # "delete"
    <3>1. Contract!Grant(r)
      BY <1>4, <2>1, <2>3 DEF SaveApproval, Contract!Grant
    <3> QED BY <2>1, <3>1 DEF Contract!Next
  <2>4. CASE loc[w].op = "approve" /\ loc[w].action = "delete"
    <3>1. Contract!GrantDelete(r)
      BY <1>4, <2>1, <2>4 DEF SaveApproval, Contract!GrantDelete
    <3> QED BY <2>1, <3>1 DEF Contract!Next
  <2> QED BY <2>2, <2>3, <2>4
<1>5. ASSUME NEW w \in Workers, ApplyRoute(w) PROVE [Contract!Next]_(Contract!vars)
  <2> DEFINE c == loc[w].row.config
  <2>1. UNCHANGED <<lastRev, granted, grantedDeletes>>
    BY <1>5 DEF ApplyRoute, history
  <2>2. CASE UNCHANGED k8s
    BY <1>s, <2>1, <2>2
  <2>3. CASE /\ ~(loc[w].action = "update" /\ k8s.route = 0)
             /\ k8s' = [k8s EXCEPT !.route = c]
    <3>1. /\ Backed(c) /\ loc[w].row \in Rows /\ loc[w].row # NoRow
          /\ loc[w].action # "update" => 1 \in granted
      BY <1>5, <1>t DEF ApplyRoute, At, WorkerOK, Locals
    <3>2. 1 \in granted
      BY <2>3, <3>1 DEF Inv, TablesOK
    <3>3. c \in granted
      BY <3>1, <3>2 DEF Backed, Rows, Revs
    <3>4. k8s'.route = c
      BY <1>t, <2>3
    <3>5. Contract!Serve(c)
      BY <2>1, <3>2, <3>4 DEF Contract!Serve
    <3> QED BY <3>3, <3>5 DEF Contract!Next
  <2> QED BY <1>5, <2>2, <2>3 DEF ApplyRoute
<1>6. ASSUME NEW w \in Workers, RemoveRoute(w) PROVE Contract!Next
  <2>1. UNCHANGED <<lastRev, granted, grantedDeletes>> /\ k8s'.route = 0
    BY <1>6, <1>t DEF RemoveRoute, history
  <2>2. grantedDeletes # {}
    BY <1>6, <1>t DEF RemoveRoute, At, WorkerOK
  <2> QED BY <2>1, <2>2 DEF Contract!Next, Contract!Withdraw
<1>7. ASSUME NEW w \in Workers, ApplyPolicies(w) \/ RemovePolicies(w)
      PROVE  [Contract!Next]_(Contract!vars)
  BY <1>7, <1>s, <1>t DEF ApplyPolicies, RemovePolicies, history
<1>8. ASSUME NEW w \in Workers, Write(w) PROVE [Contract!Next]_(Contract!vars)
  BY <1>8, <1>1, <1>2, <1>3, <1>s DEF Write, BeginChange, GetPending, SetPending,
     GetProject, PersistPolicies, history
<1>9. ASSUME NEW w \in Workers, Decide(w) PROVE [Contract!Next]_(Contract!vars)
  BY <1>9, <1>4, <1>s DEF Decide, BeginDecision, Complete, SaveRoute, history
<1>10. ASSUME NEW w \in Workers, Deploy(w) PROVE [Contract!Next]_(Contract!vars)
  BY <1>10, <1>5, <1>6, <1>7, <1>s DEF Deploy, BeginDeploy, GetAction, Finish,
     DeleteApprovals, DeleteRow, history
<1>11. ASSUME NEW w \in Workers,
              (\E op \in Requeues : BeginRequeue(w, op)) \/ Requeue(w) \/ Fail(w)
       PROVE  [Contract!Next]_(Contract!vars)
  BY <1>11, <1>s DEF BeginRequeue, Requeue, Fail, history
<1>12. CASE Toggle \/ UNCHANGED vars
  BY <1>12, <1>s DEF Toggle, vars, history
<1> QED BY <1>8, <1>9, <1>10, <1>11, <1>12 DEF Next

\* The gateway sees only what was granted, in the order the contract allows,
\* for any number of concurrent requests, submissions and failing calls.
THEOREM KeepsRouteContract == Spec => ImplementsRoute
<1>1. Init => Contract!Init
  BY DEF Init, Contract!Init
<1> QED BY <1>1, InitInv, NextInv, ContractStep, PTL DEF Spec, ImplementsRoute, Contract!Spec

---------------------------------------------------------------------------
(* Requests that are served one after the other. *)

Serial == \A v, w \in Workers : v = w
Pending == WithStatus("pending")

\* A write handler between its check for pending approvals and its submission.
Submitting(w) == \/ pc[w] \in {"setPending", "submit", "fastPath"}
                 \/ pc[w] = "getProject" /\ loc[w].op \in Actions
\* A request that runs only when nothing waits for approval.
Settling(w) == \/ pc[w] \in {"complete", "saveRoute", "getAction", "applyRoute", "applyPolicies", "finish",
                              "removePolicies", "removeRoute", "deleteApprovals", "deleteRow"}
               \/ pc[w] = "requeue" /\ loc[w].op = "cascade"
\* A request that has recorded an approval whose config is not in the row yet.
Approving(w) == pc[w] \in {"complete", "saveRoute"} /\ loc[w].op = "approve"

\* Revisions are given out in order and only the last can be pending.
InOrder ==
    /\ \A r \in Revs : approvals[r].status # "none" => r <= lastRev
    /\ \A r \in Pending : r = lastRev
    /\ \A w \in Workers : Submitting(w) => Pending = {} /\ (loc[w].op = "create" => lastRev = 1)
\* What a request has read is still so when it writes.
Fresh ==
    \A w \in Workers :
        /\ pc[w] \notin {"idle", "persistPolicies", "saveApproval", "complete"} => loc[w].row = row
        /\ pc[w] = "saveApproval" => /\ approvals[loc[w].rev].status \in Accepts(loc[w].op)
                                     /\ approvals[loc[w].rev].action = loc[w].action
        /\ pc[w] \in {"getProject", "submit"} /\ loc[w].op \in Actions => row.status = StatusOf(loc[w].op)
        /\ pc[w] \in {"deleteApprovals", "deleteRow"} => k8s.route = 0
\* The route has the status of what is pending.
Matching ==
    override = "none" =>
        /\ \A r \in Pending : row.status = StatusOf(approvals[r].action)
        /\ \A w \in Workers : Settling(w) => Pending = {}
        /\ \A w \in Workers : Approving(w) => /\ row.status = StatusOf(loc[w].action) /\ loc[w].rev = lastRev
                                              /\ approvals[loc[w].rev].action = loc[w].action
\* The row has every approved config, but for the one that is being applied.
Kept ==
    override = "none" /\ failures = 0 /\ HasRow =>
        \A r \in WithStatus("approved") :
            \/ approvals[r].action = "delete"
            \/ row.config >= r
            \/ \E w \in Workers : Approving(w) /\ loc[w].rev = r
SerialInv == InOrder /\ Fresh /\ Matching /\ Kept

\* The invariant, of the one worker there is.
LEMMA OneWorker ==
    ASSUME Serial, NEW w \in Workers,
           InOrder',
           pc'[w] \notin {"idle", "persistPolicies", "saveApproval", "complete"} => loc'[w].row = row',
           pc'[w] = "saveApproval" => /\ approvals'[loc'[w].rev].status \in Accepts(loc'[w].op)
                                      /\ approvals'[loc'[w].rev].action = loc'[w].action,
           pc'[w] \in {"getProject", "submit"} /\ loc'[w].op \in Actions => row'.status = StatusOf(loc'[w].op),
           pc'[w] \in {"deleteApprovals", "deleteRow"} => k8s'.route = 0,
           override' = "none" => \A r \in Pending' : row'.status = StatusOf(approvals'[r].action),
           override' = "none" /\ Settling(w)' => Pending' = {},
           override' = "none" /\ Approving(w)' => /\ row'.status = StatusOf(loc'[w].action) /\ loc'[w].rev = lastRev'
                                                  /\ approvals'[loc'[w].rev].action = loc'[w].action,
           Kept'
    PROVE  SerialInv'
<1>1. \A v \in Workers : v = w
  BY DEF Serial
<1>2. Fresh'
  BY <1>1 DEF Fresh
<1>3. Matching'
  BY <1>1 DEF Matching
<1> QED  BY <1>2, <1>3 DEF SerialInv

\* A worker reads, or calls the cluster: the tables stay.
LEMMA Reads ==
    ASSUME Serial, SerialInv, NEW w \in Workers,
           UNCHANGED <<row, approvals, lastRev, override>>,
           failures' = 0 => failures = 0,
           Submitting(w)' => Pending = {} /\ (loc'[w].op = "create" => lastRev = 1),
           pc'[w] \notin {"idle", "persistPolicies", "saveApproval", "complete"} => loc'[w].row = row,
           pc'[w] = "saveApproval" => /\ approvals[loc'[w].rev].status \in Accepts(loc'[w].op)
                                      /\ approvals[loc'[w].rev].action = loc'[w].action,
           pc'[w] \in {"getProject", "submit"} /\ loc'[w].op \in Actions => row.status = StatusOf(loc'[w].op),
           pc'[w] \in {"deleteApprovals", "deleteRow"} => k8s'.route = 0,
           override = "none" /\ Settling(w)' => Pending = {},
           override = "none" /\ Approving(w)' => /\ row.status = StatusOf(loc'[w].action) /\ loc'[w].rev = lastRev
                                                 /\ approvals[loc'[w].rev].action = loc'[w].action,
           Approving(w) /\ override = "none" /\ failures' = 0 /\ HasRow => Approving(w)' /\ loc'[w].rev = loc[w].rev
    PROVE  SerialInv'
<1>0. (\A v \in Workers : v = w) /\ Pending' = Pending
  BY DEF Serial, Pending, WithStatus
<1>1. InOrder'
  BY <1>0 DEF SerialInv, InOrder
<1>2. Kept'
  <2>1. WithStatus("approved")' = WithStatus("approved") /\ (HasRow' <=> HasRow)
    BY DEF WithStatus, HasRow
  <2> QED  BY <1>0, <2>1 DEF SerialInv, Kept
<1>3. override' = "none" => \A r \in Pending' : row'.status = StatusOf(approvals'[r].action)
  BY <1>0 DEF SerialInv, Matching
<1> QED  BY <1>0, <1>1, <1>2, <1>3, OneWorker

\* A worker writes the row back, or deletes it: the config stays as it is, and
\* nothing waits for approval.
LEMMA Rewrites ==
    ASSUME Serial, SerialInv, NEW w \in Workers,
           UNCHANGED <<approvals, lastRev, k8s, failures>>,
           override' = "none" => override = "none" /\ Pending = {} /\ (HasRow' => HasRow /\ row'.config = row.config),
           pc'[w] \in {"idle", "getProject"},
           pc'[w] = "getProject" => /\ loc'[w].row = row' /\ Pending = {} /\ loc'[w].op \in {"update", "delete"}
                                    /\ row'.status = StatusOf(loc'[w].op),
           HasRow' => ~Approving(w)
    PROVE  SerialInv'
<1>0. (\A v \in Workers : v = w) /\ Pending' = Pending /\ ~Settling(w)' /\ ~Approving(w)'
  BY DEF Serial, Pending, WithStatus, Settling, Approving
<1>1. InOrder'
  BY <1>0 DEF SerialInv, InOrder, Submitting
<1>2. Kept'
  <2>1. WithStatus("approved")' = WithStatus("approved")
    BY DEF WithStatus
  <2> QED  BY <1>0, <2>1 DEF SerialInv, Kept
<1> QED  BY <1>0, <1>1, <1>2, OneWorker

\* Where a worker stands after a step.
LEMMA After ==
    ASSUME Inv, NEW w \in Workers, NEW label, NEW locals, Goto(w, label, locals)
    PROVE  pc'[w] = label /\ loc'[w] = locals
BY DEF Inv, Goto
LEMMA AfterReturn ==
    ASSUME Inv, NEW w \in Workers, Return(w)
    PROVE  pc'[w] = "idle" /\ loc'[w] = Idle
BY After DEF Return

LEMMA SerialFail ==
    ASSUME Serial, Inv, SerialInv, NEW w \in Workers, Return(w), failures' = failures + 1 \/ ~HasRow \/ ~Approving(w),
           UNCHANGED <<row, approvals, lastRev, override>>, failures' = failures \/ failures' = failures + 1
    PROVE  SerialInv'
<1>1. pc'[w] = "idle" /\ loc'[w] = Idle /\ failures \in Nat
  BY AfterReturn, BoundsAssumption DEF Inv, TablesOK
<1>2. ~Submitting(w)' /\ ~Settling(w)' /\ ~Approving(w)'
  BY <1>1 DEF Submitting, Settling, Approving
<1> QED  BY <1>1, <1>2, Reads

LEMMA SerialWrite ==
    ASSUME Serial, Inv, SerialInv, NEW w \in Workers, Write(w), ~overlooked'
    PROVE  SerialInv'
<1> USE DEF At
<1>0. WorkerOK(w) /\ TablesOK
  BY DEF Inv
<1>i. /\ InOrder
      /\ Submitting(w) => Pending = {} /\ (loc[w].op = "create" => lastRev = 1)
      /\ pc[w] \notin {"idle", "persistPolicies", "saveApproval", "complete"} => loc[w].row = row
      /\ pc[w] \in {"getProject", "submit"} /\ loc[w].op \in Actions => row.status = StatusOf(loc[w].op)
  BY DEF SerialInv, InOrder, Fresh
<1>1. CASE Create(w)
  <2>1. /\ lastRev = 0 /\ row' = [status |-> "pending_create", config |-> 1] /\ lastRev' = 1 /\ pc'[w] = "getProject"
        /\ loc'[w] = [op |-> "create", rev |-> 1, action |-> "create", row |-> row']
        /\ UNCHANGED <<approvals, override>>
    BY <1>1, After DEF Create, history
  <2>2. \A r \in Revs : approvals[r].status = "none"
    BY <1>i, <2>1 DEF InOrder, Revs
  <2>3. Pending' = {} /\ WithStatus("approved")' = {}
    BY <2>1, <2>2 DEF Pending, WithStatus
  <2>4. InOrder'
    BY <2>1, <2>2, <2>3 DEF InOrder
  <2>5. Kept'
    BY <2>3 DEF Kept
  <2>6. ~Settling(w)' /\ ~Approving(w)'
    BY <2>1 DEF Settling, Approving
  <2>7. row'.status = StatusOf(loc'[w].op) /\ loc'[w].row = row'
    BY <2>1 DEF StatusOf
  <2> QED  BY <2>1, <2>3, <2>4, <2>5, <2>6, <2>7, OneWorker
<1>2. ASSUME NEW op \in {"update", "delete"}, BeginChange(w, op)
      PROVE  SerialInv'
  <2>1. /\ pc'[w] = "getPending" /\ loc'[w].row = row /\ ~Approving(w)
        /\ UNCHANGED <<row, approvals, lastRev, override, failures, k8s>>
    BY <1>2, After DEF BeginChange, Begin, history, Approving
  <2>2. ~Submitting(w)' /\ ~Settling(w)' /\ ~Approving(w)'
    BY <2>1 DEF Submitting, Settling, Approving
  <2> QED  BY <2>1, <2>2, Reads
<1>3. CASE GetPending(w)
  <2>0. /\ pc[w] = "getPending" /\ UNCHANGED <<row, approvals, lastRev, override, k8s>> /\ ~Approving(w)
        /\ failures \in Nat /\ (failures' = failures \/ failures' = failures + 1)
    BY <1>0, <1>3, BoundsAssumption DEF GetPending, CallFails, TablesOK, Approving
  <2>1. CASE Return(w)
    BY <2>0, <2>1, SerialFail
  <2>2. CASE ~Return(w)
    <3>0. Pending = {} BY <1>3, <2>2 DEF GetPending, HasPending, Pending
    <3>1. pc'[w] = "setPending" /\ loc'[w] = loc[w] /\ Pending = {} /\ loc[w].op # "create"
      BY <1>0, <1>3, <2>0, <2>2, <3>0, After DEF GetPending, Continue, WorkerOK
    <3>2. ~Settling(w)' /\ ~Approving(w)'
      BY <3>1 DEF Settling, Approving
    <3> QED  BY <1>i, <2>0, <3>1, <3>2, Reads
  <2> QED  BY <2>1, <2>2
<1>4. CASE SetPending(w)
  <2> DEFINE op == loc[w].op
             next == IF op = "update" THEN "pending_update" ELSE "pending_delete"
             saved == [loc[w].row EXCEPT !.status = next]
             l == [loc[w] EXCEPT !.row.status = next]
  <2>0. /\ pc[w] = "setPending" /\ UNCHANGED <<approvals, lastRev, override, failures, k8s>> /\ ~Approving(w)
        /\ Pending = {} /\ loc[w].row = row /\ op \in {"update", "delete"} /\ loc[w] \in Locals /\ row \in Rows /\ HasRow
    BY <1>0, <1>4, <1>i DEF SetPending, history, Approving, Submitting, WorkerOK, TablesOK, HasRow
  <2>1. CASE Return(w) /\ UNCHANGED row
    BY <2>0, <2>1, SerialFail
  <2>2. CASE ~(Return(w) /\ UNCHANGED row)
    <3>1. /\ pc'[w] = "getProject" /\ loc'[w] = l
          /\ row' = saved \/ (row' = row /\ loc[w].row.status = next)
      BY <1>4, <2>2, After DEF SetPending, Save
    <3>2. saved.status = next /\ saved.config = row.config /\ (row.status = next => saved = row)
      BY <2>0 DEF Rows, NoRow, HasRow
    <3>3. l.row = saved /\ l.op = op
      BY <2>0 DEF Locals
    <3>4. row' = saved /\ next = StatusOf(op)
      BY <2>0, <3>1, <3>2 DEF StatusOf
    <3> HIDE DEF l, saved, next
    <3>5. /\ loc'[w].row = row' /\ loc'[w].op \in {"update", "delete"} /\ row'.status = StatusOf(loc'[w].op)
          /\ row'.config = row.config
      BY <2>0, <3>1, <3>2, <3>3, <3>4
    <3> QED  BY <2>0, <3>1, <3>5, Rewrites
  <2> QED  BY <2>1, <2>2
<1>5. CASE GetProject(w)
  <2>0. pc[w] = "getProject" /\ UNCHANGED <<row, approvals, lastRev, override, failures, k8s>> /\ ~Approving(w)
    BY <1>5 DEF GetProject, history, Approving
  <2>1. CASE Return(w)
    BY <2>0, <2>1, SerialFail
  <2>2. CASE ~Return(w)
    <3>1. /\ loc'[w] = loc[w]
          /\ pc'[w] = IF loc[w].op = "attach" THEN "requeue" ELSE IF approvalEnabled THEN "submit" ELSE "fastPath"
      BY <1>5, <2>2, After DEF GetProject, Continue
    <3>2. ~Settling(w)' /\ ~Approving(w)'
      BY <3>1 DEF Settling, Approving
    <3>3. Submitting(w)' => Submitting(w)
      BY <1>0, <2>0, <3>1 DEF Submitting, WorkerOK
    <3> QED  BY <1>i, <2>0, <3>1, <3>2, <3>3, Reads
  <2> QED  BY <2>1, <2>2
<1>6. CASE FastPath(w)
  <2>0. /\ pc[w] = "fastPath" /\ UNCHANGED <<approvals, lastRev, override, failures, k8s>> /\ ~Approving(w)
        /\ Pending = {} /\ loc[w].row = row /\ row \in Rows /\ HasRow /\ pc'[w] = "idle"
    BY <1>0, <1>6, <1>i, AfterReturn DEF FastPath, Approving, Submitting, WorkerOK, TablesOK, HasRow
  <2>1. row'.config = row.config
    BY <1>6, <2>0 DEF FastPath, Save, Rows, NoRow, HasRow
  <2> QED  BY <2>0, <2>1, Rewrites
<1>7. CASE Submit(w)
  <2> DEFINE op == loc[w].op
             rev == IF op = "create" THEN 1 ELSE lastRev + 1
             a == [action |-> op, status |-> "pending"]
  <2>0. /\ pc[w] = "submit" /\ UNCHANGED <<row, override, failures, k8s>> /\ ~Approving(w)
        /\ Pending = {} /\ loc[w].row = row /\ op \in Actions /\ row.status = StatusOf(op) /\ rev \in Revs
        /\ approvals' = [approvals EXCEPT ![rev] = a] /\ lastRev' = rev
    BY <1>0, <1>7, <1>i DEF Submit, history, Approving, Submitting, WorkerOK
  <2>1. pc'[w] \in {"idle", "persistPolicies"}
    BY <1>7, After, AfterReturn DEF Submit
  <2>2. rev >= lastRev /\ lastRev \in Nat /\ rev \in Nat
    BY <1>0, <1>i, <2>0, BoundsAssumption DEF TablesOK, Submitting, Revs
  <2>3. approvals \in [Revs -> Approvals] /\ a.status = "pending" /\ a.action = op
    BY <1>0 DEF TablesOK
  <2> HIDE DEF a, rev
  <2>4. approvals'[rev] = a /\ \A r \in Revs : r # rev => approvals'[r] = approvals[r]
    BY <2>0, <2>3
  <2>5. Pending' = {rev}
    BY <2>0, <2>3, <2>4 DEF Pending, WithStatus
  <2>6. WithStatus("approved")' \subseteq WithStatus("approved") \ {rev}
    BY <2>0, <2>3, <2>4 DEF WithStatus
  <2>7. ~Submitting(w)' /\ ~Settling(w)' /\ ~Approving(w)'
    BY <2>1 DEF Submitting, Settling, Approving
  <2>8. InOrder'
    <3>1. \A r \in Revs : approvals'[r].status # "none" => r <= lastRev'
      BY <1>i, <2>0, <2>2, <2>4 DEF InOrder, Revs
    <3>2. \A v \in Workers : v = w
      BY DEF Serial
    <3> QED  BY <2>0, <2>5, <2>7, <3>1, <3>2 DEF InOrder
  <2>9. Kept'
    <3>1. \A v \in Workers : ~Approving(v)
      BY <2>0 DEF Serial
    <3> QED  BY <2>0, <2>4, <2>6, <3>1 DEF SerialInv, Kept, HasRow, WithStatus
  <2> QED  BY <2>0, <2>1, <2>3, <2>4, <2>5, <2>7, <2>8, <2>9, OneWorker
<1>8. CASE PersistPolicies(w)
  <2>0. pc[w] = "persistPolicies" /\ UNCHANGED <<row, approvals, lastRev, override, failures, k8s>> /\ ~Approving(w) /\ Return(w)
    BY <1>8 DEF PersistPolicies, history, Approving
  <2> QED  BY <2>0, SerialFail
<1> QED  BY <1>1, <1>2, <1>3, <1>4, <1>5, <1>6, <1>7, <1>8 DEF Write

LEMMA SerialDecide ==
    ASSUME Serial, Inv, SerialInv, NEW w \in Workers, Decide(w)
    PROVE  SerialInv'
<1> USE DEF At
<1>0. WorkerOK(w) /\ TablesOK
  BY DEF Inv
<1>i. /\ InOrder
      /\ pc[w] \notin {"idle", "persistPolicies", "saveApproval", "complete"} => loc[w].row = row
      /\ pc[w] = "saveApproval" => /\ approvals[loc[w].rev].status \in Accepts(loc[w].op)
                                   /\ approvals[loc[w].rev].action = loc[w].action
      /\ override = "none" => /\ \A r \in Pending : row.status = StatusOf(approvals[r].action)
                              /\ Settling(w) => Pending = {}
                              /\ Approving(w) => /\ row.status = StatusOf(loc[w].action) /\ loc[w].rev = lastRev
                                                 /\ approvals[loc[w].rev].action = loc[w].action
  BY DEF SerialInv, Fresh, Matching
<1>1. ASSUME NEW op \in Decisions, NEW r \in Revs, BeginDecision(w, op, r)
      PROVE  SerialInv'
  <2>1. /\ pc'[w] = "saveApproval" /\ ~Approving(w)
        /\ loc'[w] = [op |-> op, rev |-> r, row |-> NoRow, action |-> approvals[r].action]
        /\ approvals[r].status \in Accepts(op)
        /\ UNCHANGED <<row, approvals, lastRev, override, failures, k8s>>
    BY <1>1, After DEF BeginDecision, Begin, history, Approving
  <2>2. ~Submitting(w)' /\ ~Settling(w)' /\ ~Approving(w)'
    BY <2>1 DEF Submitting, Settling, Approving
  <2> QED  BY <2>1, <2>2, Reads
<1>2. CASE SaveApproval(w)
  <2> DEFINE me == loc[w]
             a == [action |-> me.action, status |-> Outcome(me.op)]
  <2>0. /\ pc[w] = "saveApproval" /\ UNCHANGED <<row, lastRev, failures, k8s>> /\ ~Approving(w)
        /\ approvals' = [approvals EXCEPT ![me.rev] = a] /\ pc'[w] = "complete" /\ loc'[w] = me
        /\ me.rev \in Revs /\ me.op \in Decisions
        /\ approvals[me.rev].status \in Accepts(me.op) /\ approvals[me.rev].action = me.action
        /\ override' = IF me.op = "cancel" /\ approvals[me.rev].status = "approved" THEN "cancel" ELSE override
    BY <1>0, <1>2, <1>i, After DEF SaveApproval, Approving, WorkerOK, Continue
  <2>1. approvals \in [Revs -> Approvals] /\ a.status = Outcome(me.op) /\ a.action = me.action
    BY <1>0 DEF TablesOK
  <2>2. a.status \in {"approved", "rejected", "cancelled"} /\ (a.status = "approved" <=> me.op = "approve")
    BY <2>0, <2>1 DEF Outcome, Decisions
  <2> HIDE DEF a
  <2>3. approvals'[me.rev] = a /\ \A r \in Revs : r # me.rev => approvals'[r] = approvals[r]
    BY <2>0, <2>1
  <2>4. approvals[me.rev].status \in {"pending", "approved"} /\ me.rev <= lastRev
    BY <1>i, <2>0 DEF Accepts, InOrder
  <2>5. Pending' \subseteq Pending \ {me.rev}
    BY <2>0, <2>2, <2>3 DEF Pending, WithStatus
  <2>6. override' = "none" => override = "none" /\ Pending' = {} /\ me.rev = lastRev /\ row.status = StatusOf(me.action)
    <3>1. SUFFICES ASSUME override' = "none"
                   PROVE  override = "none" /\ Pending' = {} /\ me.rev = lastRev /\ row.status = StatusOf(me.action)
      OBVIOUS
    <3>2. override = "none" /\ me.rev \in Pending
      BY <2>0, <3>1 DEF Accepts, Pending, WithStatus
    <3> QED  BY <1>i, <2>0, <2>5, <3>2 DEF InOrder
  <2>7. ~Submitting(w)' /\ (Approving(w)' <=> me.op = "approve")
    BY <2>0 DEF Submitting, Approving
  <2>8. InOrder'
    <3>1. \A r \in Revs : approvals'[r].status # "none" => r <= lastRev'
      BY <1>i, <2>0, <2>3, <2>4 DEF InOrder
    <3>2. \A v \in Workers : v = w
      BY DEF Serial
    <3> QED  BY <1>i, <2>0, <2>5, <2>7, <3>1, <3>2 DEF InOrder
  <2>9. Kept'
    <3>1. \A v \in Workers : ~Approving(v)
      BY <2>0 DEF Serial
    <3> SUFFICES ASSUME override' = "none", failures = 0, HasRow, NEW r \in Revs, approvals'[r].status = "approved"
                 PROVE  \/ approvals'[r].action = "delete"
                        \/ row.config >= r
                        \/ Approving(w)' /\ loc'[w].rev = r
      BY <2>0 DEF Kept, HasRow, WithStatus
    <3>2. CASE r = me.rev
      BY <2>0, <2>2, <2>3, <2>7, <3>2
    <3>3. CASE r # me.rev
      BY <2>3, <2>6, <3>1, <3>3 DEF SerialInv, Kept, WithStatus
    <3> QED  BY <3>2, <3>3
  <2> QED  BY <2>0, <2>1, <2>3, <2>6, <2>7, <2>8, <2>9, OneWorker
<1>3. CASE Complete(w)
  <2>0. pc[w] = "complete" /\ UNCHANGED <<approvals, lastRev, override, failures, k8s>> /\ Settling(w) /\ loc[w] \in Locals
    BY <1>0, <1>3 DEF Complete, history, Settling, WorkerOK
  <2>1. CASE loc[w].op = "cancel" /\ loc[w].action = "create"
    <3>1. row' = NoRow /\ pc'[w] = "idle"
      BY <1>3, <2>1, AfterReturn DEF Complete
    <3> QED  BY <1>i, <2>0, <3>1, Rewrites DEF HasRow
  <2>2. CASE ~(loc[w].op = "cancel" /\ loc[w].action = "create") /\ ~HasRow
    <3>1. row' = row /\ Return(w)
      BY <1>3, <2>2 DEF Complete
    <3> QED  BY <2>0, <2>2, <3>1, SerialFail
  <2>3. CASE ~(loc[w].op = "cancel" /\ loc[w].action = "create") /\ HasRow
    <3>1. row' = row /\ pc'[w] = "saveRoute" /\ loc'[w] = [loc[w] EXCEPT !.row = row]
      BY <1>3, <2>3, After DEF Complete
    <3>2. loc'[w].row = row /\ loc'[w].op = loc[w].op /\ loc'[w].rev = loc[w].rev /\ loc'[w].action = loc[w].action
      BY <2>0, <3>1 DEF Locals
    <3>3. ~Submitting(w)' /\ (Approving(w)' <=> Approving(w))
      BY <2>0, <3>1, <3>2 DEF Submitting, Approving
    <3> QED  BY <1>i, <2>0, <3>1, <3>2, <3>3, Reads
  <2> QED  BY <2>1, <2>2, <2>3
<1>4. CASE SaveRoute(w)
  <2> DEFINE me == loc[w]
             next == Target(me.op, me.action)
             writes == /\ Allowed(CallbackSite(me.op), me.row.status, next)
                       /\ me.op = "approve" \/ me.row.status # next
  <2>0. /\ pc[w] = "saveRoute" /\ UNCHANGED <<approvals, lastRev, override, failures, k8s>> /\ Settling(w)
        /\ me.row = row /\ HasRow /\ row \in Rows /\ me \in Locals /\ me.rev \in Revs /\ me.op \in Decisions
        /\ pc'[w] = "idle" /\ Return(w)
    BY <1>0, <1>4, <1>i, AfterReturn DEF SaveRoute, history, Settling, WorkerOK, TablesOK, HasRow
  <2>n. ~Submitting(w)' /\ ~Settling(w)' /\ ~Approving(w)'
    BY <2>0 DEF Submitting, Settling, Approving
  <2>a. override = "none" /\ me.op = "approve" => writes
    <3>1. SUFFICES ASSUME override = "none", me.op = "approve"
                   PROVE  Allowed("ApprovalApproved", row.status, next)
      BY <2>0 DEF CallbackSite
    <3>2. row.status = StatusOf(me.action) /\ me.action \in Actions
      BY <1>i, <2>0, <3>1 DEF Approving, Locals
    <3> QED  BY <3>1, <3>2 DEF Allowed, LegalTransitions, StatusOf, Target, Actions
  <2>1. CASE ~writes
    <3>1. row' = row
      BY <1>4, <2>1 DEF SaveRoute
    <3>2. Approving(w) => override # "none"
      BY <2>1, <2>a DEF Approving
    <3> QED  BY <2>0, <2>n, <3>1, <3>2, Reads
  <2>2. CASE writes /\ me.op # "approve"
    <3>1. row' = [row EXCEPT !.status = next]
      BY <1>4, <2>0, <2>2 DEF SaveRoute, Save, Snapshot
    <3>2. row'.config = row.config
      BY <2>0, <3>1 DEF Rows, NoRow, HasRow
    <3> QED  BY <1>i, <2>0, <2>2, <3>2, Rewrites DEF Approving
  <2>3. CASE writes /\ me.op = "approve"
    <3>1. row' = [Snapshot(me) EXCEPT !.status = next]
      BY <1>4, <2>3 DEF SaveRoute, Save
    <3>2. row'.config = IF me.action = "delete" THEN row.config ELSE me.rev
      BY <2>0, <2>3, <3>1 DEF Snapshot, Rows, NoRow, HasRow
    <3>3. Pending' = Pending /\ WithStatus("approved")' = WithStatus("approved") /\ Approving(w) /\ \A v \in Workers : v = w
      BY <2>0, <2>3 DEF Pending, WithStatus, Approving, Serial
    <3>4. InOrder'
      BY <1>i, <2>0, <2>n, <3>3 DEF InOrder
    <3>5. Kept'
      <4> SUFFICES ASSUME override = "none", failures = 0, NEW r \in Revs, approvals[r].status = "approved",
                          approvals[r].action # "delete"
                   PROVE  row'.config >= r
        BY <2>0 DEF Kept, HasRow, WithStatus
      <4>1. me.rev = lastRev /\ approvals[me.rev].action = me.action
        BY <1>i, <3>3
      <4>2. r <= me.rev /\ me.rev \in Nat
        BY <1>i, <2>0, <4>1 DEF InOrder, Revs
      <4>3. row.config >= r \/ me.rev = r
        BY <2>0, <3>3 DEF SerialInv, Kept, WithStatus
      <4>4. CASE me.action = "delete"
        BY <3>2, <4>1, <4>3, <4>4
      <4>5. CASE me.action # "delete"
        BY <3>2, <4>2, <4>5 DEF Revs
      <4> QED  BY <4>4, <4>5
    <3> QED  BY <1>i, <2>0, <2>n, <3>3, <3>4, <3>5, OneWorker
  <2> QED  BY <2>1, <2>2, <2>3
<1> QED  BY <1>1, <1>2, <1>3, <1>4 DEF Decide

\* Nothing is pending while the route has another status.
LEMMA NothingPending ==
    ASSUME Inv, SerialInv, override = "none", row.status \notin {"pending_create", "pending_update", "pending_delete"}
    PROVE  Pending = {}
<1>1. \A r \in Pending : approvals[r].action \in Actions
  BY DEF Inv, TablesOK, Approvals, NoApproval, Pending, WithStatus, Actions
<1> QED  BY <1>1 DEF SerialInv, Matching, StatusOf, Actions

LEMMA SerialDeploy ==
    ASSUME Serial, Inv, SerialInv, NEW w \in Workers, Deploy(w)
    PROVE  SerialInv'
<1> USE DEF At
<1>0. WorkerOK(w) /\ TablesOK
  BY DEF Inv
<1>i. /\ InOrder
      /\ pc[w] \notin {"idle", "persistPolicies", "saveApproval", "complete"} => loc[w].row = row
      /\ pc[w] \in {"deleteApprovals", "deleteRow"} => k8s.route = 0
      /\ override = "none" /\ Settling(w) => Pending = {}
  BY DEF SerialInv, Fresh, Matching
<1>1. CASE BeginDeploy(w)
  <2>1. /\ pc'[w] = "getAction" /\ loc'[w].row = row /\ ~Approving(w) /\ row.status \in {"approved", "pending_deploy"}
        /\ UNCHANGED <<row, approvals, lastRev, override, failures, k8s>>
    BY <1>1, After DEF BeginDeploy, Begin, history, Approving, Reading
  <2>2. ~Submitting(w)' /\ ~Approving(w)'
    BY <2>1 DEF Submitting, Approving
  <2>3. override = "none" => Pending = {}
    BY <2>1, NothingPending
  <2> QED  BY <2>1, <2>2, <2>3, Reads
<1>2. CASE GetAction(w)
  <2>0. /\ pc[w] = "getAction" /\ UNCHANGED <<row, approvals, lastRev, override, k8s>> /\ ~Approving(w)
        /\ Settling(w) /\ loc[w].row = row /\ loc[w] \in Locals
        /\ failures \in Nat /\ (failures' = failures \/ failures' = failures + 1)
    BY <1>0, <1>2, <1>i, BoundsAssumption DEF GetAction, CallFails, history, Approving, Settling, WorkerOK, TablesOK
  <2>1. CASE Return(w)
    BY <2>0, <2>1, SerialFail
  <2>2. ASSUME NEW action, StartDeploy(w, action)
        PROVE  SerialInv'
    <3>1. pc'[w] \in {"removePolicies", "applyRoute"} /\ loc'[w] = [loc[w] EXCEPT !.action = action]
      BY <2>2, After DEF StartDeploy
    <3>2. loc'[w].row = row
      BY <2>0, <3>1 DEF Locals
    <3>3. ~Submitting(w)' /\ ~Approving(w)'
      BY <3>1 DEF Submitting, Approving
    <3>4. failures' = 0 => failures = 0
      BY <2>0
    <3>5. override = "none" => Pending = {}
      BY <1>i, <2>0
    <3> QED  BY <2>0, <3>1, <3>2, <3>3, <3>4, <3>5, Reads
  <2> QED  BY <1>2, <2>1, <2>2 DEF GetAction
<1>3. ASSUME NEW next \in {"applyPolicies", "finish", "removeRoute", "deleteApprovals"}, Goto(w, next, loc[w]),
             pc[w] \in {"applyRoute", "applyPolicies", "removePolicies", "removeRoute"},
             UNCHANGED <<row, approvals, lastRev, override>>, failures' = failures \/ failures' = failures + 1,
             next = "deleteApprovals" => k8s'.route = 0
      PROVE  SerialInv'
  <2>1. pc'[w] = next /\ loc'[w] = loc[w] /\ failures \in Nat
    BY <1>0, <1>3, After, BoundsAssumption DEF TablesOK
  <2>2. ~Submitting(w)' /\ ~Approving(w)' /\ ~Approving(w) /\ Settling(w)
    BY <1>3, <2>1 DEF Submitting, Approving, Settling
  <2> QED  BY <1>3, <1>i, <2>1, <2>2, Reads
<1>4. CASE ApplyRoute(w)
  <2>0. pc[w] = "applyRoute" /\ UNCHANGED <<row, approvals, lastRev, override, failures>> /\ ~Approving(w)
    BY <1>4 DEF ApplyRoute, history, Approving
  <2> QED  BY <1>3, <1>4, <2>0, SerialFail DEF ApplyRoute, Continue
<1>5. CASE ApplyPolicies(w)
  BY <1>3, <1>5 DEF ApplyPolicies, Continue, history
<1>6. CASE RemovePolicies(w)
  BY <1>3, <1>6 DEF RemovePolicies, CallFails, Continue, history
<1>7. CASE RemoveRoute(w)
  <2>1. k8s'.route = 0
    BY <1>0, <1>7 DEF RemoveRoute, TablesOK
  <2> QED  BY <1>3, <1>7, <2>1 DEF RemoveRoute, Continue, history
<1>8. CASE Finish(w)
  <2>0. /\ pc[w] = "finish" /\ UNCHANGED <<approvals, lastRev, override, failures, k8s>> /\ ~Approving(w) /\ Settling(w)
        /\ loc[w].row = row /\ row \in Rows /\ HasRow /\ pc'[w] = "idle"
    BY <1>0, <1>8, <1>i, AfterReturn DEF Finish, history, Approving, Settling, WorkerOK, TablesOK, HasRow
  <2>1. row'.config = row.config
    BY <1>8, <2>0 DEF Finish, Save, Rows, NoRow, HasRow
  <2> QED  BY <1>i, <2>0, <2>1, Rewrites
<1>9. CASE DeleteApprovals(w)
  <2>0. /\ pc[w] = "deleteApprovals" /\ UNCHANGED <<row, lastRev, override, k8s>> /\ ~Approving(w) /\ Settling(w)
        /\ loc[w].row = row /\ pc'[w] = "deleteRow" /\ loc'[w] = loc[w] /\ k8s.route = 0 /\ failures \in Nat
        /\ failures' = failures \/ failures' = failures + 1
    BY <1>0, <1>9, <1>i, After, BoundsAssumption DEF DeleteApprovals, CallFails, Continue, history, Approving, Settling, TablesOK
  <2>n. ~Submitting(w)' /\ ~Approving(w)'
    BY <2>0 DEF Submitting, Approving
  <2>1. CASE approvals' = approvals
    BY <1>i, <2>0, <2>1, <2>n, Reads
  <2>2. CASE approvals' = [r \in Revs |-> NoApproval]
    <3>1. Pending' = {} /\ WithStatus("approved")' = {} /\ \A r \in Revs : approvals'[r].status = "none"
      BY <2>2 DEF Pending, WithStatus, NoApproval
    <3>2. InOrder' /\ Kept'
      BY <3>1, <2>0, <2>n DEF InOrder, Kept, Serial
    <3> QED  BY <2>0, <2>n, <3>1, <3>2, OneWorker
  <2> QED  BY <1>9, <2>1, <2>2 DEF DeleteApprovals
<1>10. CASE DeleteRow(w)
  <2>0. /\ pc[w] = "deleteRow" /\ UNCHANGED <<approvals, lastRev, override, failures, k8s>> /\ Settling(w)
        /\ row' = NoRow /\ pc'[w] = "idle"
    BY <1>10, AfterReturn DEF DeleteRow, history, Settling
  <2> QED  BY <1>i, <2>0, Rewrites DEF HasRow
<1> QED  BY <1>1, <1>2, <1>4, <1>5, <1>6, <1>7, <1>8, <1>9, <1>10 DEF Deploy

LEMMA SerialRequeue ==
    ASSUME Serial, Inv, SerialInv, NEW w \in Workers, (\E op \in Requeues : BeginRequeue(w, op)) \/ Requeue(w)
    PROVE  SerialInv'
<1> USE DEF At
<1>0. WorkerOK(w) /\ TablesOK
  BY DEF Inv
<1>i. /\ pc[w] \notin {"idle", "persistPolicies", "saveApproval", "complete"} => loc[w].row = row
      /\ override = "none" /\ Settling(w) => Pending = {}
  BY DEF SerialInv, Fresh, Matching
<1>1. ASSUME NEW op \in Requeues, BeginRequeue(w, op)
      PROVE  SerialInv'
  <2>1. /\ pc'[w] = (IF op = "cascade" THEN "requeue" ELSE "getProject") /\ loc'[w].row = row /\ loc'[w].op = op
        /\ ~Approving(w) /\ (op = "cascade" => row.status = "active")
        /\ UNCHANGED <<row, approvals, lastRev, override, failures, k8s>>
    BY <1>1, After DEF BeginRequeue, Begin, history, Approving, Reading
  <2>2. ~Submitting(w)' /\ ~Approving(w)' /\ (Settling(w)' => op = "cascade") /\ op \notin Actions
    BY <2>1 DEF Submitting, Approving, Settling, Requeues, Actions
  <2>3. op = "cascade" /\ override = "none" => Pending = {}
    BY <2>1, NothingPending
  <2> QED  BY <2>1, <2>2, <2>3, Reads
<1>2. CASE Requeue(w)
  <2>0. /\ pc[w] = "requeue" /\ UNCHANGED <<approvals, lastRev, failures, k8s>> /\ ~Approving(w) /\ Return(w)
        /\ loc[w].row = row /\ row \in Rows /\ HasRow /\ pc'[w] = "idle" /\ loc[w].op \in Requeues
    BY <1>0, <1>2, <1>i, AfterReturn DEF Requeue, Approving, WorkerOK, TablesOK, HasRow
  <2>1. CASE row' = row /\ override' = override
    BY <2>0, <2>1, SerialFail
  <2>2. CASE ~(row' = row /\ override' = override)
    <3>1. row' = [row EXCEPT !.status = "pending_deploy"] /\ override' = IF loc[w].op = "attach" THEN "attach" ELSE override
      BY <1>2, <2>0, <2>2 DEF Requeue, Save
    <3>2. row'.config = row.config
      BY <2>0, <3>1 DEF Rows, NoRow, HasRow
    <3>3. override' = "none" => override = "none" /\ Settling(w)
      BY <2>0, <3>1 DEF Settling, Requeues
    <3> QED  BY <1>i, <2>0, <3>2, <3>3, Rewrites
  <2> QED  BY <2>1, <2>2
<1> QED  BY <1>1, <1>2

LEMMA SerialInit == ASSUME Init PROVE SerialInv
<1>1. \A w \in Workers : pc[w] = "idle"
  BY DEF Init
<1>2. Pending = {} /\ WithStatus("approved") = {} /\ \A r \in Revs : approvals[r].status = "none"
  BY DEF Init, Pending, WithStatus, NoApproval
<1>3. \A w \in Workers : ~Submitting(w) /\ ~Settling(w) /\ ~Approving(w)
  BY <1>1 DEF Submitting, Settling, Approving
<1> QED  BY <1>1, <1>2, <1>3 DEF SerialInv, InOrder, Fresh, Matching, Kept

LEMMA SerialNext == ASSUME Serial, Inv, SerialInv, [Next]_vars, ~overlooked' PROVE SerialInv'
<1>1. ASSUME NEW w \in Workers, Fail(w)
      PROVE  SerialInv'
  BY <1>1, SerialFail DEF Fail, CallFails, history
<1>2. CASE Toggle \/ UNCHANGED vars
  <2>1. UNCHANGED <<row, approvals, lastRev, override, failures, k8s, pc, loc>>
    BY <1>2 DEF Toggle, vars, history
  <2>2. Pending' = Pending /\ WithStatus("approved")' = WithStatus("approved")
    BY <2>1 DEF Pending, WithStatus
  <2>3. InOrder' /\ Fresh'
    BY <2>1, <2>2 DEF SerialInv, InOrder, Fresh, Submitting
  <2>4. Matching' /\ Kept'
    BY <2>1, <2>2 DEF SerialInv, Matching, Kept, Settling, Approving, HasRow
  <2> QED  BY <2>3, <2>4 DEF SerialInv
<1> QED  BY <1>1, <1>2, SerialWrite, SerialDecide, SerialDeploy, SerialRequeue DEF Next

\* A look-up that misses a pending approval has failed, and stays on record.
LEMMA OverlookedCounts ==
    ASSUME Inv, [Next]_vars, overlooked => failures # 0
    PROVE  (overlooked => overlooked') /\ (overlooked' => failures' # 0)
<1>0. failures \in Nat
  BY BoundsAssumption DEF Inv, TablesOK
<1>1. ASSUME NEW w \in Workers, GetPending(w) \/ GetAction(w) \/ RemovePolicies(w) \/ DeleteApprovals(w) \/ Fail(w)
      PROVE  /\ failures' = failures \/ failures' = failures + 1
             /\ overlooked' = overlooked \/ (failures' = failures + 1 /\ overlooked')
  BY <1>1 DEF GetPending, GetAction, RemovePolicies, DeleteApprovals, Fail, CallFails, history, Inv, TablesOK
<1>2. ASSUME NEW w \in Workers,
             \/ Create(w) \/ (\E op \in {"update", "delete"} : BeginChange(w, op)) \/ SetPending(w) \/ GetProject(w)
             \/ FastPath(w) \/ Submit(w) \/ PersistPolicies(w)
      PROVE  UNCHANGED <<failures, overlooked>>
  BY <1>2 DEF Create, BeginChange, Begin, SetPending, GetProject, FastPath, Submit, PersistPolicies, At, history
<1>3. ASSUME NEW w \in Workers,
             \/ Decide(w) \/ BeginDeploy(w) \/ ApplyRoute(w) \/ ApplyPolicies(w) \/ Finish(w) \/ RemoveRoute(w) \/ DeleteRow(w)
      PROVE  UNCHANGED <<failures, overlooked>>
  BY <1>3 DEF Decide, BeginDecision, SaveApproval, Complete, SaveRoute, BeginDeploy, ApplyRoute, ApplyPolicies, Finish,
     RemoveRoute, DeleteRow, Begin, At, history
<1>4. ASSUME NEW w \in Workers, (\E op \in Requeues : BeginRequeue(w, op)) \/ Requeue(w)
      PROVE  UNCHANGED <<failures, overlooked>>
  BY <1>4 DEF BeginRequeue, Requeue, Begin, At, history
<1>5. CASE Toggle \/ UNCHANGED vars
  BY <1>5 DEF Toggle, vars, history
<1>6. ASSUME NEW w \in Workers, Write(w) \/ Deploy(w)
      PROVE  (overlooked => overlooked') /\ (overlooked' => failures' # 0)
  BY <1>0, <1>1, <1>2, <1>3, <1>6 DEF Write, Deploy
<1> QED  BY <1>0, <1>1, <1>3, <1>4, <1>5, <1>6 DEF Next

\* What holds of one worker, until a failing look-up misses an approval.
SerialI == Inv /\ (overlooked => failures # 0) /\ (~overlooked => SerialInv)

LEMMA SerialInvariant == ASSUME Serial PROVE Spec => []SerialI
<1>1. Init => SerialI
  BY InitInv, SerialInit DEF Init, SerialI
<1>2. SerialI /\ [Next]_vars => SerialI'
  BY NextInv, SerialNext, OverlookedCounts DEF SerialI
<1> QED  BY <1>1, <1>2, PTL DEF Spec

\* Served one after the other, requests never leave two approvals pending,
\* whatever calls fail (but the look-up of the pending one itself) and whenever
\* approvals are switched on and off.
THEOREM OnePendingSerial == ASSUME Serial PROVE Spec => []OnePending
<1>1. SerialI => OnePending
  <2> SUFFICES ASSUME SerialI, ~overlooked
               PROVE  Cardinality(WithStatus("pending")) <= 1
    BY DEF OnePending
  <2>1. WithStatus("pending") \subseteq {lastRev}
    BY DEF SerialI, SerialInv, InOrder, Pending
  <2>2. IsFiniteSet({lastRev}) /\ Cardinality({lastRev}) = 1
    BY FS_Singleton
  <2>3. Cardinality(WithStatus("pending")) <= Cardinality({lastRev})
    BY <2>1, <2>2, FS_Subset
  <2> QED  BY <2>2, <2>3
<1> QED  BY <1>1, SerialInvariant, PTL

\* Then a route whose approval is pending has the status that the callback of
\* the approval expects, but for the two requests that bypass its approvals.
THEOREM StatusMatchesSerial == ASSUME Serial PROVE Spec => []PendingApprovalMatchesStatus
<1>1. SerialI => PendingApprovalMatchesStatus
  BY DEF SerialI, SerialInv, Matching, Pending, PendingApprovalMatchesStatus
<1> QED  BY <1>1, SerialInvariant, PTL

\* And an approved config is in the row once the request that approved it is
\* over, or a later one.
THEOREM ConfigKeptSerial == ASSUME Serial PROVE Spec => []ApprovedConfigKept
<1>1. SerialI => ApprovedConfigKept
  BY DEF SerialI, SerialInv, Kept, Approving, Quiet, ApprovedConfigKept
<1> QED  BY <1>1, SerialInvariant, PTL

\* A request past the removal of the HTTPRoute: it is gone.
Gone == \A w \in Workers : pc[w] \in {"deleteApprovals", "deleteRow"} => k8s.route = 0

LEMMA GoneStays ==
    ASSUME Serial, Inv, Gone, [Next]_vars
    PROVE  Gone' /\ \A w \in Workers : pc[w] = "deleteRow" => k8s'.route = 0
<1>1. ASSUME NEW w \in Workers, Write(w) \/ Decide(w)
      PROVE  pc'[w] \notin {"deleteApprovals", "deleteRow"} /\ pc[w] # "deleteRow"
  <2>1. \A label, l : Goto(w, label, l) => pc'[w] = label
    BY DEF Goto, Inv
  <2>2. CASE Write(w)
    BY <2>1, <2>2 DEF Write, Create, BeginChange, Begin, GetPending, SetPending, GetProject, FastPath, Submit,
       PersistPolicies, At, Continue, Return
  <2>3. CASE Decide(w)
    BY <2>1, <2>3 DEF Decide, BeginDecision, Begin, SaveApproval, Complete, SaveRoute, At, Continue, Return
  <2> QED  BY <1>1, <2>2, <2>3
<1>2. ASSUME NEW w \in Workers, Deploy(w)
      PROVE  /\ pc'[w] \in {"deleteApprovals", "deleteRow"} => k8s'.route = 0
             /\ pc[w] = "deleteRow" => k8s'.route = 0
  <2>1. /\ \A label, l : Goto(w, label, l) => pc'[w] = label
        /\ pc[w] \in {"deleteApprovals", "deleteRow"} => k8s.route = 0
        /\ k8s \in [route : 0..MaxRev, policies : 0..MaxRev]
    BY DEF Goto, Inv, Gone, TablesOK
  <2>2. CASE BeginDeploy(w) \/ GetAction(w) \/ ApplyRoute(w) \/ ApplyPolicies(w) \/ Finish(w) \/ RemovePolicies(w)
    BY <2>1, <2>2 DEF BeginDeploy, Begin, GetAction, StartDeploy, ApplyRoute, ApplyPolicies, Finish, RemovePolicies, At,
       Continue, Return
  <2>3. CASE RemoveRoute(w) \/ DeleteApprovals(w) \/ DeleteRow(w)
    BY <2>1, <2>3 DEF RemoveRoute, DeleteApprovals, DeleteRow, At, Continue, Return
  <2> QED  BY <1>2, <2>2, <2>3 DEF Deploy
<1>3. ASSUME NEW w \in Workers, (\E op \in Requeues : BeginRequeue(w, op)) \/ Requeue(w) \/ Fail(w)
      PROVE  pc'[w] \notin {"deleteApprovals", "deleteRow"} /\ UNCHANGED k8s
  <2>1. \A label, l : Goto(w, label, l) => pc'[w] = label
    BY DEF Goto, Inv
  <2> QED  BY <1>3, <2>1 DEF BeginRequeue, Begin, Requeue, Fail, At, Return
<1>4. CASE Toggle \/ UNCHANGED vars
  BY <1>4 DEF Toggle, vars, Gone
<1>5. \A v, w \in Workers : v = w
  BY DEF Serial
<1>6. ASSUME NEW w \in Workers, Write(w) \/ Decide(w) \/ Deploy(w) \/ (\E op \in Requeues : BeginRequeue(w, op))
             \/ Requeue(w) \/ Fail(w)
      PROVE  Gone' /\ (pc[w] = "deleteRow" => k8s'.route = 0)
  BY <1>1, <1>2, <1>3, <1>5, <1>6 DEF Gone
<1> QED  BY <1>4, <1>5, <1>6 DEF Next, Gone

\* And Deploy of a delete removes the row only when the HTTPRoute is gone.
THEOREM DeletedSerial == ASSUME Serial PROVE Spec => DeletedRouteLeavesNothing
<1> DEFINE I == Inv /\ Gone
           A == \A w \in Workers : pc[w] = "deleteRow" /\ row' = NoRow => k8s'.route = 0
<1>1. Init => I
  BY InitInv DEF Init, Gone
<1>2. I /\ [Next]_vars => I'
  BY NextInv, GoneStays
<1>3. I /\ [Next]_vars => [A]_vars
  BY GoneStays
<1> HIDE DEF A, I
<1>4. Spec => [][A]_vars
  BY <1>1, <1>2, <1>3, PTL DEF Spec
<1> QED  BY <1>4 DEF DeletedRouteLeavesNothing, A
=============================================================================
