-------------------------- MODULE ApprovalEngine --------------------------
(***************************************************************************)
(* Stage traversal of one approval: internal/approval/traversal.go on top  *)
(* of the approval, stage and review tables.                               *)
(*                                                                         *)
(* Every HTTP request runs in its own goroutine and no handler opens a     *)
(* transaction, so a request is a program counter that makes one database  *)
(* call per step and works on the rows it read earlier (`seen').  Any call *)
(* may return an error; the handler then returns at once and undoes        *)
(* nothing.                                                                *)
(*                                                                         *)
(* A request is one call of ApproveStage, RejectStage, Cancel or           *)
(* AIHandler.ReviewApproval, named by its `op'.  Clients resend requests   *)
(* freely: two requests may carry the same user, stage and operation.      *)
(*                                                                         *)
(* An operator named Def_Bug is Def with a plausible bug in it; no         *)
(* specification uses it, the mutation runs put it in the place of Def.    *)
(***************************************************************************)
EXTENDS Integers, FiniteSets, ApprovalModel

CONSTANTS
    Users,               \* accounts that may call the API
    Submitter,           \* approval.SubmittedBy
    SelfApprovalAllowed, \* project.SelfApprovalAllowed
    Admins,              \* instance owners and admins of the project
    Cancellers,          \* users the completer's CanCancel accepts
    Stages,              \* the stage orders of this approval
    MinApprovers,        \* stage -> min_approvers as stored (may be <= 0)
    Permitted,           \* stage -> users that hold its RequiredPermission
    Team,                \* stage -> members of RequiredTeamID (Users if nil)
    Calls,               \* the calls a request can be
    Requests,            \* bound: HTTP requests that ever arrive
    MaxFailures          \* bound: failing database calls

Ops == {"approve", "reject", "cancel", "aiReview"}

ASSUME UsersAssumption == IsFiniteSet(Users)
ASSUME StagesAssumption == Stages \subseteq Int
\* PlanStages never returns an empty list, and a list has a highest order.
ASSUME LastStageAssumption == \E m \in Stages : \A s \in Stages : s <= m
ASSUME MinApproversAssumption == MinApprovers \in [Stages -> Int]
ASSUME PermittedAssumption == /\ Permitted \in [Stages -> SUBSET Users]
                              /\ Team \in [Stages -> SUBSET Users]
ASSUME RolesAssumption == /\ Submitter \in Users
                          /\ SelfApprovalAllowed \in BOOLEAN
                          /\ Admins \subseteq Users
                          /\ Cancellers \subseteq Users
ASSUME CallsAssumption == Calls \subseteq [op : Ops, user : Users, stage : Stages]
ASSUME BoundAssumption == MaxFailures \in Nat

VARIABLES
    status,    \* approvals.status
    aiReview,  \* approvals.ai_review IS NOT NULL
    stages,    \* approval_stages.status by stage order
    reviews,   \* approval_stage_reviews.decision by (stage, reviewer)
    calls,     \* number of times each Completer method was called
    pc,        \* what each request does next
    req,       \* the request's parameters
    seen,      \* the approval row and stages as the request read them
    failures   \* database calls that have failed so far

vars == <<status, aiReview, stages, reviews, calls, pc, req, seen, failures>>

ApprovalStatus == {"pending", "approved", "rejected", "cancelled"}

\* What a decision can be: the terminal states, one Completer method each.
Decided == ApprovalStatus \ {"pending"}

PCs == {"idle", "getApproval", "getStages", "authorize", "createReview",
        "countReviews", "updateStage", "updateApproval", "complete",
        "setAIReview", "done"}

Outcome_Verb(op) == op

\* The status a request gives the approval, and for approve and reject the stage.
Outcome(op) ==
    CASE op = "approve" -> "approved"
      [] op = "reject"  -> "rejected"
      [] OTHER          -> "cancelled"

NoReview == "none"

\* The unique index on (stage_id, reviewer_id): one decision or none.
Decisions == {NoReview, "approved", "rejected"}

\* The set CountByStageAndDecision(s, "approved") counts.
Approvers(s) == {u \in Users : reviews[s][u] = "approved"}

CountReached(s) ==
    Cardinality(Approvers(s)) >= EffectiveMinApprovers(MinApprovers[s])

\* The part of authorizeStageReview that reads users, teams and the project.
MayReview(u, s) ==
    /\ u = Submitter => SelfApprovalAllowed
    /\ u \in Admins \/ (u \in Permitted[s] /\ u \in Team[s])

Authorized_AnyOrder(seenStages, u, s) ==
    seenStages[s] = "pending" /\ MayReview(u, s)

\* authorizeStageReview on the rows the request has read.
Authorized(seenStages, u, s) ==
    /\ seenStages[s] = "pending"
    /\ \A t \in Stages : t < s => seenStages[t] = "approved"
    /\ MayReview(u, s)

MayCancel(u) == u = Submitter \/ u \in Admins \/ u \in Cancellers

AllStagesApproved_AsRead(seenStages, justApproved) ==
    \A s \in Stages : seenStages[s] = "approved"

AllStagesApproved(seenStages, justApproved) ==
    \A s \in Stages \ {justApproved} : seenStages[s] = "approved"

---------------------------------------------------------------------------

\* Submit has just stored the approval: pending, every stage pending.
Init ==
    /\ status = "pending"
    /\ aiReview = FALSE
    /\ stages = [s \in Stages |-> "pending"]
    /\ reviews = [s \in Stages |-> [u \in Users |-> NoReview]]
    /\ calls = [o \in Decided |-> 0]
    /\ pc = [r \in Requests |-> "idle"]
    /\ req \in [Requests -> Calls]
    /\ seen = [r \in Requests |-> [status |-> "pending", aiReview |-> FALSE,
                                   stages |-> [s \in Stages |-> "pending"]]]
    /\ failures = 0

Goto(r, label) == pc' = [pc EXCEPT ![r] = label]

\* The request arrives.
Arrive(r) ==
    /\ pc[r] = "idle"
    /\ Goto(r, "getApproval")
    /\ UNCHANGED <<status, aiReview, stages, reviews, calls, req, seen, failures>>

\* The statuses in which a handler goes on after reading the approval.
Accepts(op) ==
    CASE op = "cancel"   -> {"pending", "approved"}
      [] op = "aiReview" -> ApprovalStatus
      [] OTHER           -> {"pending"}

\* approvals.GetByID: the approval row, by its own SELECT ...
GetApproval(r) ==
    /\ pc[r] = "getApproval"
    /\ seen' = [seen EXCEPT ![r].status = status, ![r].aiReview = aiReview]
    /\ LET op == req[r].op IN
       Goto(r, IF status \notin Accepts(op) THEN "done"
               ELSE IF op # "aiReview" THEN "getStages"
               ELSE IF aiReview THEN "done" ELSE "setAIReview")
    /\ UNCHANGED <<status, aiReview, stages, reviews, calls, req, failures>>

\* ... and its stages, by the SELECT of Preload("Stages").
GetStages(r) ==
    /\ pc[r] = "getStages"
    /\ seen' = [seen EXCEPT ![r].stages = stages]
    /\ Goto(r, "authorize")
    /\ UNCHANGED <<status, aiReview, stages, reviews, calls, req, failures>>

\* authorizeStageReview and, for ApproveStage, the search of ListByStageID for
\* a review of the same user; for Cancel, the submitter/owner/admin/CanCancel
\* test.
Authorize(r) ==
    /\ pc[r] = "authorize"
    /\ LET q == req[r] IN
       CASE q.op = "cancel" ->
              Goto(r, IF MayCancel(q.user) THEN "updateApproval" ELSE "done")
         [] q.op = "reject" ->
              Goto(r, IF Authorized(seen[r].stages, q.user, q.stage)
                      THEN "createReview" ELSE "done")
         [] OTHER ->
              Goto(r, IF /\ Authorized(seen[r].stages, q.user, q.stage)
                         /\ reviews[q.stage][q.user] = NoReview
                      THEN "createReview" ELSE "done")
    /\ UNCHANGED <<status, aiReview, stages, reviews, calls, req, seen, failures>>

\* ApproveStage's review INSERT.  The unique index turns a second one of the
\* same user into an error.
CreateApproval(r) ==
    /\ pc[r] = "createReview" /\ req[r].op = "approve"
    /\ LET s == req[r].stage  u == req[r].user IN
       IF reviews[s][u] = NoReview
       THEN /\ reviews' = [reviews EXCEPT ![s][u] = "approved"]
            /\ Goto(r, "countReviews")
       ELSE /\ Goto(r, "done")
            /\ UNCHANGED reviews
    /\ UNCHANGED <<status, aiReview, stages, calls, req, seen, failures>>

\* RejectStage's review INSERT: its error, whatever the cause, is discarded.
CreateRejection(r) ==
    /\ pc[r] = "createReview" /\ req[r].op = "reject"
    /\ LET s == req[r].stage  u == req[r].user IN
       \/ /\ reviews[s][u] = NoReview
          /\ reviews' = [reviews EXCEPT ![s][u] = "rejected"]
          /\ UNCHANGED failures
       \/ /\ reviews[s][u] # NoReview
          /\ UNCHANGED <<reviews, failures>>
       \/ /\ failures < MaxFailures
          /\ failures' = failures + 1
          /\ UNCHANGED reviews
    /\ Goto(r, "updateStage")
    /\ UNCHANGED <<status, aiReview, stages, calls, req, seen>>

CountReviews_FirstApprover(r) ==
    /\ pc[r] = "countReviews"
    /\ Goto(r, "updateStage")
    /\ UNCHANGED <<status, aiReview, stages, reviews, calls, req, seen, failures>>

\* CountByStageAndDecision against MinApprovers.
CountReviews(r) ==
    /\ pc[r] = "countReviews"
    /\ Goto(r, IF CountReached(req[r].stage) THEN "updateStage" ELSE "done")
    /\ UNCHANGED <<status, aiReview, stages, reviews, calls, req, seen, failures>>

\* approvals.UpdateStage, then allStagesApproved on the rows read earlier.
UpdateStage(r) ==
    /\ pc[r] = "updateStage"
    /\ LET q == req[r] IN
       /\ stages' = [stages EXCEPT ![q.stage] = Outcome(q.op)]
       /\ Goto(r, IF q.op = "approve" => AllStagesApproved(seen[r].stages, q.stage)
                  THEN "updateApproval" ELSE "done")
    /\ UNCHANGED <<status, aiReview, reviews, calls, req, seen, failures>>

UpdateApproval_NotSaved(r) ==
    /\ pc[r] = "updateApproval"
    /\ Goto(r, "complete")
    /\ UNCHANGED <<status, aiReview, stages, reviews, calls, req, seen, failures>>

\* approvals.Update: gorm's Save writes every column of the row as read, with
\* the new status; ai_review goes back to what it was.
UpdateApproval(r) ==
    /\ pc[r] = "updateApproval"
    /\ status' = Outcome(req[r].op)
    /\ aiReview' = seen[r].aiReview
    /\ Goto(r, "complete")
    /\ UNCHANGED <<stages, reviews, calls, req, seen, failures>>

\* completer.OnApproved / OnRejected / OnCancelled.
Complete(r) ==
    /\ pc[r] = "complete"
    /\ calls' = [calls EXCEPT ![Outcome(req[r].op)] = @ + 1]
    /\ Goto(r, "done")
    /\ UNCHANGED <<status, aiReview, stages, reviews, req, seen, failures>>

SetAIReview_SaveRow(r) ==
    /\ pc[r] = "setAIReview"
    /\ aiReview' = TRUE
    /\ status' = seen[r].status
    /\ Goto(r, "done")
    /\ UNCHANGED <<stages, reviews, calls, req, seen, failures>>

\* After the language model has answered, SetAIReview updates one column of
\* the row, and only while it is NULL.
SetAIReview(r) ==
    /\ pc[r] = "setAIReview"
    /\ aiReview' = TRUE
    /\ Goto(r, "done")
    /\ UNCHANGED <<status, stages, reviews, calls, req, seen, failures>>

\* A call fails (database error, failed lookup, completer error): the handler
\* returns the error.  Only the review INSERT of RejectStage is exempt.
Fail(r) ==
    /\ pc[r] \notin {"idle", "done"}
    /\ ~ (pc[r] = "createReview" /\ req[r].op = "reject")
    /\ failures < MaxFailures
    /\ failures' = failures + 1
    /\ Goto(r, "done")
    /\ UNCHANGED <<status, aiReview, stages, reviews, calls, req, seen>>

\* What the server does for a request it has accepted.
Serve(r) ==
    \/ GetApproval(r) \/ GetStages(r) \/ Authorize(r)
    \/ CreateApproval(r) \/ CreateRejection(r) \/ CountReviews(r)
    \/ UpdateStage(r) \/ UpdateApproval(r) \/ Complete(r) \/ SetAIReview(r)

Next == \E r \in Requests : Arrive(r) \/ Serve(r) \/ Fail(r)

Spec == Init /\ [][Next]_vars

\* An accepted request runs until its handler returns; nobody has to send one.
FairSpec == Spec /\ \A r \in Requests : WF_vars(Serve(r))

---------------------------------------------------------------------------

\* Types of the approval, stage and review rows and of what requests hold; the
\* statuses are those of models/approval.go, whatever ApproveStage writes.
TypeOK ==
    /\ status \in ApprovalStatus
    /\ aiReview \in BOOLEAN
    /\ stages \in [Stages -> ApprovalStatus]
    /\ reviews \in [Stages -> [Users -> Decisions]]
    /\ calls \in [Decided -> Nat]
    /\ pc \in [Requests -> PCs]
    /\ req \in [Requests -> [op : Ops, user : Users, stage : Stages]]
    /\ seen \in [Requests -> [status : ApprovalStatus, aiReview : BOOLEAN,
                              stages : [Stages -> ApprovalStatus]]]
    /\ failures \in 0 .. MaxFailures

\* The gate a stage stands for: enough distinct users approved it, each of
\* whom may review it.
Quorum(s) == CountReached(s) /\ \A u \in Approvers(s) : MayReview(u, s)

\* However requests interleave and calls fail, an approval is approved, and
\* its completer told so, only after every stage was approved by
\* MinApprovers distinct users entitled to review it (ApproveStage).
ApprovedOnlyByQuorum ==
    status = "approved" \/ calls["approved"] > 0 => \A s \in Stages : Quorum(s)

\* Nobody's approval of a stage is recorded before all earlier stages have
\* their quorum: authorizeStageReview looks at rows read earlier, but a
\* quorum once reached is never lost.
StagesInOrder ==
    \A s, t \in Stages : t < s /\ Approvers(s) # {} => Quorum(t)

\* What makes the two properties above inductive: every row a request may
\* still act on, in the tables or in `seen', is backed by recorded reviews.
ReviewersEntitled ==
    \A s \in Stages : \A u \in Approvers(s) : MayReview(u, s)

StagesBacked == \A s \in Stages : stages[s] = "approved" => CountReached(s)

ReadsBacked ==
    \A r \in Requests, s \in Stages :
        seen[r].stages[s] = "approved" => CountReached(s)

ReviewsInOrder ==
    \A s, t \in Stages : t < s /\ Approvers(s) # {} => CountReached(t)

RequestBacked(r) ==
    /\ pc[r] = "createReview" =>
          /\ MayReview(req[r].user, req[r].stage)
          /\ \A t \in Stages : t < req[r].stage => CountReached(t)
    /\ pc[r] = "updateStage" /\ req[r].op = "approve" => CountReached(req[r].stage)
    /\ pc[r] \in {"updateApproval", "complete"} /\ req[r].op = "approve" =>
          \A s \in Stages : CountReached(s)

DecisionBacked ==
    status = "approved" \/ calls["approved"] > 0 =>
        \A s \in Stages : CountReached(s)

QuorumInv ==
    /\ ReviewersEntitled /\ StagesBacked /\ ReadsBacked /\ ReviewsInOrder
    /\ \A r \in Requests : RequestBacked(r)
    /\ DecisionBacked

\* No lost completion: once all requests have returned and no call failed, an
\* approval whose stages are all approved is not left pending.  ApproveStage
\* decides this from stale rows; the unique stage order makes it safe.
NoLostCompletion ==
    /\ failures = 0
    /\ \A r \in Requests : pc[r] \in {"idle", "done"}
    /\ \A s \in Stages : stages[s] = "approved"
    => status # "pending"

\* What makes it inductive: a reviewing request has seen all earlier stages
\* approved, so whoever approves the last stage goes on to update the approval.
ReviewerSawOrder(r) ==
    pc[r] \in {"createReview", "countReviews", "updateStage"} =>
        \A t \in Stages : t < req[r].stage => seen[r].stages[t] = "approved"

LastStageCompletes ==
    failures = 0 /\ status = "pending" =>
        \A m \in Stages :
            stages[m] = "approved" /\ (\A s \in Stages : s <= m) =>
                \E r \in Requests : pc[r] = "updateApproval"

CompletionInv == LastStageCompletes /\ \A r \in Requests : ReviewerSawOrder(r)

\* A decision is never taken back: saving an AI review that was requested
\* before the decision (SetAIReview) does not restore the pending row it read.
DecisionNotReverted == [][status # "pending" => status' # "pending"]_vars

\* While no call fails, an approval whose every stage is approved reaches its
\* completer.
FullyApprovedIsCompleted ==
    (\A s \in Stages : stages[s] = "approved")
        ~> (failures > 0 \/ \E o \in Decided : calls[o] > 0)

---------------------------------------------------------------------------

Endorsed == [s \in Stages |-> Approvers(s)]
EntitledTo == [s \in Stages |-> {u \in Users : MayReview(u, s)}]
QuorumsOf ==
    [s \in Stages |-> {q \in SUBSET Users :
                         Cardinality(q) >= EffectiveMinApprovers(MinApprovers[s])}]

\* What the mapping needs besides QuorumInv: the verdict is stored before the
\* completer is called.
CompleterWaits == \A r \in Requests : pc[r] = "complete" => status # "pending"

Contract == INSTANCE ApprovalContract WITH
    endorsed <- Endorsed, verdict <- status, told <- calls,
    Entitled <- EntitledTo, Quorums <- QuorumsOf

\* The engine keeps its contract with the completers: every write of a request,
\* whatever it read and however late, is an endorsement in stage order, a
\* verdict the endorsements allow, or a call that follows a stored verdict.
ImplementsContract == Contract!Spec

\* ports.go, on Completer: "The engine calls exactly one method when an
\* approval reaches a terminal state."  It never calls both OnApproved and
\* OnRejected for one approval.
OneDecision == ~ (calls["approved"] > 0 /\ calls["rejected"] > 0)
===========================================================================
