-------------------------- MODULE ApprovalProofs --------------------------
(***************************************************************************)
(* Theorems about the two halves of an approval: its traversal             *)
(* (ApprovalEngine), for any users, stages, policies, number of requests   *)
(* and number of failing calls, and its planning (StagePlanning), for any  *)
(* requests, teams, submitters, actions, policies and number of failures.  *)
(* The two specifications share only ApprovalModel.                        *)
(***************************************************************************)
EXTENDS ApprovalEngine, StagePlanning, FiniteSetTheorems, TLAPS

---------------------------------------------------------------------------
\* The traversal of the stages: ApprovalEngine.

\* Every variable keeps its type in all reachable states of the engine.
THEOREM TypeCorrect == Spec => []TypeOK
<1>1. Init => TypeOK
  <2> SUFFICES ASSUME Init PROVE TypeOK
    OBVIOUS
  <2>1. status \in ApprovalStatus /\ aiReview \in BOOLEAN
    BY DEF Init, ApprovalStatus
  <2>2. stages \in [Stages -> ApprovalStatus]
    BY DEF Init, ApprovalStatus
  <2>3. reviews \in [Stages -> [Users -> Decisions]]
    BY DEF Init, Decisions
  <2>4. calls \in [Decided -> Nat] /\ failures \in 0 .. MaxFailures
    BY BoundAssumption DEF Init
  <2>5. pc \in [Requests -> PCs]
    BY DEF Init, PCs
  <2>6. req \in [Requests -> [op : Ops, user : Users, stage : Stages]]
    BY CallsAssumption DEF Init
  <2>7. seen \in [Requests -> [status : ApprovalStatus, aiReview : BOOLEAN,
                               stages : [Stages -> ApprovalStatus]]]
    <3> DEFINE row == [status |-> "pending", aiReview |-> FALSE,
                       stages |-> [s \in Stages |-> "pending"]]
    <3>1. row \in [status : ApprovalStatus, aiReview : BOOLEAN,
                   stages : [Stages -> ApprovalStatus]]
      BY DEF ApprovalStatus
    <3> HIDE DEF row
    <3>2. seen = [r \in Requests |-> row]
      BY DEF Init, row
    <3> QED
      BY <3>1, <3>2
  <2> QED
    BY <2>1, <2>2, <2>3, <2>4, <2>5, <2>6, <2>7 DEF TypeOK
<1>2. TypeOK /\ [Next]_vars => TypeOK'
  <2> SUFFICES ASSUME TypeOK, [Next]_vars
               PROVE  TypeOK'
    OBVIOUS
  <2> USE BoundAssumption DEF TypeOK, PCs, Goto
  <2>1. CASE UNCHANGED vars
    BY <2>1 DEF vars
  <2>2. ASSUME NEW r \in Requests, Arrive(r) PROVE TypeOK'
    BY <2>2 DEF Arrive
  <2>3. ASSUME NEW r \in Requests, GetApproval(r) PROVE TypeOK'
    BY <2>3 DEF GetApproval
  <2>4. ASSUME NEW r \in Requests, GetStages(r) PROVE TypeOK'
    BY <2>4 DEF GetStages
  <2>5. ASSUME NEW r \in Requests, Authorize(r) PROVE TypeOK'
    BY <2>5 DEF Authorize
  <2>6. ASSUME NEW r \in Requests, CreateApproval(r) PROVE TypeOK'
    <3>1. PICK s \in Stages, u \in Users :
             \/ reviews' = [reviews EXCEPT ![s][u] = "approved"]
             \/ UNCHANGED reviews
      BY <2>6 DEF CreateApproval
    <3>2. reviews' \in [Stages -> [Users -> Decisions]]
      <4>1. [reviews[s] EXCEPT ![u] = "approved"] \in [Users -> Decisions]
        BY DEF Decisions
      <4> QED
        BY <3>1, <4>1
    <3> QED
      BY <2>6, <3>2 DEF CreateApproval
  <2>7. ASSUME NEW r \in Requests, CreateRejection(r) PROVE TypeOK'
    <3>1. PICK s \in Stages, u \in Users :
             \/ reviews' = [reviews EXCEPT ![s][u] = "rejected"]
             \/ UNCHANGED reviews
      BY <2>7 DEF CreateRejection
    <3>2. reviews' \in [Stages -> [Users -> Decisions]]
      <4>1. [reviews[s] EXCEPT ![u] = "rejected"] \in [Users -> Decisions]
        BY DEF Decisions
      <4> QED
        BY <3>1, <4>1
    <3> QED
      BY <2>7, <3>2 DEF CreateRejection
  <2>8. ASSUME NEW r \in Requests, CountReviews(r) PROVE TypeOK'
    BY <2>8 DEF CountReviews
  <2>9. ASSUME NEW r \in Requests, UpdateStage(r) PROVE TypeOK'
    BY <2>9 DEF UpdateStage, Outcome, ApprovalStatus
  <2>10. ASSUME NEW r \in Requests, UpdateApproval(r) PROVE TypeOK'
    BY <2>10 DEF UpdateApproval, Outcome, ApprovalStatus
  <2>11. ASSUME NEW r \in Requests, Complete(r) PROVE TypeOK'
    BY <2>11 DEF Complete, Outcome, Decided, ApprovalStatus
  <2>12. ASSUME NEW r \in Requests, SetAIReview(r) PROVE TypeOK'
    BY <2>12 DEF SetAIReview
  <2>13. ASSUME NEW r \in Requests, Fail(r) PROVE TypeOK'
    BY <2>13 DEF Fail
  <2> QED
    BY <2>1, <2>2, <2>3, <2>4, <2>5, <2>6, <2>7, <2>8, <2>9, <2>10, <2>11,
       <2>12, <2>13 DEF Next, Serve
<1> QED
  BY <1>1, <1>2, PTL DEF Spec

\* A quorum once reached is never lost: a step that keeps every approving
\* review keeps the count of every stage at its minimum.
LEMMA CountStable ==
  ASSUME NEW s \in Stages, CountReached(s), Approvers(s) \subseteq Approvers(s)'
  PROVE  CountReached(s)'
<1>1. IsFiniteSet(Approvers(s)')
  BY UsersAssumption, FS_Subset DEF Approvers
<1>2. Cardinality(Approvers(s)) <= Cardinality(Approvers(s)')
  BY <1>1, FS_Subset
<1>3. Cardinality(Approvers(s)) \in Nat /\ Cardinality(Approvers(s)') \in Nat
  BY <1>1, FS_Subset, FS_CardinalityType
<1>4. EffectiveMinApprovers(MinApprovers[s]) \in Int
  BY MinApproversAssumption DEF EffectiveMinApprovers
<1> QED
  BY <1>2, <1>3, <1>4 DEF CountReached

\* No step of the engine withdraws an approving review.
LEMMA ReviewsGrow ==
  ASSUME TypeOK, [Next]_vars, NEW s \in Stages
  PROVE  Approvers(s) \subseteq Approvers(s)'
<1>1. ASSUME NEW u \in Users, reviews[s][u] = "approved"
      PROVE  reviews'[s][u] = "approved"
  <2>1. CASE UNCHANGED reviews
    BY <1>1, <2>1
  <2>2. ASSUME NEW r \in Requests, CreateApproval(r)
        PROVE  reviews'[s][u] = "approved"
    BY <1>1, <2>2 DEF CreateApproval, TypeOK, NoReview
  <2>3. ASSUME NEW r \in Requests, CreateRejection(r)
        PROVE  reviews'[s][u] = "approved"
    BY <1>1, <2>3 DEF CreateRejection, TypeOK, NoReview
  <2> QED
    BY <2>1, <2>2, <2>3 DEF Next, Serve, vars, Arrive, GetApproval, GetStages,
       Authorize, CountReviews, UpdateStage, UpdateApproval, Complete,
       SetAIReview, Fail
<1> QED
  BY <1>1 DEF Approvers


\* Every step of the engine keeps all rows backed by recorded reviews.
LEMMA QuorumStep ==
  ASSUME TypeOK, QuorumInv, [Next]_vars
  PROVE  QuorumInv'
<1>1. \A s \in Stages : CountReached(s) => CountReached(s)'
  BY CountStable, ReviewsGrow
<1>2. ASSUME UNCHANGED reviews
      PROVE  /\ ReviewersEntitled' /\ ReviewsInOrder'
  BY <1>1, <1>2 DEF QuorumInv, ReviewersEntitled, ReviewsInOrder, Approvers, MayReview
<1> USE DEF QuorumInv, Goto
<1>3. CASE UNCHANGED vars
  BY <1>3 DEF vars, ReviewersEntitled, StagesBacked, ReadsBacked,
     ReviewsInOrder, RequestBacked, DecisionBacked, CountReached, Approvers
<1>4. ASSUME NEW r \in Requests, Arrive(r) PROVE QuorumInv'
  BY <1>1, <1>2, <1>4 DEF Arrive, TypeOK, StagesBacked, ReadsBacked,
     RequestBacked, DecisionBacked
<1>5. ASSUME NEW r \in Requests, GetApproval(r) PROVE QuorumInv'
  BY <1>1, <1>2, <1>5 DEF GetApproval, TypeOK, StagesBacked, ReadsBacked,
     RequestBacked, DecisionBacked
<1>6. ASSUME NEW r \in Requests, GetStages(r) PROVE QuorumInv'
  BY <1>1, <1>2, <1>6 DEF GetStages, TypeOK, StagesBacked, ReadsBacked,
     RequestBacked, DecisionBacked
<1>7. ASSUME NEW r \in Requests, Authorize(r) PROVE QuorumInv'
  BY <1>1, <1>2, <1>7 DEF Authorize, Authorized, TypeOK, StagesBacked, ReadsBacked,
     RequestBacked, DecisionBacked
<1>8. ASSUME NEW r \in Requests, CreateApproval(r) PROVE QuorumInv'
  <2> DEFINE s0 == req[r].stage
             u0 == req[r].user
  <2>0. s0 \in Stages /\ u0 \in Users /\ reviews \in [Stages -> [Users -> Decisions]]
    BY DEF TypeOK
  <2>1. /\ MayReview(u0, s0)
        /\ \A t \in Stages : t < s0 => CountReached(t)
        /\ \A s \in Stages, u \in Users :
              reviews'[s][u] = "approved" =>
                 reviews[s][u] = "approved" \/ (s = s0 /\ u = u0)
    <3>1. MayReview(u0, s0) /\ \A t \in Stages : t < s0 => CountReached(t)
      BY <1>8 DEF CreateApproval, RequestBacked
    <3>2. \/ reviews' = [reviews EXCEPT ![s0][u0] = "approved"]
          \/ UNCHANGED reviews
      BY <1>8 DEF CreateApproval
    <3> HIDE DEF s0, u0
    <3> QED
      BY <2>0, <3>1, <3>2
  <2>2. ReviewersEntitled'
    BY <2>1 DEF ReviewersEntitled, Approvers
  <2>3. ReviewsInOrder'
    BY <1>1, <2>1 DEF ReviewsInOrder, Approvers
  <2>4. StagesBacked' /\ ReadsBacked' /\ DecisionBacked'
    BY <1>1, <1>8 DEF CreateApproval, StagesBacked, ReadsBacked, DecisionBacked
  <2>5. \A q \in Requests : RequestBacked(q)'
    BY <1>1, <1>8 DEF CreateApproval, TypeOK, RequestBacked
  <2> QED
    BY <2>2, <2>3, <2>4, <2>5
<1>9. ASSUME NEW r \in Requests, CreateRejection(r) PROVE QuorumInv'
  <2>1. \A s \in Stages, u \in Users :
           reviews'[s][u] = "approved" => reviews[s][u] = "approved"
    <3> DEFINE s0 == req[r].stage
               u0 == req[r].user
    <3>1. s0 \in Stages /\ u0 \in Users /\ reviews \in [Stages -> [Users -> Decisions]]
      BY DEF TypeOK
    <3>2. \/ reviews' = [reviews EXCEPT ![s0][u0] = "rejected"]
          \/ UNCHANGED reviews
      BY <1>9 DEF CreateRejection
    <3> HIDE DEF s0, u0
    <3> QED
      BY <3>1, <3>2
  <2>2. ReviewersEntitled'
    BY <2>1 DEF ReviewersEntitled, Approvers
  <2>3. ReviewsInOrder'
    BY <1>1, <2>1 DEF ReviewsInOrder, Approvers
  <2>4. StagesBacked' /\ ReadsBacked' /\ DecisionBacked'
    BY <1>1, <1>9 DEF CreateRejection, StagesBacked, ReadsBacked, DecisionBacked
  <2>5. \A q \in Requests : RequestBacked(q)'
    BY <1>1, <1>9 DEF CreateRejection, TypeOK, RequestBacked
  <2> QED
    BY <2>2, <2>3, <2>4, <2>5
<1>10. ASSUME NEW r \in Requests, CountReviews(r) PROVE QuorumInv'
  BY <1>1, <1>2, <1>10 DEF CountReviews, TypeOK, StagesBacked, ReadsBacked,
     RequestBacked, DecisionBacked
<1>11. ASSUME NEW r \in Requests, UpdateStage(r) PROVE QuorumInv'
  BY <1>1, <1>2, <1>11 DEF UpdateStage, Outcome, AllStagesApproved, TypeOK, StagesBacked, ReadsBacked,
     RequestBacked, DecisionBacked
<1>12. ASSUME NEW r \in Requests, UpdateApproval(r) PROVE QuorumInv'
  BY <1>1, <1>2, <1>12 DEF UpdateApproval, Outcome, TypeOK, StagesBacked, ReadsBacked,
     RequestBacked, DecisionBacked
<1>13. ASSUME NEW r \in Requests, Complete(r) PROVE QuorumInv'
  BY <1>1, <1>2, <1>13 DEF Complete, Outcome, TypeOK, StagesBacked, ReadsBacked,
     RequestBacked, DecisionBacked
<1>14. ASSUME NEW r \in Requests, SetAIReview(r) PROVE QuorumInv'
  BY <1>1, <1>2, <1>14 DEF SetAIReview, TypeOK, StagesBacked, ReadsBacked,
     RequestBacked, DecisionBacked
<1>15. ASSUME NEW r \in Requests, Fail(r) PROVE QuorumInv'
  BY <1>1, <1>2, <1>15 DEF Fail, TypeOK, StagesBacked, ReadsBacked,
     RequestBacked, DecisionBacked
<1> QED
  BY <1>3, <1>4, <1>5, <1>6, <1>7, <1>8, <1>9, <1>10, <1>11, <1>12,
     <1>13, <1>14, <1>15 DEF Next, Serve

\* All rows are backed by recorded reviews in every reachable state.
THEOREM RowsBacked == Spec => []QuorumInv
<1>1. Init => QuorumInv
  BY DEF Init, QuorumInv, ReviewersEntitled, StagesBacked, ReadsBacked,
     ReviewsInOrder, RequestBacked, DecisionBacked, Approvers, NoReview, Decided,
     ApprovalStatus
<1> QED
  BY <1>1, QuorumStep, TypeCorrect, PTL DEF Spec

\* An approval is approved, and OnApproved called, only with a quorum of
\* entitled reviewers behind every stage.
THEOREM QuorumSafety == Spec => []ApprovedOnlyByQuorum
<1>1. QuorumInv => ApprovedOnlyByQuorum
  BY DEF QuorumInv, ReviewersEntitled, DecisionBacked, ApprovedOnlyByQuorum, Quorum
<1> QED
  BY <1>1, RowsBacked, PTL

\* Stages are approved in order: a review of a stage finds the quorum of every
\* earlier stage already recorded.
THEOREM OrderSafety == Spec => []StagesInOrder
<1>1. QuorumInv => StagesInOrder
  BY DEF QuorumInv, ReviewersEntitled, ReviewsInOrder, StagesInOrder, Quorum
<1> QED
  BY <1>1, RowsBacked, PTL

\* No step turns a decided approval back into a pending one.
THEOREM DecisionStable == Spec => DecisionNotReverted
<1>1. [Next]_vars => [status # "pending" => status' # "pending"]_vars
  <2> SUFFICES ASSUME Next, status # "pending"
               PROVE  status' # "pending"
    OBVIOUS
  <2>1. ASSUME NEW r \in Requests, UpdateApproval(r)
        PROVE  status' # "pending"
    BY <2>1 DEF UpdateApproval, Outcome
  <2> QED
    BY <2>1 DEF Next, Serve, Arrive, GetApproval, GetStages, Authorize,
       CreateApproval, CreateRejection, CountReviews, UpdateStage, Complete,
       SetAIReview, Fail
<1> QED
  BY <1>1, PTL DEF Spec, DecisionNotReverted

\* Every step keeps the completion of the last stage under way.
LEMMA CompletionStep ==
  ASSUME TypeOK, CompletionInv, [Next]_vars
  PROVE  CompletionInv'
<1> USE DEF CompletionInv, Goto
<1>1. CASE UNCHANGED vars
  BY <1>1 DEF vars, LastStageCompletes, ReviewerSawOrder
<1>2. ASSUME NEW r \in Requests, Arrive(r) PROVE CompletionInv'
  BY <1>2 DEF Arrive, TypeOK, LastStageCompletes, ReviewerSawOrder
<1>3. ASSUME NEW r \in Requests, GetApproval(r) PROVE CompletionInv'
  BY <1>3 DEF GetApproval, TypeOK, LastStageCompletes, ReviewerSawOrder
<1>4. ASSUME NEW r \in Requests, GetStages(r) PROVE CompletionInv'
  BY <1>4 DEF GetStages, TypeOK, LastStageCompletes, ReviewerSawOrder
<1>5. ASSUME NEW r \in Requests, Authorize(r) PROVE CompletionInv'
  <2>1. \A q \in Requests \ {r} : pc'[q] = pc[q]
    BY <1>5 DEF Authorize, TypeOK
  <2>2. pc[r] = "authorize" /\ pc'[r] \in {"createReview", "updateApproval", "done"}
    BY <1>5 DEF Authorize, TypeOK
  <2>3. pc'[r] = "createReview" => Authorized(seen[r].stages, req[r].user, req[r].stage)
    BY <1>5 DEF Authorize, TypeOK
  <2>4. UNCHANGED <<status, stages, failures, req, seen>>
    BY <1>5 DEF Authorize
  <2>5. LastStageCompletes'
    BY <2>1, <2>2, <2>4 DEF LastStageCompletes
  <2>6. ASSUME NEW q \in Requests PROVE ReviewerSawOrder(q)'
    BY <2>1, <2>2, <2>3, <2>4 DEF ReviewerSawOrder, Authorized
  <2> QED
    BY <2>5, <2>6
<1>6. ASSUME NEW r \in Requests, CreateApproval(r) PROVE CompletionInv'
  <2>1. /\ \A q \in Requests \ {r} : pc'[q] = pc[q]
        /\ pc[r] = "createReview" /\ pc'[r] \in {"countReviews", "done"}
        /\ UNCHANGED <<status, stages, failures, req, seen>>
    BY <1>6 DEF CreateApproval, TypeOK
  <2> QED
    BY <2>1 DEF LastStageCompletes, ReviewerSawOrder
<1>7. ASSUME NEW r \in Requests, CreateRejection(r) PROVE CompletionInv'
  BY <1>7 DEF CreateRejection, TypeOK, LastStageCompletes, ReviewerSawOrder
<1>8. ASSUME NEW r \in Requests, CountReviews(r) PROVE CompletionInv'
  BY <1>8 DEF CountReviews, TypeOK, LastStageCompletes, ReviewerSawOrder
<1>9. ASSUME NEW r \in Requests, UpdateStage(r) PROVE CompletionInv'
  <2>1. \A q \in Requests : ReviewerSawOrder(q)'
    BY <1>9 DEF UpdateStage, TypeOK, ReviewerSawOrder
  <2>2. ASSUME NEW m \in Stages, \A s \in Stages : s <= m,
               failures = 0, status = "pending", stages'[m] = "approved"
        PROVE  \E q \in Requests : pc'[q] = "updateApproval"
    <3>1. CASE req[r].stage = m /\ req[r].op = "approve"
      <4>1. AllStagesApproved(seen[r].stages, m)
        BY <1>9, <2>2, <3>1, StagesAssumption
        DEF UpdateStage, ReviewerSawOrder, AllStagesApproved
      <4> QED
        BY <1>9, <3>1, <4>1 DEF UpdateStage, TypeOK
    <3>2. CASE req[r].op # "approve"
      BY <1>9, <3>2 DEF UpdateStage, TypeOK
    <3>3. CASE req[r].stage # m /\ req[r].op = "approve"
      <4>1. stages[m] = "approved"
        BY <1>9, <2>2, <3>3 DEF UpdateStage, TypeOK
      <4>2. PICK q \in Requests : pc[q] = "updateApproval"
        BY <2>2, <4>1 DEF LastStageCompletes
      <4> QED
        BY <1>9, <4>2 DEF UpdateStage, TypeOK
    <3> QED
      BY <3>1, <3>2, <3>3
  <2>3. failures' = failures /\ status' = status
    BY <1>9 DEF UpdateStage
  <2> QED
    BY <2>1, <2>2, <2>3 DEF LastStageCompletes
<1>10. ASSUME NEW r \in Requests, UpdateApproval(r) PROVE CompletionInv'
  BY <1>10 DEF UpdateApproval, Outcome, TypeOK, LastStageCompletes, ReviewerSawOrder
<1>11. ASSUME NEW r \in Requests, Complete(r) PROVE CompletionInv'
  BY <1>11 DEF Complete, TypeOK, LastStageCompletes, ReviewerSawOrder
<1>12. ASSUME NEW r \in Requests, SetAIReview(r) PROVE CompletionInv'
  BY <1>12 DEF SetAIReview, TypeOK, LastStageCompletes, ReviewerSawOrder
<1>13. ASSUME NEW r \in Requests, Fail(r) PROVE CompletionInv'
  BY <1>13, BoundAssumption
  DEF Fail, TypeOK, LastStageCompletes, ReviewerSawOrder
<1> QED
  BY <1>1, <1>2, <1>3, <1>4, <1>5, <1>6, <1>7, <1>8, <1>9, <1>10, <1>11,
     <1>12, <1>13 DEF Next, Serve

\* Although ApproveStage decides from stale rows, no completion is lost while
\* calls succeed: the reviewer of the last stage has seen all others approved.
THEOREM CompletionSafety == Spec => []NoLostCompletion
<1>1. Init => CompletionInv
  BY DEF Init, CompletionInv, LastStageCompletes, ReviewerSawOrder
<1>2. CompletionInv => NoLostCompletion
  BY LastStageAssumption DEF CompletionInv, LastStageCompletes, NoLostCompletion
<1> QED
  BY <1>1, <1>2, CompletionStep, TypeCorrect, PTL DEF Spec

\* The completer is only ever called when a verdict is stored.
LEMMA VerdictBeforeCall == Spec => []CompleterWaits
<1>1. Init => CompleterWaits
  BY DEF Init, CompleterWaits
<1>2. TypeOK /\ CompleterWaits /\ [Next]_vars => CompleterWaits'
  <2> SUFFICES ASSUME TypeOK, CompleterWaits, [Next]_vars
               PROVE  CompleterWaits'
    OBVIOUS
  <2> USE DEF CompleterWaits, TypeOK, Goto
  <2>1. CASE UNCHANGED vars
    BY <2>1 DEF vars
  <2>2. ASSUME NEW r \in Requests, Arrive(r) \/ GetApproval(r) \/ GetStages(r)
        PROVE  CompleterWaits'
    BY <2>2 DEF Arrive, GetApproval, GetStages
  <2>3. ASSUME NEW r \in Requests, Authorize(r)
        PROVE  CompleterWaits'
    BY <2>3 DEF Authorize
  <2>4. ASSUME NEW r \in Requests,
               CreateApproval(r) \/ CreateRejection(r) \/ CountReviews(r) \/ UpdateStage(r)
        PROVE  CompleterWaits'
    BY <2>4 DEF CreateApproval, CreateRejection, CountReviews, UpdateStage
  <2>5. ASSUME NEW r \in Requests, UpdateApproval(r)
        PROVE  CompleterWaits'
    BY <2>5 DEF UpdateApproval, Outcome
  <2>6. ASSUME NEW r \in Requests, Complete(r) \/ SetAIReview(r) \/ Fail(r)
        PROVE  CompleterWaits'
    BY <2>6 DEF Complete, SetAIReview, Fail
  <2> QED
    BY <2>1, <2>2, <2>3, <2>4, <2>5, <2>6 DEF Next, Serve
<1> QED
  BY <1>1, <1>2, TypeCorrect, PTL DEF Spec

\* In terms of the contract, a stage has passed when its count is reached.
LEMMA PassedIsCount ==
  ASSUME NEW s \in Stages
  PROVE  Contract!Passed(s) <=> CountReached(s)
  BY DEF Contract!Passed, CountReached, Endorsed, QuorumsOf, Approvers

\* Every step of the engine is a step of the contract or leaves it alone.
LEMMA ContractStep ==
  ASSUME TypeOK, QuorumInv, CompleterWaits, [Next]_vars
  PROVE  [Contract!Next]_(Contract!vars)
<1>1. ASSUME UNCHANGED <<reviews, status, calls>>
      PROVE  UNCHANGED Contract!vars
  BY <1>1 DEF Contract!vars, Endorsed, Approvers
<1>2. ASSUME NEW r \in Requests, CreateApproval(r)
      PROVE  [Contract!Next]_(Contract!vars)
  <2> DEFINE s0 == req[r].stage
             u0 == req[r].user
  <2>1. /\ s0 \in Stages /\ u0 \in Users
        /\ reviews \in [Stages -> [Users -> Decisions]]
        /\ UNCHANGED <<status, calls>>
    BY <1>2 DEF TypeOK, CreateApproval
  <2>2. CASE UNCHANGED reviews
    BY <1>1, <2>1, <2>2
  <2>3. CASE /\ reviews[s0][u0] = NoReview
             /\ reviews' = [reviews EXCEPT ![s0][u0] = "approved"]
    <3>1. MayReview(u0, s0) /\ \A t \in Stages : t < s0 => Contract!Passed(t)
      BY <1>2, <2>1, PassedIsCount DEF CreateApproval, QuorumInv, RequestBacked
    <3> HIDE DEF s0, u0
    <3>2. u0 \in EntitledTo[s0] \ Endorsed[s0]
      BY <2>1, <2>3, <3>1 DEF EntitledTo, Endorsed, Approvers, NoReview
    <3>3. \A s \in Stages :
             Approvers(s)' = IF s = s0 THEN Approvers(s) \cup {u0} ELSE Approvers(s)
      BY <2>1, <2>3 DEF Approvers
    <3>4. Endorsed' = [Endorsed EXCEPT ![s0] = @ \cup {u0}]
      BY <2>1, <3>3 DEF Endorsed
    <3>5. Contract!Endorse(s0, u0)
      BY <2>1, <3>1, <3>2, <3>4 DEF Contract!Endorse
    <3> QED
      BY <2>1, <3>5 DEF Contract!Next
  <2> QED
    BY <1>2, <2>2, <2>3 DEF CreateApproval
<1>3. ASSUME NEW r \in Requests, CreateRejection(r)
      PROVE  [Contract!Next]_(Contract!vars)
  <2> DEFINE s0 == req[r].stage
             u0 == req[r].user
  <2>1. /\ s0 \in Stages /\ u0 \in Users
        /\ reviews \in [Stages -> [Users -> Decisions]]
        /\ UNCHANGED <<status, calls>>
    BY <1>3 DEF TypeOK, CreateRejection
  <2>2. \/ UNCHANGED reviews
        \/ /\ reviews[s0][u0] = NoReview
           /\ reviews' = [reviews EXCEPT ![s0][u0] = "rejected"]
    BY <1>3 DEF CreateRejection
  <2> HIDE DEF s0, u0
  <2>3. \A s \in Stages : Approvers(s)' = Approvers(s)
    BY <2>1, <2>2 DEF Approvers, NoReview
  <2> QED
    BY <2>1, <2>3 DEF Contract!vars, Endorsed
<1>4. ASSUME NEW r \in Requests, UpdateApproval(r)
      PROVE  Contract!Next
  <2> DEFINE v == Outcome(req[r].op)
  <2>1. v \in Contract!Verdicts /\ (v = "approved" => req[r].op = "approve")
    BY DEF Contract!Verdicts, Outcome
  <2>2. v = "approved" => \A s \in Stages : Contract!Passed(s)
    BY <1>4, <2>1, PassedIsCount DEF UpdateApproval, QuorumInv, RequestBacked
  <2>3. status' = v /\ UNCHANGED <<Endorsed, calls>>
    BY <1>4 DEF UpdateApproval, Endorsed, Approvers
  <2> QED
    BY <2>1, <2>2, <2>3 DEF Contract!Next, Contract!Decide
<1>5. ASSUME NEW r \in Requests, Complete(r)
      PROVE  Contract!Next
  <2> DEFINE v == Outcome(req[r].op)
  <2>1. v \in Contract!Verdicts /\ (v = "approved" => req[r].op = "approve")
    BY DEF Contract!Verdicts, Outcome
  <2>2. v = "approved" => \A s \in Stages : Contract!Passed(s)
    BY <1>5, <2>1, PassedIsCount DEF Complete, QuorumInv, RequestBacked
  <2>3. /\ status # "pending"
        /\ calls' = [calls EXCEPT ![v] = @ + 1]
        /\ UNCHANGED <<Endorsed, status>>
    BY <1>5 DEF Complete, CompleterWaits, Endorsed, Approvers
  <2> QED
    BY <2>1, <2>2, <2>3 DEF Contract!Next, Contract!Tell
<1>6. CASE UNCHANGED vars
  BY <1>1, <1>6 DEF vars
<1> QED
  BY <1>1, <1>2, <1>3, <1>4, <1>5, <1>6 DEF Next, Serve, Arrive, GetApproval,
     GetStages, Authorize, CountReviews, UpdateStage, SetAIReview, Fail

\* The engine implements its contract with the completers, for any users,
\* stages, policies, interleaving of requests and failing calls.
THEOREM KeepsContract == Spec => ImplementsContract
<1>1. Init => Contract!Init
  BY DEF Init, Contract!Init, Endorsed, Approvers, NoReview, Decided,
     ApprovalStatus, Contract!Verdicts
<1> QED
  BY <1>1, ContractStep, TypeCorrect, RowsBacked, VerdictBeforeCall, PTL
  DEF Spec, ImplementsContract, Contract!Spec

---------------------------------------------------------------------------
\* The planning of the stages: StagePlanning.

\* A look-up returns stage lists.
LEMMA FoundType ==
  ASSUME NEW table \in [Ids -> Row], NEW k
  PROVE  Found(table, k) \in SUBSET Seq(Template)
  BY DEF Found, Row

LEMMA MomentType ==
  ASSUME NEW table \in [Ids -> Row]
  PROVE  Moment(table) \in SUBSET Moments
<1> DEFINE F(k) == Found(table, k)
<1>1. \A k \in Keys : F(k) \in SUBSET Seq(Template)
  BY FoundType
<1> HIDE DEF F
<1>2. {<<k, F(k)>> : k \in Keys} \in SUBSET Moments
  BY <1>1 DEF Moments
<1> QED
  BY <1>2 DEF Moment, F

\* What buildStageTemplates makes of a valid body is a list of stages, not empty.
LEMMA BuiltType ==
  ASSUME NEW list \in Seq(Template)
  PROVE  /\ BuildTemplates(list) \in Seq(Template)
         /\ ValidStages(list) => BuildTemplates(list) # <<>>
<1>1. \A n \in 1..Len(list) : [list[n] EXCEPT !.min = EffectiveMinApprovers(@)] \in Template
  <2> TAKE n \in 1..Len(list)
  <2>1. list[n] \in Template
    OBVIOUS
  <2>2. EffectiveMinApprovers(list[n].min) \in Int
    BY <2>1 DEF Template, EffectiveMinApprovers
  <2> QED
    BY <2>1, <2>2 DEF Template
<1>2. BuildTemplates(list) \in Seq(Template)
  BY <1>1 DEF BuildTemplates
<1>3. Len(BuildTemplates(list)) = Len(list)
  BY DEF BuildTemplates
<1> QED
  BY <1>2, <1>3 DEF ValidStages

\* noPolicyFallback returns one stage or, for an attachment, nothing.
LEMMA FallbackType ==
  ASSUME NEW e
  PROVE  /\ FallbackFor(e) \in Seq(Stage)
         /\ e = "client_attachment" => FallbackFor(e) = NotStored
<1>1. /\ [order |-> 1, perm |-> "certificate.approve", team |-> NoTeam, min |-> 1] \in Stage
      /\ [order |-> 1, perm |-> "route.approve", team |-> NoTeam, min |-> 1] \in Stage
  <2>1. "certificate.approve" \in Words /\ "route.approve" \in Words
    BY WordsAssumption
  <2> QED
    BY <2>1 DEF Stage
<1>2. /\ FallbackStage("certificate.approve") \in Seq(Stage)
      /\ FallbackStage("route.approve") \in Seq(Stage)
  BY <1>1 DEF FallbackStage
<1>3. <<>> \in Seq(Stage)
  OBVIOUS
<1>4. CASE e = "client_attachment"
  BY <1>3, <1>4 DEF FallbackFor, NotStored
<1>5. CASE e = "certificate"
  <2>1. FallbackFor(e) = FallbackStage("certificate.approve")
    BY <1>5 DEF FallbackFor
  <2> QED
    BY <1>2, <1>5, <2>1
<1>6. CASE e # "client_attachment" /\ e # "certificate"
  <2>1. FallbackFor(e) = FallbackStage("route.approve")
    BY <1>6 DEF FallbackFor
  <2> QED
    BY <1>2, <1>6, <2>1
<1> QED
  BY <1>4, <1>5, <1>6

LEMMA PlanType ==
  ASSUME NEW t \in Template, NEW team \in Teams \cup {NoTeam}
  PROVE  PlanOf(t, team) \in Stage
  BY DEF PlanOf, Stage, Template, EffectiveMinApprovers

\* Assigning one local variable of a request keeps their types.
LEMMA LocalUpdate ==
  ASSUME NEW l \in Local
  PROVE  /\ \A w \in Workers : \A c \in Requested[w] : [l EXCEPT !.call = c] \in Local
         /\ \A x \in Seq(Template) : [l EXCEPT !.templates = x] \in Local
         /\ \A x \in Seq(Stage) : [l EXCEPT !.stages = x] \in Local
         /\ \A x \in SUBSET Teams : [l EXCEPT !.mine = x] \in Local
         /\ \A x \in Row : [l EXCEPT !.row = x] \in Local
         /\ l.templates \in Seq(Template) /\ l.stages \in Seq(Stage)
         /\ l.mine \in SUBSET Teams /\ l.row \in Row
<1>1. \A w \in Workers : \A c \in Requested[w] : [l EXCEPT !.call = c] \in Local
  BY DEF Local
<1>2. \A x \in Seq(Template) : [l EXCEPT !.templates = x] \in Local
  BY DEF Local
<1>3. \A x \in Seq(Stage) : [l EXCEPT !.stages = x] \in Local
  BY DEF Local
<1>4. \A x \in SUBSET Teams : [l EXCEPT !.mine = x] \in Local
  BY DEF Local
<1>5. \A x \in Row : [l EXCEPT !.row = x] \in Local
  BY DEF Local
<1>6. /\ l.templates \in Seq(Template) /\ l.stages \in Seq(Stage)
      /\ l.mine \in SUBSET Teams /\ l.row \in Row
  BY DEF Local
<1> QED
  BY <1>1, <1>2, <1>3, <1>4, <1>5, <1>6

LEMMA TypeStep ==
  ASSUME PlanTypeOK, PlanInv, [PlanNext]_planVars
  PROVE  PlanTypeOK'
<1>0. \A w \in Workers : InPlace(w)
  BY DEF PlanInv, RequestInv
<1>1. CASE UNCHANGED planVars
  BY <1>1 DEF planVars, PlanTypeOK
<1> USE PlanningBounds, SeedAssumption, RequestedAssumption DEF Proceed, tables, people, ReadOnly
<1>2. ASSUME NEW w \in Workers, Start(w) PROVE PlanTypeOK'
  <2>1. PICK c \in Requested[w] :
          /\ loc' = [loc EXCEPT ![w].call = c]
          /\ IF c.op = "submit"
             THEN /\ held' = [held EXCEPT ![w] = Moment(policies)]
                  /\ teamsHeld' = [teamsHeld EXCEPT ![w] = {TeamMoment(c.user)}]
             ELSE UNCHANGED <<held, teamsHeld>>
    BY <1>2 DEF Start
  <2>2. loc' \in [Workers -> Local]
    BY <2>1, LocalUpdate DEF PlanTypeOK
  <2>3. held' \in [Workers -> SUBSET Moments]
    BY <2>1, MomentType DEF PlanTypeOK
  <2>4. TeamMoment(c.user) \in TeamMoments
    BY DEF TeamMoment, TeamsOf, TeamsIn, PlanTypeOK, TeamMoments
  <2>5. teamsHeld' \in [Workers -> SUBSET TeamMoments]
    BY <2>1, <2>4 DEF PlanTypeOK
  <2>6. at' \in [Workers -> PlanPoints]
    BY <1>2 DEF Start, PlanTypeOK, PlanPoints
  <2> QED
    BY <1>2, <2>2, <2>3, <2>5, <2>6 DEF Start, PlanTypeOK
<1>3. ASSUME NEW w \in Workers, FailCall(w) PROVE PlanTypeOK'
  BY <1>3 DEF FailCall, PlanTypeOK, PlanPoints
<1>4. ASSUME NEW w \in Workers, LookupAction(w) PROVE PlanTypeOK'
  <2>1. \/ UNCHANGED loc
        \/ \E list \in Seq(Template) : loc' = [loc EXCEPT ![w].templates = list]
    BY <1>4, FoundType DEF LookupAction, PlanTypeOK
  <2>2. loc' \in [Workers -> Local]
    <3>1. CASE UNCHANGED loc
      BY <3>1 DEF PlanTypeOK
    <3>2. CASE \E list \in Seq(Template) : loc' = [loc EXCEPT ![w].templates = list]
      BY <3>2, LocalUpdate DEF PlanTypeOK
    <3> QED
      BY <2>1, <3>1, <3>2
  <2>3. at' \in [Workers -> PlanPoints]
    BY <1>4 DEF LookupAction, PlanTypeOK, PlanPoints
  <2> QED
    BY <1>4, <2>2, <2>3 DEF LookupAction, PlanTypeOK
<1>5. ASSUME NEW w \in Workers, LookupDefault(w) PROVE PlanTypeOK'
  <2>0. Found(policies, Key(w, Default)) \subseteq Seq(Template) /\ <<>> \in Seq(Template)
    BY FoundType DEF PlanTypeOK
  <2>1. \E list \in Seq(Template) : loc' = [loc EXCEPT ![w].templates = list]
    BY <1>5, <2>0 DEF LookupDefault
  <2> QED
    BY <1>5, <2>1, LocalUpdate DEF LookupDefault, PlanTypeOK, PlanPoints
<1>6. ASSUME NEW w \in Workers, AtTemplate(w) \/ (OtherTeamHalfRead(w) /\ at[w] = "projectTeams"),
             NEW team \in Teams \cup {NoTeam}, AppendStage(w, team)
      PROVE  loc' \in [Workers -> Local]
  <2>1. NextTemplate(w) \in Template
    BY <1>6, LocalUpdate DEF PlanTypeOK, AtTemplate, OtherTeamHalfRead, NextTemplate, Resolved
  <2>2. Append(loc[w].stages, PlanOf(NextTemplate(w), team)) \in Seq(Stage)
    BY <2>1, PlanType, LocalUpdate DEF PlanTypeOK
  <2> QED
    BY <1>6, <2>2, LocalUpdate DEF AppendStage, PlanTypeOK
<1>7. ASSUME NEW w \in Workers, ResolveAny(w) PROVE PlanTypeOK'
  BY <1>6, <1>7 DEF ResolveAny, PlanTypeOK
<1>8. ASSUME NEW w \in Workers, ResolveSubmitterTeam(w) PROVE PlanTypeOK'
  <2>1. TeamsOf(Call(w).user) \subseteq Teams
    BY DEF TeamsOf, TeamsIn, PlanTypeOK
  <2>2. CASE UNCHANGED loc /\ Proceed(w, "done")
    BY <1>8, <2>2 DEF ResolveSubmitterTeam, PlanTypeOK, PlanPoints
  <2>3. CASE \E t \in TeamsOf(Call(w).user) : AppendStage(w, t) /\ UNCHANGED at
    BY <1>6, <1>8, <2>1, <2>3 DEF ResolveSubmitterTeam, PlanTypeOK
  <2> QED
    BY <1>8, <2>2, <2>3 DEF ResolveSubmitterTeam
<1>9. ASSUME NEW w \in Workers, ReadSubmitterTeams(w) PROVE PlanTypeOK'
  <2>1. TeamsOf(Call(w).user) \subseteq Teams
    BY DEF TeamsOf, TeamsIn, PlanTypeOK
  <2> QED
    BY <1>9, <2>1, LocalUpdate DEF ReadSubmitterTeams, PlanTypeOK, PlanPoints
<1>10. ASSUME NEW w \in Workers, ResolveOtherTeam(w) PROVE PlanTypeOK'
  <2>1. OtherTeams(loc[w].mine, assigned) \subseteq Teams \cup {NoTeam}
    BY LocalUpdate DEF OtherTeams, PlanTypeOK
  <2>2. OtherTeamHalfRead(w)
    BY DEF PlanInv, RequestInv
  <2> QED
    BY <1>6, <1>10, <2>1, <2>2 DEF ResolveOtherTeam, PlanTypeOK, PlanPoints
<1>11. ASSUME NEW w \in Workers, StoreApproval(w) PROVE PlanTypeOK'
  <2>1. FallbackFor(Call(w).entity) \in Seq(Stage) /\ NotStored \in Seq(Stage)
    BY FallbackType DEF NotStored
  <2>2. loc[w].stages \in Seq(Stage)
    BY LocalUpdate DEF PlanTypeOK
  <2>3. \E list \in Seq(Stage) : approval' = [approval EXCEPT ![w] = list]
    BY <1>11, <2>1, <2>2 DEF StoreApproval
  <2> QED
    BY <1>11, <2>3 DEF StoreApproval, PlanTypeOK, PlanPoints
<1>12. ASSUME NEW w \in Workers, CheckDuplicate(w) PROVE PlanTypeOK'
  <2>1. at' \in [Workers -> PlanPoints] /\ failed' \in 0..MaxFailed
    <3>1. \/ Proceed(w, "done") /\ UNCHANGED failed
          \/ Proceed(w, "insert") /\ UNCHANGED failed
          \/ Proceed(w, "insert") /\ failed < MaxFailed /\ failed' = failed + 1
      BY <1>12 DEF CheckDuplicate
    <3>2. at \in [Workers -> PlanPoints] /\ failed \in 0..MaxFailed
      BY DEF PlanTypeOK
    <3> QED
      BY <3>1, <3>2 DEF PlanPoints
  <2> QED
    BY <1>12, <2>1 DEF CheckDuplicate, PlanTypeOK
<1>13. ASSUME policies' \in [Ids -> Row], Observe
       PROVE  held' \in [Workers -> SUBSET Moments]
  BY <1>13, MomentType DEF Observe, PlanTypeOK
<1>14. ASSUME NEW w \in Workers, InsertPolicy(w) PROVE PlanTypeOK'
  <2> DEFINE row == [key |-> <<Call(w).entity, Call(w).action>>,
                     stages |-> BuildTemplates(Call(w).list)]
  <2>1. IsCall(Call(w)) /\ Call(w).op = "create" /\ Call(w).entity \in ValidEntityTypes
    BY <1>0, <1>14 DEF InsertPolicy, InPlace
  <2>2. row \in Row
    BY <2>1, BuiltType DEF IsCall, Row, Keys, Entities, ValidEntityTypes
  <2>3. policies' \in [Ids -> Row] /\ used' \in 0..MaxPolicies
    <3>1. \/ /\ policies' = [policies EXCEPT ![used + 1] = row]
             /\ used' = used + 1
          \/ UNCHANGED <<policies, used>>
      BY <1>14 DEF InsertPolicy
    <3>2. used < MaxPolicies /\ used \in 0..MaxPolicies /\ policies \in [Ids -> Row]
      BY <1>14 DEF InsertPolicy, PlanTypeOK
    <3> HIDE DEF row
    <3> QED
      BY <2>2, <3>1, <3>2 DEF Ids
  <2> QED
    BY <1>13, <1>14, <2>3 DEF InsertPolicy, PlanTypeOK, PlanPoints
<1>15. ASSUME NEW w \in Workers, GetPolicy(w) PROVE PlanTypeOK'
  <2>1. Call(w).id \in Ids
    BY <1>0, <1>15 DEF GetPolicy, InPlace, IsCall
  <2>2. \/ UNCHANGED loc
        \/ \E row \in Row : loc' = [loc EXCEPT ![w].row = row]
    BY <1>15, <2>1 DEF GetPolicy, PlanTypeOK
  <2>3. loc' \in [Workers -> Local]
    <3>1. CASE UNCHANGED loc
      BY <3>1 DEF PlanTypeOK
    <3>2. CASE \E row \in Row : loc' = [loc EXCEPT ![w].row = row]
      BY <3>2, LocalUpdate DEF PlanTypeOK
    <3> QED
      BY <2>2, <3>1, <3>2
  <2>4. at' \in [Workers -> PlanPoints]
    BY <1>15 DEF GetPolicy, PlanTypeOK, PlanPoints
  <2> QED
    BY <1>15, <2>3, <2>4 DEF GetPolicy, PlanTypeOK
<1>16. ASSUME NEW w \in Workers, SavePolicy(w) PROVE PlanTypeOK'
  <2>1. IsCall(Call(w)) /\ Call(w).op = "update"
    BY <1>0, <1>16 DEF SavePolicy, InPlace
  <2>2. [loc[w].row EXCEPT !.stages = BuildTemplates(Call(w).list)] \in Row
    <3>1. BuildTemplates(Call(w).list) \in Seq(Template)
      BY <2>1, BuiltType DEF IsCall
    <3>2. loc[w].row \in Row
      BY LocalUpdate DEF PlanTypeOK
    <3> QED
      BY <3>1, <3>2 DEF Row
  <2>3. policies' \in [Ids -> Row]
    BY <1>16, <2>1, <2>2 DEF SavePolicy, IsCall, PlanTypeOK
  <2> QED
    BY <1>13, <1>16, <2>3 DEF SavePolicy, PlanTypeOK, PlanPoints
<1>17. ASSUME NEW w \in Workers, DeletePolicy(w) PROVE PlanTypeOK'
  <2>1. NoPolicy \in Row
    BY DEF NoPolicy, Row
  <2>2. policies' \in [Ids -> Row]
    BY <1>17, <2>1 DEF DeletePolicy, PlanTypeOK
  <2> QED
    BY <1>13, <1>17, <2>2 DEF DeletePolicy, PlanTypeOK, PlanPoints
<1>18. ASSUME MoveMember \/ MoveTeam PROVE PlanTypeOK'
  <2>1. member' \subseteq Teams \X Submitters /\ assigned' \subseteq Teams
    <3>1. CASE MoveMember
      BY <3>1 DEF MoveMember, PlanTypeOK
    <3>2. CASE MoveTeam
      BY <3>2 DEF MoveTeam, PlanTypeOK
    <3> QED
      BY <1>18, <3>1, <3>2
  <2>2. \A w \in Workers : [mine |-> TeamsIn(member', assigned', Call(w).user),
                            all |-> assigned'] \in TeamMoments
    BY <2>1 DEF TeamsIn, TeamMoments
  <2>3. teamsHeld' \in [Workers -> SUBSET TeamMoments]
    <3>1. ObserveTeams
      BY <1>18 DEF MoveMember, MoveTeam, Moving
    <3> QED
      BY <2>2, <3>1 DEF ObserveTeams, PlanTypeOK
  <2> QED
    BY <1>18, <2>1, <2>3 DEF MoveMember, MoveTeam, Moving, PlanTypeOK
<1> QED
  BY <1>1, <1>2, <1>3, <1>4, <1>5, <1>7, <1>8, <1>9, <1>10, <1>11, <1>12, <1>14, <1>15,
     <1>16, <1>17, <1>18 DEF PlanNext, Submit, Administer

\* A longer history rules out nothing that a shorter one allows.
LEMMA HistoryGrows ==
  ASSUME NEW w \in Workers, Call(w)' = Call(w), held[w] \subseteq held'[w],
         teamsHeld[w] \subseteq teamsHeld'[w]
  PROVE  /\ Ruling(w) \subseteq Ruling(w)'
         /\ Ungoverned(w) => Ungoverned(w)'
         /\ \A scope, team : Honours(w, scope, team) => Honours(w, scope, team)'
<1>1. \A a : Key(w, a)' = Key(w, a)
  BY DEF Key
<1>2. Ruling(w) \subseteq Ruling(w)'
  BY <1>1 DEF Ruling
<1>3. Ungoverned(w) => Ungoverned(w)'
  BY <1>1 DEF Ungoverned
<1>4. \A scope, team : Honours(w, scope, team) => Honours(w, scope, team)'
  BY DEF Honours
<1> QED
  BY <1>2, <1>3, <1>4

\* A request that does not move stays in order while its history grows.
LEMMA OtherRequests ==
  ASSUME NEW w \in Workers, RequestInv(w), UNCHANGED <<at[w], loc[w], approval[w]>>,
         held[w] \subseteq held'[w], teamsHeld[w] \subseteq teamsHeld'[w]
  PROVE  RequestInv(w)'
<1>0. Call(w)' = Call(w)
  BY DEF Call
<1>1. /\ Ruling(w) \subseteq Ruling(w)'
      /\ Ungoverned(w) => Ungoverned(w)'
      /\ \A scope, team : Honours(w, scope, team) => Honours(w, scope, team)'
  BY <1>0, HistoryGrows
<1>2. InPlace(w)'
  BY <1>0 DEF RequestInv, InPlace
<1>3. ReadsRule(w)'
  BY <1>0, <1>1 DEF RequestInv, ReadsRule, Key
<1>4. StagesSoFar(w)'
  BY <1>1 DEF RequestInv, StagesSoFar, Resolved
<1>5. OtherTeamHalfRead(w)'
  BY DEF RequestInv, OtherTeamHalfRead, Resolved
<1>6. GateOf(w)'
  BY <1>0, <1>1 DEF RequestInv, GateOf, Carries
<1>7. ScopesOf(w)'
  BY <1>1 DEF RequestInv, ScopesOf
<1> QED
  BY <1>2, <1>3, <1>4, <1>5, <1>6, <1>7 DEF RequestInv

\* The history of a submission never loses a moment.
LEMMA NothingForgotten ==
  ASSUME PlanTypeOK, [PlanNext]_planVars, NEW w \in Workers, ~Start(w)
  PROVE  /\ held[w] \subseteq held'[w] /\ teamsHeld[w] \subseteq teamsHeld'[w]
         /\ loc'[w].call = loc[w].call
<1> USE DEF PlanTypeOK
<1>1. CASE UNCHANGED planVars
  BY <1>1 DEF planVars
<1>2. ASSUME NEW v \in Workers, Start(v)
      PROVE  UNCHANGED <<held[w], teamsHeld[w], loc[w]>>
  <2>1. v # w
    BY <1>2
  <2> QED
    BY <1>2, <2>1 DEF Start
<1>3. ASSUME NEW v \in Workers,
             \/ FailCall(v) \/ LookupAction(v) \/ LookupDefault(v) \/ ReadSubmitterTeams(v)
             \/ StoreApproval(v) \/ CheckDuplicate(v) \/ GetPolicy(v)
      PROVE  UNCHANGED <<held, teamsHeld>> /\ loc'[w].call = loc[w].call
  <2>1. CASE FailCall(v) \/ StoreApproval(v) \/ CheckDuplicate(v)
    BY <2>1 DEF FailCall, StoreApproval, CheckDuplicate
  <2>2. CASE LookupAction(v) \/ LookupDefault(v)
    <3>1. \/ UNCHANGED loc
          \/ \E list : loc' = [loc EXCEPT ![v].templates = list]
      BY <2>2 DEF LookupAction, LookupDefault
    <3>2. loc'[w].call = loc[w].call
      <4>1. CASE UNCHANGED loc
        BY <4>1
      <4>2. ASSUME NEW list, loc' = [loc EXCEPT ![v].templates = list]
            PROVE  loc'[w].call = loc[w].call
        BY <4>2 DEF Local
      <4> QED
        BY <3>1, <4>1, <4>2
    <3> QED
      BY <2>2, <3>2 DEF LookupAction, LookupDefault, ReadOnly
  <2>3. CASE ReadSubmitterTeams(v)
    BY <2>3 DEF ReadSubmitterTeams, ReadOnly
  <2>4. CASE GetPolicy(v)
    <3>1. \/ UNCHANGED loc
          \/ \E row : loc' = [loc EXCEPT ![v].row = row]
      BY <2>4 DEF GetPolicy
    <3>2. loc'[w].call = loc[w].call
      BY <3>1 DEF Local
    <3> QED
      BY <2>4, <3>2 DEF GetPolicy, ReadOnly
  <2> QED
    BY <1>3, <2>1, <2>2, <2>3, <2>4
<1>4. ASSUME NEW v \in Workers, NEW t, AppendStage(v, t)
      PROVE  loc'[w].call = loc[w].call
  BY <1>4 DEF AppendStage
<1>5. ASSUME NEW v \in Workers,
             ResolveAny(v) \/ ResolveSubmitterTeam(v) \/ ResolveOtherTeam(v)
      PROVE  UNCHANGED <<held, teamsHeld>> /\ loc'[w].call = loc[w].call
  BY <1>4, <1>5 DEF ResolveAny, ResolveSubmitterTeam, ResolveOtherTeam, ReadOnly
<1>6. ASSUME NEW v \in Workers, InsertPolicy(v) \/ SavePolicy(v) \/ DeletePolicy(v)
      PROVE  held[w] \subseteq held'[w] /\ UNCHANGED <<teamsHeld, loc>>
  BY <1>6 DEF InsertPolicy, SavePolicy, DeletePolicy, Observe
<1>7. ASSUME MoveMember \/ MoveTeam
      PROVE  teamsHeld[w] \subseteq teamsHeld'[w] /\ UNCHANGED <<held, loc>>
  BY <1>7 DEF MoveMember, MoveTeam, Moving, ObserveTeams
<1> QED
  BY <1>1, <1>2, <1>3, <1>5, <1>6, <1>7 DEF PlanNext, Submit, Administer

\* Every key of the table is part of a moment.
LEMMA MomentHas ==
  ASSUME NEW table, NEW k \in Keys
  PROVE  <<k, Found(table, k)>> \in Moment(table)
  BY DEF Moment

\* A table without empty policies gives a moment without them.
LEMMA MomentNotEmpty ==
  ASSUME NEW table,
         \A i \in Ids : table[i] # NoPolicy => table[i].stages # <<>>
  PROVE  \A h \in Moment(table) : <<>> \notin h[2]
<1>1. \A k : <<>> \notin Found(table, k)
  BY DEF Found
<1> QED
  BY <1>1 DEF Moment

\* The keys a submission looks under are keys of the table.
LEMMA SubmissionKeys ==
  ASSUME NEW w \in Workers, IsCall(Call(w)), Call(w).op = "submit"
  PROVE  Key(w, Call(w).action) \in Keys /\ Key(w, Default) \in Keys
  BY DEF IsCall, Key, Keys

LEMMA RulingIntro ==
  ASSUME NEW w \in Workers, NEW rows, NEW list \in rows,
         \/ <<Key(w, Call(w).action), rows>> \in held[w]
         \/ /\ <<Key(w, Default), rows>> \in held[w]
            /\ <<Key(w, Call(w).action), {}>> \in held[w]
  PROVE  list \in Ruling(w)
  BY DEF Ruling

\* Planning one more stage keeps a submission in order.
LEMMA OneMoreStage ==
  ASSUME PlanTypeOK, NEW w \in Workers, RequestInv(w),
         at[w] \in {"resolve", "projectTeams"}, Resolved(w) < Len(loc[w].templates),
         NEW t \in Teams \cup {NoTeam}, AppendStage(w, t),
         Honours(w, NextTemplate(w).scope, t),
         at'[w] = "resolve", UNCHANGED <<approval, held, teamsHeld>>
  PROVE  RequestInv(w)'
<1> DEFINE l == loc[w]
           new == PlanOf(NextTemplate(w), t)
<1>1. /\ l \in Local /\ l.stages \in Seq(Stage) /\ l.templates \in Seq(Template)
      /\ loc'[w] = [l EXCEPT !.stages = Append(l.stages, new)]
  BY LocalUpdate DEF PlanTypeOK, AppendStage
<1>2. /\ loc'[w].call = l.call /\ loc'[w].templates = l.templates
      /\ loc'[w].mine = l.mine /\ loc'[w].stages = Append(l.stages, new)
  BY <1>1 DEF Local
<1>3. Call(w)' = Call(w) /\ Ruling(w)' = Ruling(w) /\ (Ungoverned(w) => Ungoverned(w)')
  BY <1>2 DEF Call, Ruling, Ungoverned, Key
<1>4. \A scope, team : Honours(w, scope, team) => Honours(w, scope, team)'
  BY DEF Honours
<1>5. approval[w] = NotStored /\ approval'[w] = NotStored
  BY DEF RequestInv, InPlace
<1>6. InPlace(w)'
  BY <1>3, <1>5 DEF RequestInv, InPlace
<1>7. ReadsRule(w)'
  BY <1>2, <1>3 DEF RequestInv, ReadsRule
<1>8. StagesSoFar(w)'
  <2>1. /\ Len(Append(l.stages, new)) = Len(l.stages) + 1
        /\ Len(l.stages) < Len(l.templates)
        /\ Len(l.stages) \in Nat /\ Len(l.templates) \in Nat
    BY <1>1, PlanType DEF Resolved, NextTemplate
  <2>2. ASSUME NEW n \in 1..Len(l.stages)
        PROVE  /\ Append(l.stages, new)[n] = l.stages[n]
               /\ l.stages[n] = PlanOf(l.templates[n], l.stages[n].team)
               /\ Honours(w, l.templates[n].scope, l.stages[n].team)
    BY <1>1 DEF RequestInv, StagesSoFar, Resolved
  <2>3. Append(l.stages, new)[Len(l.stages) + 1] = new
    BY <1>1
  <2>4. /\ new.team = t
        /\ new = PlanOf(l.templates[Len(l.stages) + 1], new.team)
        /\ Honours(w, l.templates[Len(l.stages) + 1].scope, new.team)
    BY DEF PlanOf, NextTemplate, Resolved
  <2>5. \A n \in 1..(Len(l.stages) + 1) :
           /\ Append(l.stages, new)[n] = PlanOf(l.templates[n], Append(l.stages, new)[n].team)
           /\ Honours(w, l.templates[n].scope, Append(l.stages, new)[n].team)
    <3> TAKE n \in 1..(Len(l.stages) + 1)
    <3> HIDE DEF new, l
    <3>1. CASE n \in 1..Len(l.stages)
      BY <2>2, <3>1
    <3>2. CASE n = Len(l.stages) + 1
      BY <2>3, <2>4, <3>2
    <3> QED
      BY <2>1, <3>1, <3>2
  <2> QED
    BY <1>2, <1>4, <2>1, <2>5 DEF StagesSoFar, Resolved
<1>9. OtherTeamHalfRead(w)' /\ GateOf(w)' /\ ScopesOf(w)'
  BY <1>5 DEF OtherTeamHalfRead, GateOf, ScopesOf
<1> QED
  BY <1>6, <1>7, <1>8, <1>9 DEF RequestInv

\* A request that takes a step and stores no approval now has none to answer for.
LEMMA NothingStored ==
  ASSUME NEW w \in Workers, approval'[w] = NotStored
  PROVE  GateOf(w)' /\ ScopesOf(w)'
  BY DEF GateOf, ScopesOf

\* The first steps of every request, and its failure.
LEMMA FirstSteps ==
  ASSUME PlanTypeOK, PlanInv, NEW w \in Workers, Start(w) \/ FailCall(w)
  PROVE  RequestInv(w)'
<1>0. RequestInv(w) /\ InPlace(w)
  BY DEF PlanInv, RequestInv
<1>1. CASE Start(w)
  <2>1. PICK c \in Requested[w] :
          /\ loc' = [loc EXCEPT ![w].call = c]
          /\ at' = [at EXCEPT ![w] = CASE c.op = "submit" -> "lookup"
                                       [] c.op = "create" -> "check"
                                       [] OTHER           -> "get"]
    BY <1>1 DEF Start, Proceed
  <2>2. IsCall(c) /\ c.op \in PlanOps
    BY RequestedAssumption DEF IsCall
  <2>3. /\ loc'[w].call = c /\ loc'[w].stages = loc[w].stages
        /\ at'[w] \in {"lookup", "check", "get"}
        /\ at'[w] = "lookup" => c.op = "submit"
        /\ at'[w] = "check" => c.op = "create"
        /\ at'[w] = "get" => c.op \in {"update", "delete"}
    BY <2>1, <2>2 DEF PlanTypeOK, Local, PlanOps
  <2>4. approval'[w] = NotStored /\ loc'[w].stages = <<>>
    BY <1>0, <1>1, <2>3 DEF Start, InPlace
  <2>5. InPlace(w)'
    BY <2>2, <2>3, <2>4 DEF InPlace, Call
  <2>6. ReadsRule(w)' /\ StagesSoFar(w)' /\ OtherTeamHalfRead(w)'
    BY <2>3 DEF ReadsRule, StagesSoFar, OtherTeamHalfRead
  <2> QED
    BY <2>4, <2>5, <2>6, NothingStored DEF RequestInv
<1>2. CASE FailCall(w)
  <2>1. at'[w] = "done" /\ UNCHANGED <<loc, approval>> /\ at[w] \notin {"idle", "done"}
    BY <1>2 DEF FailCall, Proceed, Running, PlanTypeOK
  <2>2. approval'[w] = NotStored
    BY <1>0, <2>1 DEF InPlace
  <2>3. InPlace(w)' /\ ReadsRule(w)' /\ StagesSoFar(w)' /\ OtherTeamHalfRead(w)'
    BY <1>0, <2>1, <2>2 DEF InPlace, Call, ReadsRule, StagesSoFar, OtherTeamHalfRead
  <2> QED
    BY <2>2, <2>3, NothingStored DEF RequestInv
<1> QED
  BY <1>1, <1>2

\* The two look-ups find what the history of the submission holds.
LEMMA LookupSteps ==
  ASSUME PlanTypeOK, PlanInv, NEW w \in Workers, LookupAction(w) \/ LookupDefault(w)
  PROVE  RequestInv(w)'
<1>0. RequestInv(w) /\ InPlace(w) /\ ReadsRule(w)
  BY DEF PlanInv, RequestInv
<1>1. /\ IsCall(Call(w)) /\ Call(w).op = "submit" /\ approval[w] = NotStored
      /\ loc[w].stages = <<>> /\ at[w] \in {"lookup", "lookupDefault"}
  BY <1>0 DEF LookupAction, LookupDefault, InPlace
<1>2. Moment(policies) \subseteq held[w]
  BY <1>1 DEF PlanInv, HistoryCurrent, Planning, Running
<1>3. \A k \in {Key(w, Call(w).action), Key(w, Default)} :
         <<k, Found(policies, k)>> \in held[w]
  BY <1>1, <1>2, SubmissionKeys, MomentHas
<1>4. UNCHANGED <<approval, held, teamsHeld>>
  BY DEF LookupAction, LookupDefault, ReadOnly
<1>5. ASSUME NEW list, loc' = [loc EXCEPT ![w].templates = list], at'[w] = "resolve",
             list \in Ruling(w) \/ (list = <<>> /\ Ungoverned(w)), list \in Seq(Template)
      PROVE  RequestInv(w)'
  <2>1. loc'[w].call = loc[w].call /\ loc'[w].stages = <<>> /\ loc'[w].templates = list
    BY <1>1, <1>5 DEF PlanTypeOK, Local
  <2>2. Call(w)' = Call(w) /\ Ruling(w)' = Ruling(w) /\ (Ungoverned(w) => Ungoverned(w)')
    BY <1>4, <2>1 DEF Call, Ruling, Ungoverned, Key
  <2>3. InPlace(w)'
    BY <1>1, <1>4, <1>5, <2>2 DEF InPlace
  <2>4. ReadsRule(w)'
    BY <1>5, <2>1, <2>2 DEF ReadsRule
  <2>5. Len(loc'[w].stages) = 0 /\ Len(list) \in Nat
    BY <1>5, <2>1
  <2>6. StagesSoFar(w)'
    BY <2>1, <2>5 DEF StagesSoFar, Resolved
  <2>7. OtherTeamHalfRead(w)'
    BY <1>5 DEF OtherTeamHalfRead
  <2> QED
    BY <1>1, <1>4, <2>3, <2>4, <2>6, <2>7, NothingStored DEF RequestInv
<1>6. CASE LookupAction(w)
  <2> DEFINE rows == Found(policies, Key(w, Call(w).action))
  <2>1. CASE rows = {} /\ Proceed(w, "lookupDefault") /\ UNCHANGED loc
    <3>1. at'[w] = "lookupDefault" /\ Call(w)' = Call(w)
      BY <2>1 DEF Proceed, PlanTypeOK, Call
    <3>2. InPlace(w)' /\ StagesSoFar(w)' /\ OtherTeamHalfRead(w)'
      BY <1>1, <1>4, <2>1, <3>1 DEF InPlace, StagesSoFar, OtherTeamHalfRead
    <3>3. ReadsRule(w)'
      BY <1>3, <1>4, <2>1, <3>1 DEF ReadsRule, Key
    <3> QED
      BY <1>1, <1>4, <3>2, <3>3, NothingStored DEF RequestInv
  <2>2. ASSUME NEW list \in rows, loc' = [loc EXCEPT ![w].templates = list], Proceed(w, "resolve")
        PROVE  RequestInv(w)'
    <3>1. list \in Ruling(w)
      BY <1>3, <2>2, RulingIntro
    <3>2. list \in Seq(Template) /\ at'[w] = "resolve"
      BY <2>2, FoundType DEF PlanTypeOK, Proceed
    <3> QED
      BY <1>5, <2>2, <3>1, <3>2
  <2> QED
    BY <1>6, <2>1, <2>2 DEF LookupAction
<1>7. CASE LookupDefault(w)
  <2> DEFINE rows == Found(policies, Key(w, Default))
  <2>1. <<Key(w, Call(w).action), {}>> \in held[w]
    BY <1>0, <1>7 DEF LookupDefault, ReadsRule
  <2>2. PICK list : /\ list \in rows \/ (rows = {} /\ list = <<>>)
                    /\ loc' = [loc EXCEPT ![w].templates = list]
    BY <1>7 DEF LookupDefault
  <2>3. list \in Ruling(w) \/ (list = <<>> /\ Ungoverned(w))
    <3>1. CASE list \in rows
      BY <1>3, <2>1, <3>1, RulingIntro
    <3>2. CASE rows = {} /\ list = <<>>
      BY <1>3, <2>1, <3>2 DEF Ungoverned
    <3> QED
      BY <2>2, <3>1, <3>2
  <2>4. list \in Seq(Template) /\ at'[w] = "resolve"
    <3>1. rows \subseteq Seq(Template)
      BY FoundType DEF PlanTypeOK
    <3>2. <<>> \in Seq(Template)
      OBVIOUS
    <3> HIDE DEF rows
    <3> QED
      BY <1>7, <2>2, <3>1, <3>2 DEF LookupDefault, Proceed, PlanTypeOK
  <2> QED
    BY <1>5, <2>2, <2>3, <2>4
<1> QED
  BY <1>6, <1>7

\* Resolving the team scope of a stage, with the reads it makes.
LEMMA ResolveSteps ==
  ASSUME PlanTypeOK, PlanInv, NEW w \in Workers,
         \/ ResolveAny(w) \/ ResolveSubmitterTeam(w)
         \/ ReadSubmitterTeams(w) \/ ResolveOtherTeam(w)
  PROVE  RequestInv(w)'
<1>0. RequestInv(w) /\ InPlace(w)
  BY DEF PlanInv, RequestInv
<1>1. /\ at[w] \in {"resolve", "projectTeams"} /\ Call(w).op = "submit"
      /\ IsCall(Call(w)) /\ approval[w] = NotStored
  BY <1>0 DEF ResolveAny, ResolveSubmitterTeam, ReadSubmitterTeams, ResolveOtherTeam,
     AtTemplate, InPlace
<1>2. TeamMoment(Call(w).user) \in teamsHeld[w]
  BY <1>1 DEF PlanInv, HistoryCurrent, Planning, Running
<1>3. UNCHANGED <<approval, held, teamsHeld>>
  BY DEF ResolveAny, ResolveSubmitterTeam, ReadSubmitterTeams, ResolveOtherTeam, ReadOnly
<1>4. TeamsOf(Call(w).user) \subseteq Teams /\ loc[w].mine \subseteq Teams
  BY LocalUpdate DEF TeamsOf, TeamsIn, PlanTypeOK
<1>5. CASE ResolveAny(w)
  <2>1. Honours(w, NextTemplate(w).scope, NoTeam)
    BY <1>5 DEF ResolveAny, Honours
  <2> QED
    BY <1>0, <1>1, <1>3, <1>5, <2>1, OneMoreStage DEF ResolveAny, AtTemplate
<1>6. CASE ResolveSubmitterTeam(w)
  <2>1. CASE Proceed(w, "done") /\ UNCHANGED loc
    <3>1. at'[w] = "done"
      BY <2>1 DEF Proceed, PlanTypeOK
    <3>2. InPlace(w)' /\ ReadsRule(w)' /\ StagesSoFar(w)' /\ OtherTeamHalfRead(w)'
      BY <1>1, <1>3, <2>1, <3>1 DEF InPlace, Call, ReadsRule, StagesSoFar, OtherTeamHalfRead
    <3> QED
      BY <1>1, <1>3, <3>2, NothingStored DEF RequestInv
  <2>2. ASSUME NEW t \in TeamsOf(Call(w).user), AppendStage(w, t), UNCHANGED at
        PROVE  RequestInv(w)'
    <3>1. Honours(w, NextTemplate(w).scope, t)
      BY <1>2, <1>6, <2>2 DEF ResolveSubmitterTeam, Honours, TeamMoment
    <3> QED
      BY <1>0, <1>1, <1>3, <1>4, <1>6, <2>2, <3>1, OneMoreStage
      DEF ResolveSubmitterTeam, AtTemplate
  <2> QED
    BY <1>6, <2>1, <2>2 DEF ResolveSubmitterTeam
<1>7. CASE ReadSubmitterTeams(w)
  <2>1. /\ loc'[w].call = loc[w].call /\ loc'[w].stages = loc[w].stages
        /\ loc'[w].templates = loc[w].templates /\ loc'[w].mine = TeamsOf(Call(w).user)
        /\ at'[w] = "projectTeams" /\ at[w] = "resolve"
    BY <1>7 DEF ReadSubmitterTeams, AtTemplate, Proceed, PlanTypeOK, Local
  <2>2. Call(w)' = Call(w) /\ Ruling(w)' = Ruling(w) /\ (Ungoverned(w) => Ungoverned(w)')
    BY <1>3, <2>1 DEF Call, Ruling, Ungoverned, Key
  <2>3. \A scope, team : Honours(w, scope, team) => Honours(w, scope, team)'
    BY <1>3 DEF Honours
  <2>4. InPlace(w)'
    BY <1>0, <1>1, <1>3, <2>1, <2>2 DEF InPlace
  <2>5. ReadsRule(w)'
    BY <1>0, <2>1, <2>2 DEF RequestInv, ReadsRule
  <2>6. StagesSoFar(w)'
    BY <1>0, <2>1, <2>3 DEF RequestInv, StagesSoFar, Resolved
  <2>7. OtherTeamHalfRead(w)'
    BY <1>2, <1>3, <1>7, <2>1
    DEF ReadSubmitterTeams, AtTemplate, NextTemplate, OtherTeamHalfRead, Resolved, TeamMoment
  <2> QED
    BY <1>1, <1>3, <2>4, <2>5, <2>6, <2>7, NothingStored DEF RequestInv
<1>8. CASE ResolveOtherTeam(w)
  <2>1. OtherTeamHalfRead(w) /\ at[w] = "projectTeams"
    BY <1>0, <1>8 DEF RequestInv, ResolveOtherTeam
  <2>2. PICK t \in OtherTeams(loc[w].mine, assigned) : AppendStage(w, t)
    BY <1>8 DEF ResolveOtherTeam
  <2>3. PICK g \in teamsHeld[w] : g.mine = loc[w].mine
    BY <2>1 DEF OtherTeamHalfRead
  <2>4. NextTemplate(w).scope = "other_team" /\ Resolved(w) < Len(loc[w].templates)
    BY <2>1 DEF OtherTeamHalfRead, NextTemplate
  <2>5. TeamMoment(Call(w).user).all = assigned /\ assigned \subseteq Teams
    BY DEF TeamMoment, PlanTypeOK
  <2>6. Honours(w, NextTemplate(w).scope, t) /\ t \in Teams \cup {NoTeam}
    <3>1. CASE assigned \subseteq loc[w].mine
      <4>1. t = NoTeam
        BY <2>2, <3>1 DEF OtherTeams
      <4> QED
        BY <1>2, <2>3, <2>4, <2>5, <3>1, <4>1 DEF Honours
    <3>2. CASE ~(assigned \subseteq loc[w].mine)
      <4>1. t \in assigned \ loc[w].mine /\ t # NoTeam
        BY <2>2, <2>5, <3>2, NoTeamAssumption DEF OtherTeams
      <4> QED
        BY <1>2, <2>3, <2>4, <2>5, <4>1 DEF Honours
    <3> QED
      BY <3>1, <3>2
  <2>7. at'[w] = "resolve"
    BY <1>8 DEF ResolveOtherTeam, Proceed, PlanTypeOK
  <2> QED
    BY <1>0, <1>1, <1>3, <2>2, <2>4, <2>6, <2>7, OneMoreStage
<1> QED
  BY <1>5, <1>6, <1>7, <1>8

\* What Submit stores is the plan it has worked out, or nothing.
LEMMA StoreStep ==
  ASSUME PlanTypeOK, PlanInv, NEW w \in Workers, StoreApproval(w)
  PROVE  RequestInv(w)'
<1>0. /\ RequestInv(w) /\ InPlace(w) /\ ReadsRule(w) /\ StagesSoFar(w)
      /\ at[w] = "resolve" /\ UNCHANGED <<loc, held, teamsHeld>> /\ at'[w] = "done"
      /\ Resolved(w) = Len(loc[w].templates)
  BY DEF PlanInv, RequestInv, StoreApproval, Proceed, PlanTypeOK
<1> DEFINE l == loc[w]
           stored == IF l.stages = <<>> THEN FallbackFor(Call(w).entity) ELSE l.stages
<1>1. /\ approval'[w] \in {stored, NotStored}
      /\ l.stages \in Seq(Stage) /\ l.templates \in Seq(Template)
  BY LocalUpdate DEF StoreApproval, PlanTypeOK
<1>2. InPlace(w)' /\ ReadsRule(w)' /\ StagesSoFar(w)' /\ OtherTeamHalfRead(w)'
  BY <1>0 DEF InPlace, Call, ReadsRule, StagesSoFar, OtherTeamHalfRead
<1>3. Call(w)' = Call(w) /\ Ruling(w)' = Ruling(w) /\ (Ungoverned(w) => Ungoverned(w)')
  BY <1>0 DEF Call, Ruling, Ungoverned, Key
<1>4. CASE approval'[w] = NotStored
  BY <1>2, <1>4, NothingStored DEF RequestInv
<1>5. CASE approval'[w] = l.stages /\ l.stages # <<>>
  <2>1. l.templates \in Ruling(w) /\ Carries(l.stages, l.templates)
    <3>1. l.templates # <<>>
      BY <1>0, <1>1, <1>5 DEF Resolved
    <3> QED
      BY <1>0, <1>1, <3>1 DEF ReadsRule, StagesSoFar, Carries, Resolved
  <2>2. GateOf(w)'
    BY <1>3, <1>5, <2>1 DEF GateOf, Carries
  <2>3. \A n \in 1..Len(l.templates) : Honours(w, l.templates[n].scope, l.stages[n].team)
    BY <1>0 DEF StagesSoFar, Resolved
  <2>4. ScopesOf(w)'
    BY <1>0, <1>5, <2>3 DEF ScopesOf, Honours
  <2> QED
    BY <1>2, <2>2, <2>4 DEF RequestInv
<1>6. CASE approval'[w] = FallbackFor(Call(w).entity) /\ l.stages = <<>> /\ approval'[w] # NotStored
  <2>1. l.templates = <<>>
    BY <1>0, <1>1, <1>6 DEF Resolved
  <2>2. <<>> \notin Ruling(w)
    BY DEF PlanInv, PoliciesNotEmpty, Ruling
  <2>3. Ungoverned(w) /\ Call(w).entity # "client_attachment"
    BY <1>0, <1>6, <2>1, <2>2, FallbackType DEF ReadsRule
  <2>4. GateOf(w)'
    BY <1>3, <1>6, <2>3 DEF GateOf
  <2>5. ScopesOf(w)'
    BY <1>0, <2>1 DEF ScopesOf
  <2> QED
    BY <1>2, <2>4, <2>5 DEF RequestInv
<1> QED
  BY <1>1, <1>4, <1>5, <1>6

\* The steps of an administrator's request store no approval.
LEMMA AdministerSteps ==
  ASSUME PlanTypeOK, PlanInv, NEW w \in Workers, Administer(w)
  PROVE  RequestInv(w)'
<1>0. InPlace(w)
  BY DEF PlanInv, RequestInv
<1>1. /\ at[w] \in {"check", "insert", "get", "save", "remove"}
      /\ UNCHANGED approval
  BY DEF Administer, CheckDuplicate, InsertPolicy, GetPolicy, SavePolicy, DeletePolicy, ReadOnly
<1>2. approval[w] = NotStored /\ IsCall(Call(w))
  BY <1>0, <1>1 DEF InPlace
<1>3. /\ at'[w] \in {"done", "insert", "save", "remove"}
      /\ loc'[w].call = loc[w].call
      /\ at'[w] = "insert" => /\ at[w] = "check" /\ ValidStages(Call(w).list)
                              /\ Call(w).entity \in ValidEntityTypes
      /\ at'[w] = "save" => /\ at[w] = "get" /\ Call(w).op = "update"
                            /\ ValidStages(Call(w).list)
      /\ at'[w] = "remove" => at[w] = "get"
  <2>1. CASE CheckDuplicate(w)
    BY <2>1 DEF CheckDuplicate, Proceed, PlanTypeOK
  <2>2. CASE InsertPolicy(w) \/ SavePolicy(w) \/ DeletePolicy(w)
    BY <2>2 DEF InsertPolicy, SavePolicy, DeletePolicy, Proceed, PlanTypeOK
  <2>3. CASE GetPolicy(w)
    <3>1. CASE UNCHANGED loc /\ Proceed(w, "done")
      BY <3>1 DEF Proceed, PlanTypeOK
    <3>2. CASE /\ loc' = [loc EXCEPT ![w].row = policies[Call(w).id]]
               /\ Call(w).op = "update" => ValidStages(Call(w).list)
               /\ Proceed(w, IF Call(w).op = "update" THEN "save" ELSE "remove")
      <4>1. loc'[w].call = loc[w].call
        BY <3>2 DEF PlanTypeOK, Local
      <4> QED
        BY <2>3, <3>2, <4>1 DEF GetPolicy, Proceed, PlanTypeOK
    <3> QED
      BY <2>3, <3>1, <3>2 DEF GetPolicy
  <2> QED
    BY <2>1, <2>2, <2>3 DEF Administer
<1>4. Call(w)' = Call(w)
  BY <1>3 DEF Call
<1>5. InPlace(w)'
  BY <1>0, <1>1, <1>2, <1>3, <1>4 DEF InPlace
<1>6. ReadsRule(w)' /\ StagesSoFar(w)' /\ OtherTeamHalfRead(w)'
  BY <1>3 DEF ReadsRule, StagesSoFar, OtherTeamHalfRead
<1> QED
  BY <1>1, <1>2, <1>5, <1>6, NothingStored DEF RequestInv

\* No policy is ever empty, and the history has none.
LEMMA NotEmptyStep ==
  ASSUME PlanTypeOK, PlanInv, [PlanNext]_planVars
  PROVE  PoliciesNotEmpty'
<1>0. /\ \A i \in Ids : policies[i] # NoPolicy => policies[i].stages # <<>>
      /\ \A w \in Workers : \A h \in held[w] : <<>> \notin h[2]
      /\ \A w \in Workers : InPlace(w)
  BY DEF PlanInv, PoliciesNotEmpty, RequestInv
<1>1. \A i \in Ids : policies'[i] # NoPolicy => policies'[i].stages # <<>>
  <2>1. CASE UNCHANGED policies
    BY <1>0, <2>1
  <2>2. ASSUME NEW w \in Workers, InsertPolicy(w)
        PROVE  \A i \in Ids : policies'[i] # NoPolicy => policies'[i].stages # <<>>
    <3>1. BuildTemplates(Call(w).list) # <<>>
      BY <1>0, <2>2, BuiltType DEF InsertPolicy, InPlace, IsCall
    <3>2. \/ UNCHANGED policies
          \/ \E k : policies' = [policies EXCEPT ![used + 1] =
                              [key |-> k, stages |-> BuildTemplates(Call(w).list)]]
      BY <2>2 DEF InsertPolicy, tables
    <3>3. ASSUME NEW k, policies' = [policies EXCEPT ![used + 1] =
                              [key |-> k, stages |-> BuildTemplates(Call(w).list)]]
          PROVE  \A i \in Ids : policies'[i] # NoPolicy => policies'[i].stages # <<>>
      BY <1>0, <3>1, <3>3 DEF PlanTypeOK
    <3> QED
      BY <2>1, <3>2, <3>3
  <2>3. ASSUME NEW w \in Workers, SavePolicy(w)
        PROVE  \A i \in Ids : policies'[i] # NoPolicy => policies'[i].stages # <<>>
    <3> DEFINE new == [loc[w].row EXCEPT !.stages = BuildTemplates(Call(w).list)]
    <3>1. BuildTemplates(Call(w).list) # <<>>
      BY <1>0, <2>3, BuiltType DEF SavePolicy, InPlace, IsCall
    <3>2. loc[w].row \in Row
      BY LocalUpdate DEF PlanTypeOK
    <3>3. new.stages # <<>>
      BY <3>1, <3>2 DEF Row
    <3>4. policies' = policies \/ policies' = [policies EXCEPT ![Call(w).id] = new]
      BY <2>3 DEF SavePolicy
    <3> HIDE DEF new
    <3> QED
      BY <1>0, <3>3, <3>4 DEF PlanTypeOK
  <2>4. ASSUME NEW w \in Workers, DeletePolicy(w)
        PROVE  \A i \in Ids : policies'[i] # NoPolicy => policies'[i].stages # <<>>
    BY <1>0, <2>4 DEF DeletePolicy, PlanTypeOK
  <2> QED
    BY <2>1, <2>2, <2>3, <2>4 DEF PlanNext, planVars, Submit, Administer, Start, FailCall, LookupAction,
       LookupDefault, ResolveAny, ResolveSubmitterTeam, ReadSubmitterTeams,
       ResolveOtherTeam, StoreApproval, CheckDuplicate, GetPolicy, MoveMember, MoveTeam,
       Moving, ReadOnly, tables
<1>2. \A h \in Moment(policies') \cup Moment(policies) : <<>> \notin h[2]
  BY <1>0, <1>1, MomentNotEmpty
<1>3. \A w \in Workers : held'[w] \subseteq held[w] \cup Moment(policies') \cup Moment(policies)
  <2> TAKE w \in Workers
  <2>1. CASE UNCHANGED held
    BY <2>1
  <2>2. ASSUME NEW v \in Workers, Start(v)
        PROVE  held'[w] \subseteq held[w] \cup Moment(policies)
    BY <2>2 DEF Start, PlanTypeOK
  <2>3. CASE Observe
    BY <2>3 DEF Observe
  <2> QED
    BY <2>1, <2>2, <2>3 DEF PlanNext, planVars, Submit, Administer, FailCall, LookupAction,
       LookupDefault, ResolveAny, ResolveSubmitterTeam, ReadSubmitterTeams,
       ResolveOtherTeam, StoreApproval, CheckDuplicate, InsertPolicy, GetPolicy,
       SavePolicy, DeletePolicy, MoveMember, MoveTeam, Moving, ReadOnly
<1> QED
  BY <1>0, <1>1, <1>2, <1>3 DEF PoliciesNotEmpty

\* A request that has not begun or has returned only moves by beginning.
LEMMA OnlyStartStarts ==
  ASSUME PlanTypeOK, [PlanNext]_planVars, NEW w \in Workers, ~Start(w), at[w] \in {"idle", "done"}
  PROVE  at'[w] = at[w]
<1> USE DEF Proceed, PlanTypeOK
<1>1. CASE UNCHANGED at
  BY <1>1
<1>2. ASSUME NEW v \in Workers, Start(v) \/ FailCall(v) PROVE at'[w] = at[w]
  BY <1>2 DEF Start, FailCall, Running
<1>3. ASSUME NEW v \in Workers,
             LookupAction(v) \/ LookupDefault(v) \/ ResolveSubmitterTeam(v)
      PROVE  at'[w] = at[w]
  BY <1>3 DEF LookupAction, LookupDefault, ResolveSubmitterTeam, AtTemplate
<1>4. ASSUME NEW v \in Workers,
             ReadSubmitterTeams(v) \/ ResolveOtherTeam(v) \/ StoreApproval(v)
      PROVE  at'[w] = at[w]
  BY <1>4 DEF ReadSubmitterTeams, ResolveOtherTeam, StoreApproval, AtTemplate
<1>5. ASSUME NEW v \in Workers, Administer(v) PROVE at'[w] = at[w]
  <2>1. CASE CheckDuplicate(v) \/ InsertPolicy(v)
    BY <2>1 DEF CheckDuplicate, InsertPolicy
  <2>2. CASE GetPolicy(v) \/ SavePolicy(v) \/ DeletePolicy(v)
    BY <2>2 DEF GetPolicy, SavePolicy, DeletePolicy
  <2> QED
    BY <1>5, <2>1, <2>2 DEF Administer
<1> QED
  BY <1>1, <1>2, <1>3, <1>4, <1>5 DEF PlanNext, planVars, Submit, ResolveAny, MoveMember,
     MoveTeam, Moving

\* The history of every submission under way includes the present.
LEMMA CurrentStep ==
  ASSUME PlanTypeOK, PlanInv, [PlanNext]_planVars
  PROVE  HistoryCurrent'
<1> SUFFICES ASSUME NEW w \in Workers, Planning(w)'
             PROVE  /\ Moment(policies') \subseteq held'[w]
                    /\ TeamMoment(Call(w).user)' \in teamsHeld'[w]
  BY DEF HistoryCurrent, Moment, Found
<1>1. CASE Start(w)
  <2>1. PICK c \in Requested[w] :
          /\ loc' = [loc EXCEPT ![w].call = c]
          /\ IF c.op = "submit"
             THEN /\ held' = [held EXCEPT ![w] = Moment(policies)]
                  /\ teamsHeld' = [teamsHeld EXCEPT ![w] = {TeamMoment(c.user)}]
             ELSE UNCHANGED <<held, teamsHeld>>
    BY <1>1 DEF Start
  <2>2. Call(w)' = c /\ c.op = "submit"
    BY <2>1 DEF Call, Planning, PlanTypeOK, Local
  <2>3. UNCHANGED <<policies, member, assigned>>
    BY <1>1 DEF Start, tables, people
  <2> QED
    BY <2>1, <2>2, <2>3 DEF PlanTypeOK, TeamMoment, TeamsOf, TeamsIn
<1>2. CASE ~Start(w)
  <2>1. /\ held[w] \subseteq held'[w] /\ teamsHeld[w] \subseteq teamsHeld'[w]
        /\ Call(w)' = Call(w)
    BY <1>2, NothingForgotten DEF Call
  <2>2. Planning(w)
    <3>1. at'[w] \notin {"idle", "done"} /\ Call(w).op = "submit"
      BY <2>1 DEF Planning, Running
    <3>2. at[w] \notin {"idle", "done"}
      BY <1>2, <3>1, OnlyStartStarts
    <3> QED
      BY <3>1, <3>2 DEF Planning, Running
  <2>3. Moment(policies) \subseteq held[w] /\ TeamMoment(Call(w).user) \in teamsHeld[w]
    BY <2>2 DEF PlanInv, HistoryCurrent
  <2>4. Moment(policies') \subseteq held'[w]
    <3>1. CASE UNCHANGED policies
      BY <2>1, <2>3, <3>1
    <3>2. CASE Observe
      BY <2>2, <3>2 DEF Observe
    <3> QED
      BY <3>1, <3>2 DEF PlanNext, planVars, Submit, Administer, Start, FailCall, LookupAction,
         LookupDefault, ResolveAny, ResolveSubmitterTeam, ReadSubmitterTeams,
         ResolveOtherTeam, StoreApproval, CheckDuplicate, InsertPolicy, GetPolicy,
         SavePolicy, DeletePolicy, MoveMember, MoveTeam, Moving, ReadOnly, tables
  <2>5. TeamMoment(Call(w).user)' \in teamsHeld'[w]
    <3>1. CASE UNCHANGED <<member, assigned>>
      BY <2>1, <2>3, <3>1 DEF TeamMoment, TeamsOf, TeamsIn
    <3>2. CASE ObserveTeams
      BY <2>1, <2>2, <3>2 DEF ObserveTeams, TeamMoment, TeamsOf
    <3> QED
      BY <3>1, <3>2 DEF PlanNext, planVars, Submit, Administer, Start, FailCall, LookupAction,
         LookupDefault, ResolveAny, ResolveSubmitterTeam, ReadSubmitterTeams,
         ResolveOtherTeam, StoreApproval, CheckDuplicate, InsertPolicy, GetPolicy,
         SavePolicy, DeletePolicy, MoveMember, MoveTeam, Moving, ReadOnly, people
  <2> QED
    BY <2>4, <2>5
<1> QED
  BY <1>1, <1>2

\* A step of one request leaves the others where they are.
LEMMA OneAtATime ==
  ASSUME PlanTypeOK, [PlanNext]_planVars
  PROVE  \/ UNCHANGED <<at, loc, approval>>
         \/ \E v \in Workers :
               /\ Start(v) \/ FailCall(v) \/ Submit(v) \/ Administer(v)
               /\ \A w \in Workers \ {v} : UNCHANGED <<at[w], loc[w], approval[w]>>
<1> USE DEF Proceed, PlanTypeOK
<1>1. CASE UNCHANGED <<at, loc, approval>>
  BY <1>1
<1>2. ASSUME NEW v \in Workers, NEW w \in Workers \ {v}, Start(v) \/ FailCall(v)
      PROVE  UNCHANGED <<at[w], loc[w], approval[w]>>
  BY <1>2 DEF Start, FailCall
<1>3. ASSUME NEW v \in Workers, NEW w \in Workers \ {v}, Submit(v)
      PROVE  UNCHANGED <<at[w], loc[w], approval[w]>>
  <2>1. CASE LookupAction(v) \/ LookupDefault(v) \/ ReadSubmitterTeams(v)
    BY <2>1 DEF LookupAction, LookupDefault, ReadSubmitterTeams, ReadOnly
  <2>2. CASE ResolveAny(v) \/ ResolveSubmitterTeam(v)
    BY <2>2 DEF ResolveAny, ResolveSubmitterTeam, AppendStage, ReadOnly
  <2>3. CASE ResolveOtherTeam(v) \/ StoreApproval(v)
    BY <2>3 DEF ResolveOtherTeam, StoreApproval, AppendStage, ReadOnly
  <2> QED
    BY <1>3, <2>1, <2>2, <2>3 DEF Submit
<1>4. ASSUME NEW v \in Workers, NEW w \in Workers \ {v}, Administer(v)
      PROVE  UNCHANGED <<at[w], loc[w], approval[w]>>
  <2>1. CASE CheckDuplicate(v) \/ InsertPolicy(v)
    BY <2>1 DEF CheckDuplicate, InsertPolicy
  <2>2. CASE GetPolicy(v) \/ SavePolicy(v) \/ DeletePolicy(v)
    BY <2>2 DEF GetPolicy, SavePolicy, DeletePolicy, ReadOnly
  <2> QED
    BY <1>4, <2>1, <2>2 DEF Administer
<1>5. CASE MoveMember \/ MoveTeam \/ UNCHANGED planVars
  BY <1>1, <1>5 DEF MoveMember, MoveTeam, Moving, planVars
<1> QED
  BY <1>2, <1>3, <1>4, <1>5 DEF PlanNext

\* Every request stays in order.
LEMMA RequestsStep ==
  ASSUME PlanTypeOK, PlanInv, [PlanNext]_planVars, NEW w \in Workers
  PROVE  RequestInv(w)'
<1>0. RequestInv(w)
  BY DEF PlanInv
<1>1. CASE Start(w) \/ FailCall(w) \/ Submit(w) \/ Administer(w)
  BY <1>1, FirstSteps, LookupSteps, ResolveSteps, StoreStep, AdministerSteps DEF Submit
<1>2. CASE UNCHANGED <<at[w], loc[w], approval[w]>> /\ ~Start(w)
  <2>1. held[w] \subseteq held'[w] /\ teamsHeld[w] \subseteq teamsHeld'[w]
    BY <1>2, NothingForgotten
  <2> QED
    BY <1>0, <1>2, <2>1, OtherRequests
<1> QED
  BY <1>1, <1>2, OneAtATime

\* The types and the plan invariant hold in every reachable state.
THEOREM PlanningInvariant == PlanSpec => [](PlanTypeOK /\ PlanInv)
<1>1. PlanInit => PlanTypeOK /\ PlanInv
  <2> SUFFICES ASSUME PlanInit PROVE PlanTypeOK /\ PlanInv
    OBVIOUS
  <2>1. SeedRoute \in Seq(Template) /\ SeedAttachment \in Seq(Template)
    <3>1. /\ [order |-> 1, perm |-> "route.approve", scope |-> "any", min |-> 0] \in Template
          /\ [order |-> 1, perm |-> "client.approve", scope |-> "other_team", min |-> 0] \in Template
          /\ [order |-> 2, perm |-> "client.approve", scope |-> "any", min |-> 0] \in Template
      BY WordsAssumption DEF Template
    <3> QED
      BY <3>1 DEF SeedRoute, SeedAttachment
  <2>2. NoPolicy \in Row /\ SeedRows[1] \in Row /\ SeedRows[2] \in Row
    BY <2>1 DEF NoPolicy, SeedRows, Row, Keys, Entities
  <2>3. \A i \in Ids : /\ policies[i] \in {NoPolicy, SeedRows[1], SeedRows[2]}
    BY DEF PlanInit, SeedDefaults, Ids
  <2>4. policies \in [Ids -> Row]
    BY <2>2, <2>3 DEF PlanInit, SeedDefaults
  <2>5. Idle \in Local
    <3>1. NoPolicy \in Row /\ <<>> \in Seq(Template) /\ <<>> \in Seq(Stage)
      BY <2>2
    <3> QED
      BY <3>1 DEF Idle, Local
  <2>6. PlanTypeOK
    BY <2>4, <2>5, SeedAssumption, PlanningBounds DEF PlanInit, PlanTypeOK, PlanPoints, NotStored
  <2>7. SeedRows[1].stages # <<>> /\ SeedRows[2].stages # <<>>
    BY DEF SeedRows, SeedRoute, SeedAttachment
  <2>8. PoliciesNotEmpty
    BY <2>3, <2>7 DEF PlanInit, PoliciesNotEmpty
  <2>9. HistoryCurrent
    BY DEF PlanInit, HistoryCurrent, Planning, Running
  <2>10. ASSUME NEW w \in Workers PROVE RequestInv(w)
    BY DEF PlanInit, RequestInv, InPlace, ReadsRule, StagesSoFar, OtherTeamHalfRead, GateOf,
       ScopesOf, Idle
  <2> QED
    BY <2>6, <2>8, <2>9, <2>10 DEF PlanInv
<1>2. PlanTypeOK /\ PlanInv /\ [PlanNext]_planVars => (PlanTypeOK /\ PlanInv)'
  BY TypeStep, NotEmptyStep, CurrentStep, RequestsStep DEF PlanInv
<1> QED
  BY <1>1, <1>2, PTL DEF PlanSpec

\* No submission ever stores a weaker gate than a policy that ruled it asks for,
\* whatever fails and whatever administrators do meanwhile.
THEOREM GateSafety == PlanSpec => []GateIsAPolicys
<1>1. PlanInv => GateIsAPolicys
  BY DEF PlanInv, RequestInv, GateIsAPolicys
<1> QED
  BY <1>1, PlanningInvariant, PTL

\* Every stage asks for the team its scope names.
THEOREM ScopeSafety == PlanSpec => []ScopesHonoured
<1>1. PlanInv => ScopesHonoured
  BY DEF PlanInv, RequestInv, ScopesHonoured
<1> QED
  BY <1>1, PlanningInvariant, PTL

\* Two policies never share an entity and action.
THEOREM KeysUnique == PlanSpec => []OnePolicyPerKey
<1>1. PlanInit => OnePolicyPerKey
  <2> SUFFICES ASSUME PlanInit, NEW i \in Ids, NEW j \in Ids,
                      policies[i] # NoPolicy, policies[j] # NoPolicy,
                      policies[i].key = policies[j].key
               PROVE  i = j
    BY DEF OnePolicyPerKey
  <2>1. i \in {1, 2} /\ j \in {1, 2} /\ policies[i] = SeedRows[i] /\ policies[j] = SeedRows[j]
    BY DEF PlanInit, SeedDefaults, Ids
  <2>2. SeedRows[1].key # SeedRows[2].key
    BY DEF SeedRows
  <2> QED
    BY <2>1, <2>2
<1>2. PlanTypeOK /\ OnePolicyPerKey /\ [PlanNext]_planVars => OnePolicyPerKey'
  <2> SUFFICES ASSUME PlanTypeOK, OnePolicyPerKey, [PlanNext]_planVars PROVE OnePolicyPerKey'
    OBVIOUS
  <2>1. CASE UNCHANGED policies
    BY <2>1 DEF OnePolicyPerKey
  <2>2. ASSUME NEW i, NEW row, IndexAllows(i, row.key),
               policies' = [policies EXCEPT ![i] = row]
        PROVE  OnePolicyPerKey'
    BY <2>2 DEF OnePolicyPerKey, IndexAllows, PlanTypeOK
  <2>3. ASSUME NEW w \in Workers, InsertPolicy(w) PROVE OnePolicyPerKey'
    <3> DEFINE row == [key |-> <<Call(w).entity, Call(w).action>>,
                       stages |-> BuildTemplates(Call(w).list)]
    <3>1. row.key = <<Call(w).entity, Call(w).action>>
      OBVIOUS
    <3>2. \/ UNCHANGED policies
          \/ /\ IndexAllows(used + 1, <<Call(w).entity, Call(w).action>>)
             /\ policies' = [policies EXCEPT ![used + 1] = row]
      BY <2>3 DEF InsertPolicy, tables
    <3> HIDE DEF row
    <3> QED
      BY <2>1, <2>2, <3>1, <3>2
  <2>4. ASSUME NEW w \in Workers, SavePolicy(w) PROVE OnePolicyPerKey'
    <3> DEFINE row == [loc[w].row EXCEPT !.stages = BuildTemplates(Call(w).list)]
    <3>1. row.key = loc[w].row.key
      BY LocalUpdate DEF PlanTypeOK, Row
    <3>2. \/ UNCHANGED policies
          \/ /\ IndexAllows(Call(w).id, loc[w].row.key)
             /\ policies' = [policies EXCEPT ![Call(w).id] = row]
      BY <2>4 DEF SavePolicy
    <3> HIDE DEF row
    <3> QED
      BY <2>1, <2>2, <3>1, <3>2
  <2>5. ASSUME NEW w \in Workers, DeletePolicy(w) PROVE OnePolicyPerKey'
    BY <2>5 DEF DeletePolicy, OnePolicyPerKey, PlanTypeOK
  <2> QED
    BY <2>1, <2>3, <2>4, <2>5 DEF PlanNext, planVars, Submit, Administer, Start, FailCall, LookupAction,
       LookupDefault, ResolveAny, ResolveSubmitterTeam, ReadSubmitterTeams,
       ResolveOtherTeam, StoreApproval, CheckDuplicate, GetPolicy, MoveMember, MoveTeam,
       Moving, ReadOnly, tables
<1> QED
  BY <1>1, <1>2, PlanningInvariant, PTL DEF PlanSpec
===========================================================================
