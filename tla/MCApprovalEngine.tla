------------------------- MODULE MCApprovalEngine -------------------------
(* Instances of ApprovalEngine for TLC. *)
EXTENDS ApprovalEngine, TLC

CONSTANTS ann, bob, r1, r2, r3

MCUsers == {ann, bob}

MCRequests == {r1, r2, r3}

MCStages == {1, 2}

\* Stage 1 asks for two approvers, stage 2 stores 0, which counts as 1.
MCMinApprovers == (1 :> 2) @@ (2 :> 0)

\* Both hold the permission; stage 2 also asks for a team ann is not in.
\* ann submits and may review her own submission: stage 1 needs them both.
MCPermitted == (1 :> {ann, bob}) @@ (2 :> {ann, bob})

MCTeam == (1 :> {ann, bob}) @@ (2 :> {bob})

\* Cancel has no stage; an AI review has no stage and the same effect whoever
\* asks for it.
MCCalls == {c \in [op : Ops, user : Users, stage : Stages] :
                /\ c.op \in {"cancel", "aiReview"} => c.stage = 1
                /\ c.op = "aiReview" => c.user = bob}

\* One stage with one approver, for two conflicting reviews: bob is an admin of
\* the project.
TwoRequests == {r1, r2}

OneStage == {1}

OneMinApprovers == 1 :> 1

OnePermitted == 1 :> {ann}

OneTeam == 1 :> {ann, bob}
===========================================================================
