--------------------------- MODULE ApprovalModel ---------------------------
(***************************************************************************)
(* What models/approval.go says of a stored stage, wherever the stage is   *)
(* planned (StagePlanning) or counted (ApprovalEngine).                    *)
(***************************************************************************)
EXTENDS Integers

\* A stage or a template stored before min_approvers existed needs one approver.
EffectiveMinApprovers(n) == IF n <= 0 THEN 1 ELSE n
===========================================================================
