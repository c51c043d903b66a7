-------------------------- MODULE MCStagePlanning --------------------------
(* Instances of StagePlanning for TLC. *)
EXTENDS StagePlanning, TLC

CONSTANTS ann, t1, t2, sub, adm1, adm2

Admins == {adm1, adm2}
MCWorkers == {sub} \cup Admins
MCSubmitters == {ann}
MCTeams == {t1, t2}
Symmetry == Permutations(Admins) \cup Permutations(MCTeams)
MCPermissions == {"route.approve", "client.approve", "certificate.approve"}
MCWords == MCPermissions \cup {"any", "other_team", "submitter_team", "everyone"}

Asks(order, scope, min) ==
    [order |-> order, perm |-> "client.approve", scope |-> scope, min |-> min]

\* Two approvers of another team; the same order twice; an unknown scope.
TwoStages == <<Asks(1, "other_team", 2), Asks(2, "submitter_team", 0)>>
SameOrder == <<Asks(1, "any", 1), Asks(1, "other_team", 1)>>
Unknown == <<Asks(1, "everyone", 1)>>

Submission(entity, action) ==
    [op |-> "submit", entity |-> entity, action |-> action, user |-> ann]
NewPolicy(entity, action, list) ==
    [op |-> "create", entity |-> entity, action |-> action, list |-> list]

Submissions ==
    {Submission(e, "update") : e \in {"route", "client_attachment", "certificate"}}

Administration ==
    {NewPolicy("route", "update", TwoStages),
     NewPolicy("client_attachment", "", TwoStages),
     NewPolicy("client_attachment", "update", SameOrder),
     NewPolicy("certificate", "", TwoStages)}
    \cup {[op |-> "update", entity |-> "route", id |-> 1, list |-> l] :
              l \in {TwoStages, Unknown}}
    \cup {[op |-> "update", entity |-> "route", id |-> 2, list |-> SameOrder]}
    \cup {[op |-> "delete", id |-> i] : i \in {1, 2}}

\* One submission and two administrators, who may do the same thing twice.
MCRequested == [w \in MCWorkers |-> IF w = sub THEN Submissions ELSE Administration]
===========================================================================
