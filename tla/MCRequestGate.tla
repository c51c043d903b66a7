----------------------------- MODULE MCRequestGate -----------------------------
(***************************************************************************)
(* An owner and one further user, one team, one project and one custom     *)
(* preset that may let a team manage teams.  One worker serves every       *)
(* request that leaves the directory alone, the other the requests that    *)
(* change it.                                                              *)
(***************************************************************************)
EXTENDS RequestGate, TLC

CONSTANTS w1, w2, ann, bob

Endpoint == Public \cup DirectoryEndpoints \cup ResourceEndpoints
Changing == {e \in Endpoint : Changes(Steps(e))}
ServedBy == w1 :> Endpoint @@ w2 :> Changing
TeamPresets == {{"Viewer"}, {"Editor"}, {"Leads"}}
LeadPerms == [leading |-> {"project.teams"}, viewing |-> {"route.view"}]
UserSymmetry == Permutations(Users)
=============================================================================
