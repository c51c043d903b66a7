--------------------------- MODULE RouteContract ---------------------------
(***************************************************************************)
(* What the write service, the approval callbacks and Deploy together      *)
(* promise of one route, without requests, rows, statuses or approvals:    *)
(* which submissions there were, which of them were granted, and what the  *)
(* gateway serves.                                                         *)
(*                                                                         *)
(* RouteLifecycle implements it, however many requests it serves at a time *)
(* and whichever calls fail.  It does not promise that what was granted    *)
(* last is what is served: redeploys and stale saves may go back to an     *)
(* earlier config that was granted.                                        *)
(***************************************************************************)
EXTENDS Integers

VARIABLES
    submitted,       \* number of submissions so far; the first one creates
    granted,         \* the submissions whose config was granted
    grantedDeletes,  \* the submissions that ask for the removal and were granted
    served           \* the config of the HTTPRoute, 0 when there is none

vars == <<submitted, granted, grantedDeletes, served>>

Init == submitted = 0 /\ granted = {} /\ grantedDeletes = {} /\ served = 0

Submit ==
    /\ submitted' = submitted + 1
    /\ UNCHANGED <<granted, grantedDeletes, served>>

\* Only what was submitted is granted, and it stays granted.
Grant(r) ==
    /\ granted' = granted \cup {r}
    /\ UNCHANGED <<submitted, grantedDeletes, served>>

GrantDelete(r) ==
    /\ grantedDeletes' = grantedDeletes \cup {r}
    /\ UNCHANGED <<submitted, granted, served>>

\* Only a granted config is served; the route appears only once its creation
\* was granted.
Serve(r) ==
    /\ served = 0 => 1 \in granted
    /\ served' = r
    /\ UNCHANGED <<submitted, granted, grantedDeletes>>

\* The route is taken from the gateway only after a delete was granted.
Withdraw ==
    /\ grantedDeletes # {}
    /\ served' = 0
    /\ UNCHANGED <<submitted, granted, grantedDeletes>>

Next ==
    \/ Submit
    \/ \E r \in 1..submitted : Grant(r) \/ GrantDelete(r)
    \/ \E r \in granted : Serve(r)
    \/ Withdraw

Spec == Init /\ [][Next]_vars
===========================================================================
