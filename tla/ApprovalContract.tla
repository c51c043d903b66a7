------------------------- MODULE ApprovalContract -------------------------
(***************************************************************************)
(* What the approval engine promises the services that register a          *)
(* Completer with it (internal/approval/ports.go), without requests, reads *)
(* or stage rows: who has endorsed which stage, the verdict, and what the  *)
(* completer has been told.                                                *)
(*                                                                         *)
(* ApprovalEngine implements it.  It does not promise a single verdict:    *)
(* two reviewers who act at the same time may both decide, one after the   *)
(* other.                                                                  *)
(***************************************************************************)
EXTENDS Integers

CONSTANTS
    Users,     \* accounts
    Stages,    \* stage orders
    Entitled,  \* stage -> the users whose endorsement counts
    Quorums    \* stage -> the sets of users whose endorsement passes it

VARIABLES
    endorsed,  \* stage -> users that approved it
    verdict,   \* the approval's status
    told       \* verdict -> number of Completer calls

vars == <<endorsed, verdict, told>>

Verdicts == {"approved", "rejected", "cancelled"}

Passed(s) == endorsed[s] \in Quorums[s]

Init ==
    /\ endorsed = [s \in Stages |-> {}]
    /\ verdict = "pending"
    /\ told = [v \in Verdicts |-> 0]

\* An entitled user endorses a stage whose predecessors have all passed.
Endorse(s, u) ==
    /\ u \in Entitled[s] \ endorsed[s]
    /\ \A t \in Stages : t < s => Passed(t)
    /\ endorsed' = [endorsed EXCEPT ![s] = @ \cup {u}]
    /\ UNCHANGED <<verdict, told>>

\* A verdict is stored; "approved" only when every stage has passed.
Decide(v) ==
    /\ v = "approved" => \A s \in Stages : Passed(s)
    /\ verdict' = v
    /\ UNCHANGED <<endorsed, told>>

\* The completer is told a verdict, after one was stored.
Tell(v) ==
    /\ verdict # "pending"
    /\ v = "approved" => \A s \in Stages : Passed(s)
    /\ told' = [told EXCEPT ![v] = @ + 1]
    /\ UNCHANGED <<endorsed, verdict>>

Next ==
    \/ \E s \in Stages, u \in Users : Endorse(s, u)
    \/ \E v \in Verdicts : Decide(v) \/ Tell(v)

Spec == Init /\ [][Next]_vars
===========================================================================
