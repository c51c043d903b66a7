----------------------------- MODULE LeaderLock -----------------------------
(***************************************************************************)
(* internal/leaderlock: every replica tries, on a ticker, to take one      *)
(* session-level Postgres advisory lock on a connection pinned for that    *)
(* purpose, and keeps the result of its last attempt in an atomic flag.    *)
(* The flag is what IsLeader returns; the database does not tell a replica *)
(* that its session, and the lock with it, is gone.                        *)
(***************************************************************************)
CONSTANT Replicas

VARIABLES
    session,  \* the pinned connection: none, open, or lost at the server
    lock,     \* the replica whose session holds the advisory lock, or NoOne
    leader    \* PostgresGate.leader

lockVars == <<session, lock, leader>>

NoOne == "no one"
ASSUME NoOneAssumption == NoOne \notin Replicas

LockTypeOK ==
    /\ session \in [Replicas -> {"none", "open", "lost"}]
    /\ lock \in Replicas \cup {NoOne}
    /\ leader \in [Replicas -> BOOLEAN]

LockInit ==
    /\ session = [r \in Replicas |-> "none"]
    /\ lock = NoOne
    /\ leader = [r \in Replicas |-> FALSE]

Attempt_KeepsConn(r) ==
    \/ /\ session[r] = "lost"
       /\ leader' = [leader EXCEPT ![r] = FALSE]
       /\ UNCHANGED <<session, lock>>
    \/ /\ session[r] # "lost"
       /\ session' = [session EXCEPT ![r] = "open"]
       /\ lock' = IF lock = NoOne THEN r ELSE lock
       /\ leader' = [leader EXCEPT ![r] = (lock' = r)]

\* attempt: tryLock pins a connection if there is none.  On an error the
\* connection is dropped and leadership given up; the lock is re-entrant, so
\* its holder gets it again.
Attempt(r) ==
    \/ /\ session[r] = "lost"
       /\ session' = [session EXCEPT ![r] = "none"]
       /\ leader' = [leader EXCEPT ![r] = FALSE]
       /\ UNCHANGED lock
    \/ /\ session[r] # "lost"
       /\ session' = [session EXCEPT ![r] = "open"]
       /\ lock' = IF lock = NoOne THEN r ELSE lock
       /\ leader' = [leader EXCEPT ![r] = (lock' = r)]

Released(r) == IF lock = r THEN NoOne ELSE lock

\* The server loses the session (network, restart, idle limit) and releases
\* its lock.  The replica goes on with the flag it has.
LoseSession(r) ==
    /\ session[r] = "open"
    /\ session' = [session EXCEPT ![r] = "lost"]
    /\ lock' = Released(r)
    /\ UNCHANGED leader

\* The replica stops and starts again: Run clears the flag and gives the lock
\* up, and the end of the process ends its sessions in any case.
Restart(r) ==
    /\ session' = [session EXCEPT ![r] = "none"]
    /\ lock' = Released(r)
    /\ leader' = [leader EXCEPT ![r] = FALSE]
=============================================================================
