-------------------------- MODULE MCRouteLifecycle --------------------------
(* Instances of RouteLifecycle for TLC. *)
EXTENDS RouteLifecycle, TLC

CONSTANTS w1, w2

\* Every request of the API.
AllOps == Actions \cup Decisions \cup Requeues \cup {"deploy", "toggle"}

\* The approval setting of the project stays as it was.
SteadyOps == AllOps \ {"attach", "toggle"}

\* Workers are interchangeable.
Interchangeable == Permutations(Workers)
=============================================================================
