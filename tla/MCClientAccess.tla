--------------------------- MODULE MCClientAccess ---------------------------
(* Instances of ClientAccess for TLC. *)
EXTENDS ClientAccess

CONSTANTS w1, c1, c2, r1, r2

\* An address list, and a key with an address list.
SomeConfigs == {{"ip"}, {"apiKey", "ip"}}

AllOps == {"set", "clear", "toggle", "delete"} \cup AttachmentOps \cup RouteOps
=============================================================================
