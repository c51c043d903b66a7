----------------------------- MODULE MCGateways -----------------------------
(* Instances of Gateways for TLC: port 1 and 2 are free for all, 3 is Envoy's. *)
EXTENDS Gateways, TLC

CONSTANTS w1, w2, s1, s2, r1

Set(web, alt, range) == [host |-> "web" :> web @@ "alt" :> alt, range |-> range]
SomeListeners == {Set(1, 0, {2, 3}), Set(2, 0, {1, 2}), Set(1, 1, {})}
SomeClaims == {{}, {<<"TCP", 1>>}, {<<"TCP", 1>>, <<"TCP", 2>>}}
OfFirst == r1 :> s1
Transports == r1 :> "TCP"
Symmetric == Permutations({w1, w2})
=============================================================================
