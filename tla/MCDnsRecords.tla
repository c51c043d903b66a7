---------------------------- MODULE MCDnsRecords ----------------------------
(* Instances of DnsRecords for TLC: two projects with the same hostname, an   *)
(* IPv4 address and a load balancer that has a name.                          *)
EXTENDS DnsRecords, TLC

CONSTANTS w1, w2, d1, d2

SameHost == d1 :> "www" @@ d2 :> "www"
AddressType == "ip" :> "A" @@ "lb" :> "CNAME"
Symmetric == Permutations({w1, w2}) \cup Permutations({d1, d2})
=============================================================================
