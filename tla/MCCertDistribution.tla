------------------------ MODULE MCCertDistribution ------------------------
(* Instances of CertDistribution for TLC. *)
EXTENDS CertDistribution, TLC

CONSTANTS r1, r2, w1

AllOps == {"status", "resync", "delete"}

\* The replicas run the same program.  Sound for the safety runs only.
Interchangeable == Permutations({r1, r2})
===========================================================================
