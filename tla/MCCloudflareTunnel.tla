------------------------- MODULE MCCloudflareTunnel -------------------------
(* CloudflareTunnel with two instances of the script and three hostnames, one *)
(* for each of them and one whose call has ended.                             *)
EXTENDS CloudflareTunnel, TLC

MCSymmetry == Permutations(Managers) \cup Permutations(Hostnames)
=============================================================================
