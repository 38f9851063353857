---------------------------- MODULE MCClaimAudit ----------------------------
(* Instances of ClaimAudit for TLC; the cfg files give the constants.      *)
EXTENDS ClaimAudit, TLC

Symmetry == Permutations(Jobs) \cup Permutations(Workers) \cup Permutations(Clients)
=============================================================================
