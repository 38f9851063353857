----------------------------- MODULE MCRowLocks -----------------------------
(* Instances of RowLocks for TLC; the cfg files give the constants.        *)
EXTENDS RowLocks, TLC

Symmetry == Permutations(Jobs) \cup Permutations(Workers) \cup Permutations(Clients)
=============================================================================
