----------------------------- MODULE MCJobQueue -----------------------------
EXTENDS JobQueue, TLC

Symmetry == Permutations(Jobs) \cup Permutations(Workers) \cup Permutations(Clients)
=============================================================================
