---------------------------- MODULE MCWorkerLoop ----------------------------
EXTENDS WorkerLoop, TLC

Symmetry == Permutations(Workers)
=============================================================================
