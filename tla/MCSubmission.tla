---------------------------- MODULE MCSubmission ----------------------------
EXTENDS Submission, TLC

Symmetry == Permutations(Requests) \cup Permutations(Bodies)
=============================================================================
