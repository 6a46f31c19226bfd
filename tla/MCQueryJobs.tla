----------------------------- MODULE MCQueryJobs -----------------------------
EXTENDS QueryJobs, TLC

Symmetry == Permutations(Callers) \cup Permutations(Jobs) \cup Permutations(Workers)
==============================================================================
