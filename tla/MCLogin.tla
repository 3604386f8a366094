------------------------------- MODULE MCLogin ------------------------------
EXTENDS Login, TLC

Symmetry == Permutations(Requests \ TimeLimited)
=============================================================================
