-------------------------- MODULE MCOptimisticLock --------------------------
\* The clients are interchangeable.
EXTENDS OptimisticLock, TLC

MCSymmetry == Permutations(Client)
=============================================================================
