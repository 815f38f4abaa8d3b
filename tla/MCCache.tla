------------------------------ MODULE MCCache ------------------------------
EXTENDS CacheProperties, TLC

CONSTANTS p1, p2, p3, k1, k2, k3

\* Goroutines are interchangeable; so are keys when all can be built.
ProcSymmetry == Permutations({p1, p2, p3})
PairSymmetry == Permutations({p1, p2}) \cup Permutations({k1, k2, k3})
=============================================================================
