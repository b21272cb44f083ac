----------------------------- MODULE MCLazyList -----------------------------
EXTENDS LazyList, TLC

\* The threads are interchangeable.
Symmetry == Permutations(Threads)
=============================================================================
