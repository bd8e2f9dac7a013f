----------------------------- MODULE MCRuntime -----------------------------
EXTENDS Runtime, TLC
CONSTANTS t1, t2, a1, a2

\* Arenas and threads are interchangeable.
Symmetry == Permutations({a1, a2}) \cup Permutations({t1, t2})
=============================================================================
