------------------------------ MODULE MCArena ------------------------------
(* Arena on a small instance; threads and arenas are interchangeable.      *)
EXTENDS Arena, TLC

Symmetry == Permutations(Threads) \cup Permutations(Arenas)
=============================================================================
