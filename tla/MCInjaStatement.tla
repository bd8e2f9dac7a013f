--------------------------- MODULE MCInjaStatement ---------------------------
EXTENDS StatementRefinement, TLC

CONSTANTS b1, b2

Symmetry == Permutations(BlockNames)
=============================================================================
