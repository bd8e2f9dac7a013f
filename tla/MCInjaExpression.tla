--------------------------- MODULE MCInjaExpression ---------------------------
EXTENDS InjaGrammar
=============================================================================
