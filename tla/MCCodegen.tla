----------------------------- MODULE MCCodegen -----------------------------
(* Codegen on messages of a few fields, of the types that are treated      *)
(* differently, with ints of 2 bits and longs of 3.                        *)
EXTENDS Codegen

CONSTANTS S, T
=============================================================================
