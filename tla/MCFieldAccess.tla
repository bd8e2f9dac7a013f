--------------------------- MODULE MCFieldAccess ---------------------------
(* A message of six fields, of every kind and with and without default,    *)
(* whose hasbits share a byte and include its last bit, on both layouts.   *)
EXTENDS FieldAccess, TLC

CONSTANTS foo, qux, bar, quux, submsg, embedded

One(n) == [k \in 0..n - 1 |-> IF k = 0 THEN {0} ELSE {}]
Minus1(n) == [k \in 0..n - 1 |-> 0..7]

MCIntFields == {foo, qux}
MCLongFields == {bar, quux}
MCMessageFields == {submsg, embedded}

\* Hasbits follow a pointer-sized word; slots follow the hasbits.
MCHasbit32 == foo :> 32 @@ qux :> 39 @@ bar :> 37 @@ quux :> 40 @@ submsg :> 38 @@ embedded :> 47
MCOffset32 == foo :> 8 @@ qux :> 12 @@ submsg :> 16 @@ embedded :> 20 @@ bar :> 24 @@ quux :> 32
MCHasbit64 == foo :> 64 @@ qux :> 71 @@ bar :> 69 @@ quux :> 72 @@ submsg :> 70 @@ embedded :> 79
MCOffset64 == foo :> 12 @@ qux :> 16 @@ submsg :> 24 @@ embedded :> 32 @@ bar :> 40 @@ quux :> 48
MCSize == 56

MCDefault == qux :> One(4) @@ quux :> Minus1(8)
MCInts == {ZeroWord(4), Minus1(4)}
MCLongs == {ZeroWord(8), Minus1(8)}

\* An ordinary address and one in the upper half of 32 bits.
HighPointer == [k \in 0..7 |-> IF k = 3 THEN {7} ELSE {}]
MCPointers == {One(8), HighPointer}
=============================================================================
