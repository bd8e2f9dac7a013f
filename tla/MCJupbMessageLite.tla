------------------------- MODULE MCJupbMessageLite -------------------------
(* Two of the types of tiny.proto, BabySteps with foo and submsg and        *)
(* Submessage with baz, on two builders and a few arenas.                   *)
EXTENDS MessageRefinement, TLC

CONSTANTS BabySteps, Submessage_, foo, baz, submsg

MCTypeOf == foo :> BabySteps @@ submsg :> BabySteps @@ baz :> Submessage_
MCSubType == submsg :> Submessage_

Symmetry == Permutations(Builders) \cup Permutations(Arenas \ {DefaultArena})
=============================================================================
