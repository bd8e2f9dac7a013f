---------------------------- MODULE MCClassInit ----------------------------
(* ClassInit on the classes of tiny.proto, where BabySteps has fields of   *)
(* the types Submessage and EmbeddedMessage, and one more, Tree, with a    *)
(* field of its own type.                                                  *)
EXTENDS ClassInit, TLC

CONSTANTS BabySteps, EmbeddedMessage, Submessage, Tree, t1, t2

MCEntryPoints == Generated \cup {"Arena"}

MCLinksOf ==
  BabySteps :> <<Submessage, EmbeddedMessage>> @@ EmbeddedMessage :> <<>> @@ Submessage :> <<>>
    @@ Tree :> <<Submessage, Tree>>
=============================================================================
