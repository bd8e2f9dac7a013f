------------------------- MODULE MessageRefinement -------------------------
(***************************************************************************)
(* JupbMessageLite implements MessageValues: pointers, sharing and copying *)
(* on write are invisible to a program that reads messages.                *)
(***************************************************************************)
EXTENDS JupbMessageLite

CONSTANT NoValue

Node == [type : Types, val : [Scalars -> Values], has : SUBSET Fields]

ASSUME NoValueAssumption == \A D \in SUBSET NestedPaths : NoValue \notin [D -> Node]

Content(n) == [type |-> n.type, val |-> n.val, has |-> n.has]

\* What is read in memory m by following pointers from address p.
ValueIn(m, p) == [path \in Paths(m, p) |-> Content(m[Walk(m, p, path)])]

EmptyNode(T) == [type |-> T, val |-> [f \in Scalars |-> Zero], has |-> {}]
TypeOfSub(f) == SubType[f]

ValueSemantics == INSTANCE MessageValues WITH
  SubType <- TypeOfSub,
  msg <- [m \in handed |-> ValueIn(mem, m.ptr)],
  pending <- [b \in Builders |->
                IF HasBuilder(b) THEN ValueIn(mem, builder[b].instance.ptr) ELSE NoValue]

\* Messages behave as values and each builder as the owner of one: a setter shows
\* in what its own builder builds next, and nowhere else.
ImplementsValueSemantics == ValueSemantics!Spec
=============================================================================
