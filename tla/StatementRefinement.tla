-------------------------- MODULE StatementRefinement --------------------------
(* InjaStatement implements InjaNesting, for templates whose tags nest: in     *)
(* which branches a node stands is read off the tree by following the blocks   *)
(* that hold it up to the root.                                                *)
EXTENDS InjaStatement

(* The blocks of a tree, and b. *)
Holders(tree, b) == {b} \cup {tree[i].block : i \in DOMAIN tree}

(* With every block, S has the one that this is in. *)
Upward(tree, S) == \A c \in S : c # Root => tree[c[1]].block \in S

(* What b is in: itself, the block that holds its node, and so on. *)
Around(tree, b) ==
  {c \in Holders(tree, b) \ {Root} :
     \A S \in SUBSET Holders(tree, b) : b \in S /\ Upward(tree, S) => c \in S}

Branches(tree, b) ==
  {[id |-> c[1], branch |-> c[2], chained |-> tree[c[1]].nested] : c \in Around(tree, b)}

Leaves(tree) ==
  {[id |-> i, within |-> Branches(tree, tree[i].block)] :
     i \in {j \in DOMAIN tree : tree[j].kind = "leaf"}}

Nesting == INSTANCE InjaNesting WITH
  open <- IF proper THEN Branches(nodes, current_block) ELSE {},
  leaves <- IF proper THEN Leaves(nodes) ELSE {},
  count <- IF proper THEN Len(nodes) ELSE 0,
  parsed <- proper /\ status # "parsing"

(* For a template whose tags nest, the parser's three stacks and parent        *)
(* pointers do what one stack would: every node is in the branches in which it *)
(* stands.                                                                     *)
ImplementsNesting == Nesting!Spec
=============================================================================
