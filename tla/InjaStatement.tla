----------------------------- MODULE InjaStatement -----------------------------
(* The statements of a template as inja's parser reads them (inja.hpp,        *)
(* Parser::parse_into and parse_statement).  The parser keeps no one stack of  *)
(* what is open: ifs, loops and blocks have a stack each, and where the next   *)
(* node goes is a pointer, current_block, that each closing tag sets to the    *)
(* parent of the construct on top of its own kind's stack.                     *)
EXTENDS Naturals, Sequences, FiniteSets

CONSTANTS
  BlockNames,      \* names of blocks
  MaxNodes         \* bound: nodes of a template

ASSUME MaxNodesAssumption == MaxNodes \in Nat

VARIABLES
  proper,          \* the template closes its tags in the order of nesting
  nodes,           \* the syntax tree: each node's kind, the block that holds it, if an else made it
  current_block,   \* where the next node goes: a node and which of its blocks
  if_stack, for_stack, block_stack,   \* nodes not yet closed, by kind
  block_storage,   \* names of the template's blocks
  status           \* "parsing", "done", or "error" after throw_parser_error

stacks == <<if_stack, for_stack, block_stack>>
vars == <<proper, nodes, current_block, stacks, block_storage, status>>

Root == <<0, "root">>

-----------------------------------------------------------------------------
Top(s) == s[Len(s)]
Pop(s) == SubSeq(s, 1, Len(s) - 1)

(* The constructs whose closing tag has not come, whatever their kind. *)
Open == {if_stack[m] : m \in DOMAIN if_stack} \cup {for_stack[m] : m \in DOMAIN for_stack}
          \cup {block_stack[m] : m \in DOMAIN block_stack}

(* External: the template.  If it nests properly, an else or a closing tag is  *)
(* about the construct that holds the current block.                           *)
Fits(kind) ==
  proper => current_block # Root /\ nodes[current_block[1]].kind = kind

New(kind, block, nested) ==
  nodes' = Append(nodes, [kind |-> kind, block |-> block, nested |-> nested])

Parsing == status = "parsing"
Room == Parsing /\ Len(nodes) < MaxNodes
Id == Len(nodes) + 1

Fail == status' = "error" /\ UNCHANGED <<proper, nodes, current_block, stacks, block_storage>>

(* Text, an expression, a set statement, an include, an extends. *)
Leaf ==
  /\ Room
  /\ New("leaf", current_block, FALSE)
  /\ UNCHANGED <<proper, current_block, stacks, block_storage, status>>

(* A statement whose expression does not end where its tag does, a tag that is *)
(* no statement, a comment that is not closed.                                 *)
Malformed == Parsing /\ ~proper /\ Fail

-----------------------------------------------------------------------------
If ==
  /\ Room
  /\ New("if", current_block, FALSE)
  /\ if_stack' = Append(if_stack, Id)
  /\ current_block' = <<Id, "true_statement">>
  /\ UNCHANGED <<proper, for_stack, block_stack, block_storage, status>>

Else ==
  /\ Parsing /\ Fits("if")
  /\ IF if_stack = <<>> THEN Fail
     ELSE /\ current_block' = <<Top(if_stack), "false_statement">>
          /\ UNCHANGED <<proper, nodes, stacks, block_storage, status>>

\* FALSE: the if after an else is an if like any other.
ElseIf_NotNested ==
  /\ Room /\ Fits("if")
  /\ IF if_stack = <<>> THEN Fail
     ELSE /\ New("if", <<Top(if_stack), "false_statement">>, FALSE)
          /\ if_stack' = Append(if_stack, Id)
          /\ current_block' = <<Id, "true_statement">>
          /\ UNCHANGED <<proper, for_stack, block_stack, block_storage, status>>

(* The chained else if: an if in the else branch, closed by the same endif. *)
ElseIf ==
  /\ Room /\ Fits("if")
  /\ IF if_stack = <<>> THEN Fail
     ELSE /\ New("if", <<Top(if_stack), "false_statement">>, TRUE)
          /\ if_stack' = Append(if_stack, Id)
          /\ current_block' = <<Id, "true_statement">>
          /\ UNCHANGED <<proper, for_stack, block_stack, block_storage, status>>

(* Pops the ifs that elses made, and then the one that they belong to. *)
Endif ==
  /\ Parsing /\ Fits("if")
  /\ IF if_stack = <<>> THEN Fail
     ELSE \E m \in DOMAIN if_stack :
          /\ ~nodes[if_stack[m]].nested
          /\ \A n \in (m + 1)..Len(if_stack) : nodes[if_stack[n]].nested
          /\ current_block' = nodes[if_stack[m]].block
          /\ if_stack' = SubSeq(if_stack, 1, m - 1)
          /\ UNCHANGED <<proper, nodes, for_stack, block_stack, block_storage, status>>

(* for a in arr, or for k, v in obj: the same to the structure. *)
For ==
  /\ Room
  /\ New("for", current_block, FALSE)
  /\ for_stack' = Append(for_stack, Id)
  /\ current_block' = <<Id, "body">>
  /\ UNCHANGED <<proper, if_stack, block_stack, block_storage, status>>

\* FALSE: goes on where the loop's own body is.
Endfor_StaysInBody ==
  /\ Parsing /\ Fits("for")
  /\ IF for_stack = <<>> THEN Fail
     ELSE /\ for_stack' = Pop(for_stack)
          /\ UNCHANGED <<proper, nodes, current_block, if_stack, block_stack, block_storage, status>>

Endfor ==
  /\ Parsing /\ Fits("for")
  /\ IF for_stack = <<>> THEN Fail
     ELSE /\ current_block' = nodes[Top(for_stack)].block
          /\ for_stack' = Pop(for_stack)
          /\ UNCHANGED <<proper, nodes, if_stack, block_stack, block_storage, status>>

Block(name) ==
  /\ Room
  /\ IF name \in block_storage THEN Fail
     ELSE /\ New("block", current_block, FALSE)
          /\ block_stack' = Append(block_stack, Id)
          /\ current_block' = <<Id, "block">>
          /\ block_storage' = block_storage \cup {name}
          /\ UNCHANGED <<proper, if_stack, for_stack, status>>

Endblock ==
  /\ Parsing /\ Fits("block")
  /\ IF block_stack = <<>> THEN Fail
     ELSE /\ current_block' = nodes[Top(block_stack)].block
          /\ block_stack' = Pop(block_stack)
          /\ UNCHANGED <<proper, nodes, if_stack, for_stack, block_storage, status>>

(* The end of the input.  That every block is closed is not checked. *)
Eof ==
  /\ Parsing
  /\ IF if_stack # <<>> \/ for_stack # <<>> THEN Fail
     ELSE status' = "done" /\ UNCHANGED <<proper, nodes, current_block, stacks, block_storage>>

Init ==
  /\ proper \in BOOLEAN
  /\ nodes = <<>> /\ current_block = Root
  /\ if_stack = <<>> /\ for_stack = <<>> /\ block_stack = <<>>
  /\ block_storage = {} /\ status = "parsing"

Next ==
  \/ Leaf \/ Malformed \/ If \/ Else \/ ElseIf \/ Endif \/ For \/ Endfor
  \/ \E name \in BlockNames : Block(name)
  \/ Endblock \/ Eof

Spec == Init /\ [][Next]_vars

-----------------------------------------------------------------------------
(* Properties. *)

Kinds == {"leaf", "if", "for", "block"}
Blocks == {Root} \cup (Nat \X {"true_statement", "false_statement", "body", "block"})

(* Types; every node is in a block of an earlier one. *)
TypeOK ==
  /\ proper \in BOOLEAN
  /\ nodes \in Seq([kind : Kinds, block : Blocks, nested : BOOLEAN])
  /\ \A i \in DOMAIN nodes : nodes[i].block[1] < i
  /\ current_block \in Blocks /\ current_block[1] <= Len(nodes)
  /\ if_stack \in Seq(DOMAIN nodes) /\ for_stack \in Seq(DOMAIN nodes) /\ block_stack \in Seq(DOMAIN nodes)
  /\ block_storage \subseteq BlockNames
  /\ status \in {"parsing", "done", "error"}

(* In a template whose tags nest, whatever comes next goes into the template   *)
(* itself or into the innermost construct that is still open: nothing that      *)
(* stands after an endif or endfor becomes conditional or repeated.             *)
NothingIntoClosedBlocks ==
  proper => /\ current_block = Root \/ current_block[1] \in Open
            /\ \A i \in Open : i <= current_block[1]

(* A template with ifs only, or with loops only, is accepted only if it nests: *)
(* the parser ends where it began.  (Nothing compares kinds: an endfor between *)
(* an if and its endif, or a block without end, is accepted.)                  *)
AcceptedOfOneKindNests ==
  \A k \in {"if", "for"} :
    status = "done" /\ (\A i \in DOMAIN nodes : nodes[i].kind \in {"leaf", k})
      => current_block = Root
=============================================================================
