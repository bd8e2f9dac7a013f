---------------------------- MODULE InjaExpression ----------------------------
(* How inja parses an expression (inja.hpp, Parser::parse_expression): a       *)
(* stack of operators and a stack of arguments, and a recursive call for each  *)
(* parenthesis and each argument of a function.  An action reads one token.    *)
(* A node of the syntax tree is named by the token it is made for.             *)
EXTENDS Integers, Sequences

CONSTANTS
  Operators,       \* the operators that templates use, a subset of DOMAIN precedence
  CallArity,       \* the number of arguments with which the one function is registered
  MaxTokens        \* bound: tokens of an expression

ASSUME OperatorsAssumption == Operators \subseteq {"or", "and", "in", "==", "+", "*", "^", ".", "not"}

ASSUME CallArityAssumption == CallArity \in Nat \ {0}

VARIABLES
  words,           \* the tokens read
  children,        \* children[i] : the arguments of the node of words[i], nodes
  frames,          \* the calls of parse_expression under way, innermost last
  outcome,         \* "parsing", "parsed"; "error", "error_at_end" after throw_parser_error
  root             \* the node of a parsed expression

exprVars == <<words, children, frames, outcome, root>>

-----------------------------------------------------------------------------
(* FunctionNode: precedence, associativity, arguments of an operator. *)

precedence == [op \in {"or", "and", "in", "==", "+", "*", "^", ".", "not"} |->
  CASE op \in {"or", "and"} -> 1 [] op \in {"in", "=="} -> 2 [] op = "+" -> 3
    [] op \in {"*", "not"} -> 4 [] op = "^" -> 5 [] op = "." -> 8]
RightAssociative(op) == op = "^"

\* FALSE: "not" is an operator between two operands.
number_args_Two(op) == 2

number_args(op) == IF op = "not" THEN 1 ELSE 2

Binary == Operators \ {"not"}

Null == 0   \* a null pointer: an empty expression has no node

\* FALSE: the arguments come off the stack last first.
add_operator_Reversed(stack, op) ==
  LET n == number_args(words[op])
      k == Len(stack.arguments) - n
      taken == SubSeq(stack.arguments, k + 1, k + n)
  IN  IF ~stack.ok \/ k < 0 THEN [stack EXCEPT !.ok = FALSE]
      ELSE [ok |-> TRUE, arguments |-> Append(SubSeq(stack.arguments, 1, k), op),
            children |-> [stack.children EXCEPT ![op] = [i \in 1..n |-> taken[n + 1 - i]] \o @]]

(* add_operator: the operator takes the last arguments, in their order.        *)
add_operator(stack, op) ==
  LET n == number_args(words[op])
      k == Len(stack.arguments) - n
  IN  IF ~stack.ok \/ k < 0 THEN [stack EXCEPT !.ok = FALSE]
      ELSE [ok |-> TRUE, arguments |-> Append(SubSeq(stack.arguments, 1, k), op),
            children |-> [stack.children EXCEPT ![op] = SubSeq(stack.arguments, k + 1, k + n) \o @]]

(* The operators ops, the last one first.                                      *)
add_operators(stack, ops) ==
  LET after[n \in 0..Len(ops)] ==
        IF n = 0 THEN stack ELSE add_operator(after[n - 1], ops[Len(ops) - n + 1])
  IN  after[Len(ops)]

Stack(frame, nodes_) == [ok |-> TRUE, arguments |-> frame.arguments, children |-> nodes_]

\* FALSE: operators of equal precedence wait on the stack.
GoesFirst_Strict(top, op) == precedence[top] > precedence[op]

(* Whether an operator on the stack takes its arguments before op is stacked. *)
GoesFirst(top, op) ==
  \/ precedence[top] > precedence[op]
  \/ precedence[top] = precedence[op] /\ ~RightAssociative(op)

(* A call; for an argument of a function, at is the function's node.           *)
Frame(context, at) == [context |-> context, at |-> at, arguments |-> <<>>, operators |-> <<>>]

\* FALSE: what is left over on the argument stack is dropped.
Finish_FirstOnly(frame, nodes_) ==
  LET stack == add_operators(Stack(frame, nodes_), frame.operators)
  IN  [ok |-> stack.ok, children |-> stack.children,
       root |-> IF stack.arguments = <<>> THEN Null ELSE stack.arguments[1]]

(* The end of a call of parse_expression, and what it returns.                 *)
Finish(frame, nodes_) ==
  LET stack == add_operators(Stack(frame, nodes_), frame.operators)
  IN  [ok |-> stack.ok /\ Len(stack.arguments) <= 1, children |-> stack.children,
       root |-> IF stack.arguments = <<>> THEN Null ELSE stack.arguments[1]]

-----------------------------------------------------------------------------
Level == Len(frames)
Current == frames[Level]
Callers == SubSeq(frames, 1, Level - 1)

Reading(token) ==
  /\ outcome = "parsing" /\ Len(words) < MaxTokens
  /\ words' = Append(words, token)
Here == Len(words) + 1

\* The nodes there are when the next token has been read.
Nodes == Append(children, <<>>)

Refuse == outcome' = "error" /\ children' = Nodes /\ UNCHANGED <<frames, root>>

(* The innermost of these calls continues after an operand. *)
Resume(calls, node) ==
  /\ frames' = [calls EXCEPT ![Len(calls)].arguments = Append(@, node)]
  /\ UNCHANGED <<outcome, root>>

(* A variable, a number, a string, a constant, or an array or object of        *)
(* constants written out, of which only the last token counts.                *)
Operand ==
  /\ Reading("operand")
  /\ Resume(frames, Here)
  /\ children' = Nodes

Operator(op) ==
  /\ Reading(op)
  /\ LET ops == Current.operators
     IN  \E stay \in 0..Len(ops) :
           LET stack == add_operators(Stack(Current, Nodes), SubSeq(ops, stay + 1, Len(ops)))
           IN  /\ stay > 0 => ~GoesFirst(words[ops[stay]], op)
               /\ \A i \in (stay + 1)..Len(ops) : GoesFirst(words[ops[i]], op)
               /\ IF ~stack.ok THEN Refuse
                  ELSE /\ frames' = [frames EXCEPT ![Level].arguments = stack.arguments,
                                                   ![Level].operators = Append(SubSeq(ops, 1, stay), Here)]
                       /\ children' = stack.children
                       /\ UNCHANGED <<outcome, root>>

(* A parenthesis alone, or after the name of a function. *)
LeftParen(token) ==
  /\ Reading(token)
  /\ frames' = Append(frames, Frame(token, Here))
  /\ children' = Nodes
  /\ UNCHANGED <<outcome, root>>

(* An argument of a function, and the next one.                                *)
Comma ==
  /\ Reading(",")
  /\ LET expr == Finish(Current, Nodes)
     IN  IF ~expr.ok \/ Current.context # "f(" \/ expr.root = Null THEN Refuse
         ELSE /\ frames' = Append(Callers, Frame("f(", Current.at))
              /\ children' = [expr.children EXCEPT ![Current.at] = Append(@, expr.root)]
              /\ UNCHANGED <<outcome, root>>

(* An argument list may be empty and may end in a comma; then find_function. *)
RightParen ==
  /\ Reading(")")
  /\ LET expr == Finish(Current, Nodes)
         before == expr.children[Current.at]
         arguments == IF expr.root = Null THEN before ELSE Append(before, expr.root)
     IN  IF ~expr.ok THEN Refuse
         ELSE CASE Current.context = "(" /\ expr.root # Null ->
                     Resume(Callers, expr.root) /\ children' = expr.children
                [] Current.context = "f(" /\ Len(arguments) = CallArity ->
                     /\ Resume(Callers, Current.at)
                     /\ children' = [expr.children EXCEPT ![Current.at] = arguments]
                [] OTHER -> Refuse

(* The token that closes the tag. *)
Closing ==
  /\ outcome = "parsing"
  /\ LET expr == Finish(Current, children)
     IN  IF Level > 1 \/ ~expr.ok THEN outcome' = "error_at_end" /\ UNCHANGED <<children, root>>
         ELSE outcome' = "parsed" /\ root' = expr.root /\ children' = expr.children
  /\ UNCHANGED <<words, frames>>

ExprInit ==
  /\ words = <<>> /\ children = <<>> /\ frames = <<Frame("top", 0)>>
  /\ outcome = "parsing" /\ root = Null

ExprNext ==
  \/ Operand \/ Comma \/ RightParen \/ Closing
  \/ \E op \in Operators : Operator(op)
  \/ \E token \in {"(", "f("} : LeftParen(token)

ExprSpec == ExprInit /\ [][ExprNext]_exprVars

-----------------------------------------------------------------------------
(* What can stand where. *)

(* Reads tokens from left to right: whether an operand is due, whether the     *)
(* token before binds as tightly as "not", the open parentheses with their     *)
(* arguments, and whether every token so far could stand where it does.        *)
Read(shape, token) ==
  LET s == shape.open
      n == Len(s)
      Fitting(b, due, tight, open) == [ok |-> shape.ok /\ b, due |-> due, tight |-> tight, open |-> open]
  IN  CASE token = "operand" -> Fitting(shape.due, FALSE, FALSE, s)
        [] token = "not"     -> Fitting(shape.due /\ ~shape.tight, TRUE, TRUE, s)
        [] token \in Binary  -> Fitting(~shape.due, TRUE, precedence[token] >= precedence["not"], s)
        [] token = "("       -> Fitting(shape.due, TRUE, FALSE, Append(s, 0))
        [] token = "f("      -> Fitting(shape.due, TRUE, FALSE, Append(s, 1))
        [] token = ","       -> IF s # <<>> THEN Fitting(~shape.due /\ s[n] > 0, TRUE, FALSE, [s EXCEPT ![n] = @ + 1])
                                            ELSE Fitting(FALSE, TRUE, FALSE, s)
        [] token = ")"       -> IF s # <<>> THEN Fitting(~shape.due /\ s[n] \in {0, CallArity}, FALSE, FALSE, SubSeq(s, 1, n - 1))
                                            ELSE Fitting(FALSE, FALSE, FALSE, s)

NoWords == [ok |-> TRUE, due |-> TRUE, tight |-> FALSE, open |-> <<>>]

ShapeOf(tokens) ==
  LET after[n \in 0..Len(tokens)] == IF n = 0 THEN NoWords ELSE Read(after[n - 1], tokens[n])
  IN  after[Len(tokens)]

Shape == ShapeOf(words)

-----------------------------------------------------------------------------
(* Properties. *)

(* Only a token that could not stand where it does is refused, and only an     *)
(* incomplete expression at its end; "not" cannot stand after "*", "^", "." or  *)
(* another "not".                                                              *)
GrammarAccepted ==
  /\ outcome = "error" => ~Shape.ok
  /\ outcome = "error_at_end" => ~Shape.ok \/ Shape.due \/ Shape.open # <<>>

Named == {"operand", "f("} \cup Operators

(* S has the arguments of its nodes. *)
Downward(nodes_, S) == \A i \in S : \A k \in DOMAIN nodes_[i] : nodes_[i][k] \in S

(* The tokens of a tree. *)
TokensOf(node) ==
  {i \in DOMAIN words :
     \A S \in SUBSET DOMAIN words : node \in S /\ Downward(children, S) => i \in S}

(* Also a malformed expression, if it is accepted, is used to the last token:  *)
(* no operand and no operator is dropped silently.                             *)
NothingDropped ==
  outcome = "parsed" =>
    {i \in DOMAIN words : words[i] \in Named} = IF root = Null THEN {} ELSE TokensOf(root)
=============================================================================
