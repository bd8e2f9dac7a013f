------------------------------- MODULE InjaEval -------------------------------
(* How inja evaluates an expression of a template (inja.hpp, Renderer): each   *)
(* node pushes a pointer to its value on data_eval_stack, or a null pointer and *)
(* its name on not_found_stack, and the function that visited it takes them off.*)
(* The calls of visit under way are a stack of their own here; an action is     *)
(* what a function does between two visits.                                     *)
EXTENDS Integers, Sequences, FiniteSets

CONSTANTS
  Trees,           \* the expressions
  Inputs           \* the data: functions from names to values

-----------------------------------------------------------------------------
(* Values: booleans, and objects that have some members.                       *)
Bool(b) == [type |-> "boolean", value |-> b, members |-> {}]
NullPointer == [type |-> "none", value |-> FALSE, members |-> {}]

Jsons == {Bool(b) : b \in BOOLEAN} \cup UNION {{data[name] : name \in DOMAIN data} : data \in Inputs}

truthy(v) == IF v.type = "boolean" THEN v.value ELSE v.members # {}

(* An expression is the sequence of its nodes, arguments before functions and  *)
(* the ExpressionListNode last.                                                *)
Leaves == {"data", "literal"}
Arity == [op \in {"data", "literal", "not", "and", "or", "==", "default", ".", "list"} |->
            IF op \in Leaves THEN 0 ELSE IF op \in {"not", "list"} THEN 1 ELSE 2]

IsTree(tree) ==
  /\ tree \in Seq([op : DOMAIN Arity, name : STRING, value : BOOLEAN, arguments : Seq(Nat)])
  /\ tree # <<>>
  /\ \A n \in DOMAIN tree :
       /\ tree[n].op = "list" <=> n = Len(tree)
       /\ Len(tree[n].arguments) = Arity[tree[n].op]
       /\ \A i \in DOMAIN tree[n].arguments : tree[n].arguments[i] \in 1..(n - 1)

(* The right side of a dot is a name.                                          *)
Id(tree, n) == tree[tree[n].arguments[2]]
Dots(tree) == {n \in DOMAIN tree : tree[n].op = "."}

ASSUME TreesAssumption ==
  \A tree \in Trees : IsTree(tree) /\ \A n \in Dots(tree) : Id(tree, n).op = "data"

ASSUME InputsAssumption ==
  \A data \in Inputs : \A name \in DOMAIN data :
    data[name] \in [type : {"boolean", "object"}, value : BOOLEAN, members : SUBSET STRING]

VARIABLES
  expression, input,  \* what is evaluated, and on which data
  calls,              \* the calls of visit and of eval_expression_list under way, innermost last
  evals,              \* data_eval_stack
  not_found,          \* not_found_stack
  outcome,            \* "evaluating", "done", "error"; undefined: "null_container", "no_name"
  result              \* the value returned

evalVars == <<expression, input, calls, evals, not_found, outcome, result>>

-----------------------------------------------------------------------------
(* A call: how many arguments it has visited, and the values it has taken.     *)
Call(n) == [node |-> n, visited |-> 0, taken |-> <<>>]
Innermost == calls[Len(calls)]
Node == expression[Innermost.node]
Pop(s) == SubSeq(s, 1, Len(s) - 1)
Last(s) == s[Len(s)]

EvalInit ==
  /\ expression \in Trees /\ input \in Inputs
  /\ calls = <<Call(Len(expression))>>
  /\ evals = <<>> /\ not_found = <<>>
  /\ outcome = "evaluating" /\ result = NullPointer

\* FALSE: and, or and default evaluate both their arguments.
Decided_Eager(op, taken) == Len(taken) = Arity[op]

(* A function has what it needs: all its arguments, or the first of and, or    *)
(* and default if that decides.                                                *)
Decided(op, taken) ==
  \/ Len(taken) = Arity[op]
  \/ /\ Len(taken) = 1
     /\ \/ op = "and" /\ ~truthy(taken[1])
        \/ op = "or" /\ truthy(taken[1])
        \/ op = "default" /\ taken[1] # NullPointer

(* The value of a function of what it has taken.                               *)
Result(op, taken) ==
  CASE op = "not" -> Bool(~truthy(taken[1]))
    [] op \in {"and", "or"} -> Bool(truthy(Last(taken)))
    [] op = "==" -> Bool(taken[1] = taken[2])
    [] op = "default" -> Last(taken)

(* The next argument is visited: of functions other than == once the first is  *)
(* taken.                                                                      *)
Visiting ==
  /\ outcome = "evaluating"
  /\ Innermost.visited < Arity[Node.op] /\ ~Decided(Node.op, Innermost.taken)
  /\ Node.op = "==" \/ Innermost.visited = Len(Innermost.taken)
  /\ UNCHANGED <<expression, input, outcome, result>>

Visited == [calls EXCEPT ![Len(calls)].visited = @ + 1]
NextArgument == Node.arguments[Innermost.visited + 1]

VisitFunction ==
  /\ Visiting /\ expression[NextArgument].op \notin Leaves
  /\ calls' = Append(Visited, Call(NextArgument))
  /\ UNCHANGED <<evals, not_found>>

VisitLiteral ==
  /\ Visiting /\ expression[NextArgument].op = "literal"
  /\ calls' = Visited /\ evals' = Append(evals, Bool(expression[NextArgument].value))
  /\ UNCHANGED not_found

(* A name of the data, or else a missing one.  In between the code tries a     *)
(* callback of that name that takes no arguments; the generator registers none.*)
VisitData ==
  /\ Visiting /\ expression[NextArgument].op = "data"
  /\ calls' = Visited
  /\ LET name == expression[NextArgument].name
     IN  \/ /\ name \in DOMAIN input
            /\ evals' = Append(evals, input[name]) /\ UNCHANGED not_found
         \/ /\ name \notin DOMAIN input
            /\ evals' = Append(evals, NullPointer) /\ not_found' = Append(not_found, name)

Stop(what) == outcome' = what /\ UNCHANGED <<expression, input, calls, result>>
Throw == Stop("error")

(* The innermost function has taken a value; == takes the second first.        *)
Taken(v) ==
  /\ calls' = [calls EXCEPT ![Len(calls)].taken = IF Node.op = "==" THEN <<v>> \o @ ELSE Append(@, v)]
  /\ UNCHANGED <<expression, input, outcome, result>>

Taking ==
  /\ outcome = "evaluating" /\ Node.op # "list"
  /\ Innermost.visited > Len(Innermost.taken)
  /\ Node.op = "==" => Innermost.visited = 2
  /\ ~(Node.op = "." /\ Innermost.visited = 2)

\* throw_not_found of get_arguments: default and the dot are told what is missing.
Tolerated == Node.op \in {"default", "."} /\ Innermost.visited = 1

TakeValue ==
  /\ Taking /\ Last(evals) # NullPointer
  /\ evals' = Pop(evals) /\ Taken(Last(evals))
  /\ UNCHANGED not_found

\* FALSE: the name of a value that is tolerated to be missing stays noted.
TakeMissing_KeepsName ==
  /\ Taking /\ Last(evals) = NullPointer
  /\ evals' = Pop(evals)
  /\ IF Tolerated THEN Taken(NullPointer) /\ UNCHANGED not_found
     ELSE IF not_found = <<>> THEN Stop("no_name") /\ UNCHANGED not_found
     ELSE not_found' = Pop(not_found) /\ Throw

(* A missing value's name is taken off too; std::stack does not check for empty.*)
TakeMissing ==
  /\ Taking /\ Last(evals) = NullPointer
  /\ evals' = Pop(evals)
  /\ IF not_found = <<>> THEN Stop("no_name") /\ UNCHANGED not_found
     ELSE not_found' = Pop(not_found) /\ IF Tolerated THEN Taken(NullPointer) ELSE Throw

Returns(v, below) ==
  /\ calls' = Pop(calls) /\ evals' = Append(below, v)
  /\ UNCHANGED <<expression, input, outcome, result>>

Return ==
  /\ outcome = "evaluating" /\ Node.op \notin {".", "list"}
  /\ Decided(Node.op, Innermost.taken)
  /\ Returns(Result(Node.op, Innermost.taken), evals)
  /\ UNCHANGED not_found

(* The dot operator: its right side is the name noted last, as not found.      *)
AtId ==
  /\ outcome = "evaluating" /\ Node.op = "." /\ Innermost.visited = 2
  /\ LET container == Innermost.taken[1]
     IN  IF not_found = <<>> THEN Throw /\ UNCHANGED <<evals, not_found>>
         ELSE /\ not_found' = Pop(not_found)
              /\ IF container = NullPointer THEN Stop("null_container") /\ evals' = Pop(evals)
                 ELSE IF Last(not_found) \in container.members THEN Returns(Bool(TRUE), Pop(evals))
                 ELSE Throw /\ evals' = Pop(evals)

(* The end of eval_expression_list: one value is left, and not a null pointer. *)
EndOfExpression ==
  /\ outcome = "evaluating" /\ Node.op = "list" /\ Innermost.visited = 1
  /\ IF Len(evals) # 1 THEN Throw /\ UNCHANGED <<evals, not_found>>
     ELSE /\ evals' = <<>>
          /\ IF Last(evals) # NullPointer
             THEN /\ outcome' = "done" /\ result' = Last(evals) /\ calls' = <<>>
                  /\ UNCHANGED <<expression, input, not_found>>
             ELSE Throw /\ not_found' = IF not_found = <<>> THEN <<>> ELSE Pop(not_found)

EvalNext ==
  \/ VisitFunction \/ VisitLiteral \/ VisitData
  \/ TakeValue \/ TakeMissing \/ Return \/ AtId \/ EndOfExpression

EvalSpec == EvalInit /\ [][EvalNext]_evalVars

-----------------------------------------------------------------------------
(* What an expression means, without stacks: a value, the null pointer for a   *)
(* name that the data do not define, an error, or undefined behaviour.         *)
Failure(what) == [type |-> what, value |-> FALSE, members |-> {}]
Error == Failure("error")
NoContainer == Failure("null_container")
Failures == {Error, NoContainer}

(* v, if the argument that has the value a is there.                           *)
Needs(a, v) == IF a \in Failures THEN a ELSE IF a = NullPointer THEN Error ELSE v

Both(a, b) == IF a = NullPointer /\ b \in Failures THEN b ELSE Needs(a, Needs(b, Bool(a = b)))

(* The value of a node, of which meaning has those of its arguments.           *)
ValueOf(tree, data, n, meaning) ==
  LET node == tree[n]
      a == meaning[node.arguments[1]]
      b == meaning[node.arguments[2]]
  IN  CASE node.op = "data"    -> IF node.name \in DOMAIN data THEN data[node.name] ELSE NullPointer
        [] node.op = "literal" -> Bool(node.value)
        [] node.op = "not"     -> Needs(a, Bool(~truthy(a)))
        [] node.op = "and"     -> Needs(a, IF truthy(a) THEN Needs(b, Bool(truthy(b))) ELSE Bool(FALSE))
        [] node.op = "or"      -> Needs(a, IF truthy(a) THEN Bool(TRUE) ELSE Needs(b, Bool(truthy(b))))
        [] node.op = "=="      -> Both(a, b)
        [] node.op = "default" -> IF a = NullPointer THEN Needs(b, b) ELSE a
        [] node.op = "."       -> IF a = NullPointer THEN NoContainer
                                  ELSE Needs(a, IF Id(tree, n).name \in a.members THEN Bool(TRUE) ELSE Error)
        [] node.op = "list"    -> Needs(a, a)

Meanings(tree, data) ==
  LET meaning[n \in DOMAIN tree] == ValueOf(tree, data, n, meaning) IN meaning

Meaning(tree, data) == Meanings(tree, data)[Len(tree)]

(* Properties. *)

(* What a dot looks for in its container is not a name of the data.  The code  *)
(* takes it from not_found_stack, where it is then not found.                  *)
IdsApart == \A n \in Dots(expression) : Id(expression, n).name \notin DOMAIN input

(* An expression has the value that its operators give it, evaluated from left *)
(* to right and no further than needed; it is an error exactly if a name that  *)
(* is needed is missing, and undefined exactly if a dot's container is.        *)
EvaluatesAsMeant ==
  IdsApart =>
    LET meaning == Meaning(expression, input)
    IN  /\ outcome = "done" => result = meaning /\ meaning \in Jsons
        /\ outcome = "error" => meaning = Error
        /\ outcome = "null_container" => meaning = NoContainer

(* On data that do not define a name that a dot looks for (IdsApart), an       *)
(* evaluation leaves no name of a missing value behind, for a later one to     *)
(* take for its own, and never takes one that is not there.                    *)
MissingNamesConsumed ==
  IdsApart =>
    /\ outcome # "no_name"
    /\ outcome = "done" => evals = <<>> /\ not_found = <<>>
=============================================================================
