--------------------------- MODULE MCInjaRenderer ---------------------------
(* Renderers on two names; and, for a renderer that has begun, the evaluation  *)
(* of an expression: of all those of at most two operators on the way to a     *)
(* leaf, on all the data for two names.                                        *)
EXTENDS InjaRenderer, InjaEval

LeafNodes ==
  {[op |-> "data", name |-> name, value |-> FALSE, arguments |-> <<>>] : name \in {"x", "y"}}
  \cup {[op |-> "literal", name |-> "", value |-> TRUE, arguments |-> <<>>]}
Function(op, arguments) == [op |-> op, name |-> "", value |-> FALSE, arguments |-> arguments]
Member == [op |-> "data", name |-> "member", value |-> FALSE, arguments |-> <<>>]

(* The nodes of b, behind n others.                                            *)
Behind(n, b) ==
  [k \in DOMAIN b |-> [b[k] EXCEPT !.arguments = [i \in DOMAIN @ |-> @[i] + n]]]

Not(a) == Append(a, Function("not", <<Len(a)>>))
Binary(op, a, b) == a \o Append(Behind(Len(a), b), Function(op, <<Len(a), Len(a) + Len(b)>>))
Over(S) ==
  {Not(a) : a \in S} \cup {Binary(op, a, b) : op \in {"and", "or", "==", "default"}, a \in S, b \in S}
DotsOver(S) == {Binary(".", a, <<Member>>) : a \in S}

Single == {<<leaf>> : leaf \in LeafNodes}
Small == Single \cup Over(Single) \cup DotsOver(Single)
MCTrees == {Append(a, Function("list", <<Len(a)>>)) : a \in Small \cup Over(Small) \cup DotsOver(Over(Single))}

MCInputs ==
  UNION {[D -> {Bool(TRUE), Bool(FALSE), [type |-> "object", value |-> FALSE, members |-> {"member"}]}] :
           D \in SUBSET {"x", "y"}}

(* No expression is evaluated.                                                 *)
EvalIdle ==
  /\ expression = <<>> /\ input = <<>> /\ calls = <<>> /\ evals = <<>> /\ not_found = <<>>
  /\ outcome = "idle" /\ result = NullPointer

MCInit == Init /\ (EvalIdle \/ EvalInit)

(* An evaluation that is over stays so; one that is stuck is a deadlock.       *)
MCNext ==
  \/ outcome = "idle" /\ Next /\ UNCHANGED evalVars
  \/ EvalNext /\ UNCHANGED vars
  \/ outcome \notin {"idle", "evaluating"} /\ UNCHANGED <<vars, evalVars>>

MCSpec == MCInit /\ [][MCNext]_<<vars, evalVars>>
=============================================================================
