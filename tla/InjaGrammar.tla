------------------------------ MODULE InjaGrammar ------------------------------
(* The grammar that the precedences of inja's operators stand for, and the      *)
(* trees that it gives: InjaExpression's parser against a definition by the     *)
(* parts of the expression, of which the operator that binds least makes two.  *)
EXTENDS InjaExpression, FiniteSets

Nested(tokens, i) ==
  Cardinality({j \in 1..(i - 1) : tokens[j] \in {"(", "f("}}) - Cardinality({j \in 1..(i - 1) : tokens[j] = ")"})

(* The operators between two operands, and the commas between the arguments of *)
(* a call, that no parenthesis within the tokens lo..hi hides.                 *)
Between(tokens, lo, hi) ==
  {i \in lo..hi : tokens[i] \in Binary /\ Nested(tokens, i) = Nested(tokens, lo)}
Commas(tokens, lo, hi) ==
  {i \in lo..hi : tokens[i] = "," /\ Nested(tokens, i) = Nested(tokens, lo) + 1}

(* The operator that binds least splits an expression, of several the last one, *)
(* or the first where they are right-associative.                              *)
SplitsBefore(tokens, i, j) ==
  \/ precedence[tokens[i]] < precedence[tokens[j]]
  \/ /\ precedence[tokens[i]] = precedence[tokens[j]]
     /\ IF RightAssociative(tokens[i]) THEN i < j ELSE j < i

Splits(tokens, n, lo, hi) ==
  n \in Between(tokens, lo, hi) /\ \A i \in Between(tokens, lo, hi) \ {n} : SplitsBefore(tokens, n, i)

(* "not" is for all that follows if what follows binds more tightly.           *)
Negates(tokens, lo, hi) ==
  tokens[lo] = "not" /\ \A i \in Between(tokens, lo, hi) : precedence[tokens[i]] > precedence["not"]

(* Whether node n is the tree of the tokens lo..hi, when T has the trees of     *)
(* shorter parts: <<n, lo, hi>> says that n is that of lo..hi.                  *)
IsTree(tokens, nodes, T, n, lo, hi) ==
  LET arguments == nodes[n]
      whole == Between(tokens, lo, hi) = {}
  IN  \/ /\ Splits(tokens, n, lo, hi) /\ ~Negates(tokens, lo, hi)
         /\ Len(arguments) = 2 /\ <<arguments[1], lo, n - 1>> \in T /\ <<arguments[2], n + 1, hi>> \in T
      \/ /\ Negates(tokens, lo, hi) /\ n = lo
         /\ Len(arguments) = 1 /\ <<arguments[1], lo + 1, hi>> \in T
      \/ /\ whole /\ tokens[lo] = "(" /\ tokens[hi] = ")"
         /\ <<n, lo + 1, hi - 1>> \in T
      \/ /\ whole /\ tokens[lo] = "f(" /\ tokens[hi] = ")" /\ n = lo
         /\ \E cut \in [0..Len(arguments) -> lo..hi] :
              /\ cut[0] = lo /\ cut[Len(arguments)] = hi
              /\ {cut[k] : k \in 1..(Len(arguments) - 1)} = Commas(tokens, lo, hi)
              /\ \A k \in 1..Len(arguments) : <<arguments[k], cut[k - 1] + 1, cut[k] - 1>> \in T
      \/ tokens[lo] = "operand" /\ lo = hi /\ n = lo /\ arguments = <<>>

(* The trees of all parts, of the shorter ones first. *)
Trees(tokens, nodes) ==
  LET upTo[k \in 0..Len(tokens)] ==
        IF k = 0 THEN {}
        ELSE {t \in (1..Len(tokens)) \X (1..Len(tokens)) \X (1..Len(tokens)) :
                t[2] <= t[3] /\ t[3] < t[2] + k /\ IsTree(tokens, nodes, upTo[k - 1], t[1], t[2], t[3])}
  IN  upTo[Len(tokens)]

(* Operators bind by precedence and associativity: the tree of a well-formed   *)
(* expression is the grammar's, with every operand on its side.                *)
ParsesAsGrammar ==
  outcome = "parsed" /\ Shape.ok /\ ~Shape.due /\ Shape.open = <<>> =>
    <<root, 1, Len(words)>> \in Trees(words, children)
=============================================================================
