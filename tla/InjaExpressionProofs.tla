--------------------------- MODULE InjaExpressionProofs ---------------------------
(* Proofs about InjaExpression, for expressions of any length and depth.         *)
(*                                                                               *)
(* parse_expression checks nothing but that an operator finds its arguments and  *)
(* that a call ends with at most one node.  That this is enough to accept what   *)
(* is well-formed follows from a balance: each operator on a stack weighs as     *)
(* many arguments as it takes less the one it leaves, and the stack of arguments *)
(* is as long as the operators weigh, and one longer after an operand.           *)
(*                                                                               *)
(* That nothing is dropped is about what holds what: a set that has the nodes on *)
(* the stacks, and with a node its arguments, has every node made so far.  This  *)
(* needs no induction over trees, which are sets closed under arguments.         *)
(*                                                                               *)
(* That the tree is the grammar's is about the parts of the expression that have *)
(* become trees: a set of <<n, lo, hi>>, node n being the tree of the tokens     *)
(* lo..hi.  Each call has on its stacks an operator for each operand that waits, *)
(* in the order they were read, and the operand is a tree of all that lies       *)
(* between its operator and the next (Waiting, Last).  An operator goes off the  *)
(* stack when one comes that binds no tighter, or the call ends: then it binds   *)
(* least in the part from the operand before it to there, as the grammar asks.   *)
(* A set all of whose members are trees of shorter ones (Built) is within Trees, *)
(* the least such set, by the length of the parts (BuiltAreTrees).               *)
EXTENDS InjaGrammar, WellFoundedInduction, SequenceTheorems, FiniteSetTheorems, TLAPS

-----------------------------------------------------------------------------
(* Induction over the tokens and over the operators of a stack.                *)

LEMMA LeastElement ==
  ASSUME NEW S \in SUBSET Nat, S # {}
  PROVE  \E x \in S : \A y \in S : x <= y
<1>1. IsWellFoundedOn(OpToRel(<, Nat), Nat)
  BY NatLessThanWellFounded
<1>2. PICK x \in S : \A y \in S : ~ (<<y, x>> \in OpToRel(<, Nat))
  BY <1>1, WFMin
<1>3. \A y \in S : ~ (y < x)
  BY <1>2 DEF OpToRel
<1> QED
  BY <1>3

LEMMA CountingUp ==
  ASSUME NEW S \in SUBSET Nat, 0 \in S, \A n \in S : n + 1 \in S
  PROVE  S = Nat
<1>1. SUFFICES ASSUME Nat \ S # {} PROVE FALSE
  OBVIOUS
<1>2. PICK x \in Nat \ S : \A y \in Nat \ S : x <= y
  BY <1>1, LeastElement
<1>3. x - 1 \in S /\ (x - 1) + 1 = x
  BY <1>2
<1> QED
  BY <1>2, <1>3

(* The stacks after each of the first n operators that add_operators takes.   *)
IsAfter(stack, ops, n, f) ==
  f = [m \in 0..n |-> IF m = 0 THEN stack ELSE add_operator(f[m - 1], ops[Len(ops) - m + 1])]

LEMMA AfterExists ==
  ASSUME NEW stack, NEW ops, NEW n \in Nat
  PROVE  \E f : IsAfter(stack, ops, n, f)
<1> DEFINE S == {m \in Nat : \E f : IsAfter(stack, ops, m, f)}
<1>1. 0 \in S
  <2>1. IsAfter(stack, ops, 0, [m \in 0..0 |-> stack])
    BY DEF IsAfter
  <2> QED BY <2>1
<1>2. ASSUME NEW m \in S PROVE m + 1 \in S
  <2>1. PICK f : IsAfter(stack, ops, m, f)
    BY <1>2
  <2> DEFINE g == [i \in 0..(m + 1) |-> IF i = m + 1 THEN add_operator(f[m], ops[Len(ops) - (m + 1) + 1]) ELSE f[i]]
  <2>2. ASSUME NEW i \in 0..(m + 1)
        PROVE  g[i] = IF i = 0 THEN stack ELSE add_operator(g[i - 1], ops[Len(ops) - i + 1])
    BY <1>2, <2>1, <2>2 DEF IsAfter
  <2>3. IsAfter(stack, ops, m + 1, g)
    BY <2>2 DEF IsAfter
  <2> QED BY <1>2, <2>3
<1> QED
  BY <1>1, <1>2, CountingUp

(* What holds of the stack, and is kept from one operator to the next, holds of *)
(* what add_operators returns.                                                  *)
LEMMA AddOperatorsInduction ==
  ASSUME NEW stack, NEW ops, Len(ops) \in Nat, NEW P, stack \in P[0],
         \A n \in 1..Len(ops) : \A s \in P[n - 1] : add_operator(s, ops[Len(ops) - n + 1]) \in P[n]
  PROVE  add_operators(stack, ops) \in P[Len(ops)]
<1> DEFINE f == CHOOSE f : IsAfter(stack, ops, Len(ops), f)
<1>1. add_operators(stack, ops) = f[Len(ops)]
  BY DEF add_operators, IsAfter
<1>2. IsAfter(stack, ops, Len(ops), f)
  BY AfterExists
<1> HIDE DEF f
<1> DEFINE S == {n \in Nat : n <= Len(ops) => f[n] \in P[n]}
<1>3. 0 \in S
  BY <1>2 DEF IsAfter
<1>4. ASSUME NEW n \in S PROVE n + 1 \in S
  <2>1. SUFFICES ASSUME n + 1 <= Len(ops) PROVE f[n + 1] \in P[n + 1]
    BY <1>4
  <2>2. n + 1 \in 1..Len(ops) /\ (n + 1) - 1 = n /\ f[n] \in P[n]
    BY <1>4, <2>1
  <2>3. f[n + 1] = add_operator(f[n], ops[Len(ops) - (n + 1) + 1])
    BY <1>2, <2>2 DEF IsAfter
  <2> QED BY <2>2, <2>3
<1>5. S = Nat
  <2> HIDE DEF S
  <2>1. S \in SUBSET Nat
    BY DEF S
  <2> QED BY <1>3, <1>4, <2>1, CountingUp
<1> QED
  BY <1>1, <1>5

(* The shapes after each of the first n tokens. *)
IsReading(tokens, n, f) ==
  f = [m \in 0..n |-> IF m = 0 THEN NoWords ELSE Read(f[m - 1], tokens[m])]

LEMMA ReadingExists ==
  ASSUME NEW tokens, NEW n \in Nat
  PROVE  \E f : IsReading(tokens, n, f)
<1> DEFINE S == {m \in Nat : \E f : IsReading(tokens, m, f)}
<1>1. 0 \in S
  <2>1. IsReading(tokens, 0, [m \in 0..0 |-> NoWords])
    BY DEF IsReading
  <2> QED BY <2>1
<1>2. ASSUME NEW m \in S PROVE m + 1 \in S
  <2>1. PICK f : IsReading(tokens, m, f)
    BY <1>2
  <2> DEFINE g == [i \in 0..(m + 1) |-> IF i = m + 1 THEN Read(f[m], tokens[m + 1]) ELSE f[i]]
  <2>2. ASSUME NEW i \in 0..(m + 1)
        PROVE  g[i] = IF i = 0 THEN NoWords ELSE Read(g[i - 1], tokens[i])
    BY <1>2, <2>1, <2>2 DEF IsReading
  <2>3. IsReading(tokens, m + 1, g)
    BY <2>2 DEF IsReading
  <2> QED BY <1>2, <2>3
<1> QED
  BY <1>1, <1>2, CountingUp

LEMMA ReadingIsShape ==
  ASSUME NEW tokens, Len(tokens) \in Nat
  PROVE  \E f : IsReading(tokens, Len(tokens), f) /\ ShapeOf(tokens) = f[Len(tokens)]
<1> DEFINE f == CHOOSE f : IsReading(tokens, Len(tokens), f)
<1>1. ShapeOf(tokens) = f[Len(tokens)]
  BY DEF ShapeOf, IsReading
<1>2. IsReading(tokens, Len(tokens), f)
  BY ReadingExists
<1> QED
  BY <1>1, <1>2

LEMMA NoWordsShape == ShapeOf(<<>>) = NoWords
<1>1. PICK f : IsReading(<<>>, 0, f) /\ ShapeOf(<<>>) = f[0]
  BY ReadingIsShape
<1> QED
  BY <1>1 DEF IsReading

(* One more token is read from where the others ended. *)
LEMMA ShapeStep ==
  ASSUME NEW S, NEW tokens \in Seq(S), NEW token \in S
  PROVE  ShapeOf(Append(tokens, token)) = Read(ShapeOf(tokens), token)
<1> DEFINE N == Len(tokens)
           more == Append(tokens, token)
<1>1. N \in Nat /\ Len(more) = N + 1 /\ more[N + 1] = token /\ \A i \in 1..N : more[i] = tokens[i]
  OBVIOUS
<1> HIDE DEF N, more
<1>2. PICK f : IsReading(tokens, N, f) /\ ShapeOf(tokens) = f[N]
  BY <1>1, ReadingIsShape DEF N
<1>3. PICK g : IsReading(more, N + 1, g) /\ ShapeOf(more) = g[N + 1]
  BY <1>1, ReadingIsShape
<1> DEFINE T == {n \in Nat : n <= N => f[n] = g[n]}
<1>4. 0 \in T
  BY <1>1, <1>2, <1>3 DEF IsReading
<1>5. ASSUME NEW n \in T PROVE n + 1 \in T
  <2>1. SUFFICES ASSUME n + 1 <= N PROVE f[n + 1] = g[n + 1]
    BY <1>5
  <2>2. n + 1 \in 1..N /\ (n + 1) - 1 = n /\ f[n] = g[n]
    BY <1>1, <1>5, <2>1
  <2>3. f[n + 1] = Read(f[n], tokens[n + 1])
    BY <1>1, <1>2, <2>2 DEF IsReading
  <2>4. g[n + 1] = Read(g[n], more[n + 1])
    BY <1>1, <1>3, <2>2 DEF IsReading
  <2> QED BY <1>1, <2>2, <2>3, <2>4
<1>6. T = Nat
  <2> HIDE DEF T
  <2>1. T \in SUBSET Nat
    BY DEF T
  <2> QED BY <1>4, <1>5, <2>1, CountingUp
<1>7. f[N] = g[N]
  BY <1>1, <1>6
<1>8. g[N + 1] = Read(g[N], more[N + 1])
  <2>1. N + 1 \in 0..(N + 1) /\ N + 1 # 0 /\ (N + 1) - 1 = N
    BY <1>1
  <2> QED BY <1>3, <2>1 DEF IsReading
<1> QED
  BY <1>1, <1>2, <1>3, <1>7, <1>8 DEF more

-----------------------------------------------------------------------------
(* One operator. *)

Stacks == [ok : BOOLEAN, arguments : Seq(Nat), children : Seq(Seq(Nat))]

Elements(q) == {q[k] : k \in DOMAIN q}

LEMMA ValueAt ==
  ASSUME NEW T, NEW q \in Seq(T), NEW i \in 1..Len(q)
  PROVE  q[i] \in Elements(q)
BY DEF Elements

LEMMA ValueFrom ==
  ASSUME NEW T, NEW q \in Seq(T), NEW x \in Elements(q)
  PROVE  \E i \in 1..Len(q) : x = q[i]
BY DEF Elements

LEMMA AppendValues ==
  ASSUME NEW T, NEW q \in Seq(T), NEW x \in T
  PROVE  Elements(Append(q, x)) = Elements(q) \cup {x}
<1> DEFINE more == Append(q, x)
<1>1. /\ more \in Seq(T) /\ Len(more) = Len(q) + 1 /\ Len(q) \in Nat /\ more[Len(q) + 1] = x
      /\ \A i \in 1..Len(q) : more[i] = q[i]
  OBVIOUS
<1> HIDE DEF more
<1>2. ASSUME NEW y \in Elements(q) PROVE y \in Elements(more)
  <2>1. PICK i \in 1..Len(q) : y = q[i]
    BY ValueFrom
  <2>2. i \in 1..Len(more) /\ more[i] = y
    BY <1>1, <2>1
  <2> QED BY <1>1, <2>2, ValueAt
<1>3. x \in Elements(more)
  <2>1. Len(q) + 1 \in 1..Len(more)
    BY <1>1
  <2> QED BY <1>1, <2>1, ValueAt
<1>4. ASSUME NEW y \in Elements(more) PROVE y \in Elements(q) \cup {x}
  <2>1. PICK i \in 1..Len(more) : y = more[i]
    BY <1>1, ValueFrom
  <2>2. i \in 1..Len(q) \/ i = Len(q) + 1
    BY <1>1
  <2> QED BY <1>1, <2>1, <2>2, ValueAt
<1> QED
  BY <1>2, <1>3, <1>4 DEF more

LEMMA SplitValues ==
  ASSUME NEW T, NEW q \in Seq(T), NEW n \in 0..Len(q)
  PROVE  /\ SubSeq(q, 1, n) \in Seq(T) /\ SubSeq(q, n + 1, Len(q)) \in Seq(T)
         /\ Len(SubSeq(q, 1, n)) = n /\ Len(SubSeq(q, n + 1, Len(q))) = Len(q) - n
         /\ \A i \in 1..n : SubSeq(q, 1, n)[i] = q[i]
         /\ \A i \in 1..(Len(q) - n) : SubSeq(q, n + 1, Len(q))[i] = q[n + i]
         /\ Elements(q) = Elements(SubSeq(q, 1, n)) \cup Elements(SubSeq(q, n + 1, Len(q)))
<1> DEFINE a == SubSeq(q, 1, n)
           b == SubSeq(q, n + 1, Len(q))
           m == Len(q) - n
<1>1. Len(q) \in Nat /\ n \in Nat /\ m \in Nat /\ n + m = Len(q)
  OBVIOUS
<1>2. a \in Seq(T) /\ Len(a) = n /\ \A i \in 1..n : a[i] = q[i]
  OBVIOUS
<1>3. b \in Seq(T) /\ Len(b) = m /\ \A i \in 1..m : b[i] = q[n + i]
  OBVIOUS
<1> HIDE DEF a, b, m
<1>4. ASSUME NEW x \in Elements(a) PROVE x \in Elements(q)
  <2>1. PICK i \in 1..n : x = a[i]
    BY <1>2, ValueFrom
  <2>2. i \in 1..Len(q) /\ x = q[i]
    BY <1>1, <1>2, <2>1
  <2> QED BY <2>2, ValueAt
<1>5. ASSUME NEW x \in Elements(b) PROVE x \in Elements(q)
  <2>1. PICK i \in 1..m : x = b[i]
    BY <1>3, ValueFrom
  <2>2. n + i \in 1..Len(q) /\ x = q[n + i]
    BY <1>1, <1>3, <2>1
  <2> QED BY <2>2, ValueAt
<1>6. ASSUME NEW x \in Elements(q) PROVE x \in Elements(a) \cup Elements(b)
  <2>1. PICK i \in 1..Len(q) : x = q[i]
    BY ValueFrom
  <2>2. CASE i <= n
    <3>1. i \in 1..Len(a) /\ x = a[i]
      BY <1>1, <1>2, <2>1, <2>2
    <3> QED BY <1>2, <3>1, ValueAt
  <2>3. CASE ~(i <= n)
    <3>1. i - n \in 1..m /\ n + (i - n) = i
      BY <1>1, <2>3
    <3>2. x = b[i - n] /\ i - n \in 1..Len(b)
      BY <1>3, <2>1, <3>1
    <3> QED BY <1>3, <3>2, ValueAt
  <2> QED BY <2>2, <2>3
<1> QED
  BY <1>2, <1>3, <1>4, <1>5, <1>6 DEF a, b, m

\* The arguments when an operator op has taken n of them, and the operator's.
KeptArguments(q, n, op) == Append(SubSeq(q, 1, Len(q) - n), op)
TakenArguments(q, n, old) == SubSeq(q, Len(q) - n + 1, Len(q) - n + n) \o old

NothingLost(q, n, old, op, kept, taken) ==
  /\ kept \in Seq(Nat) /\ Len(kept) = Len(q) - n + 1
  /\ taken \in Seq(Nat)
  /\ Elements(q) \subseteq Elements(kept) \cup Elements(taken)
  /\ Elements(kept) \subseteq Elements(q) \cup {op}
  /\ Elements(old) \subseteq Elements(taken)
  /\ Elements(taken) \subseteq Elements(q) \cup Elements(old)
  /\ op \in Elements(kept)

LEMMA ArgumentsTaken ==
  ASSUME NEW q \in Seq(Nat), NEW n \in 1..2, n <= Len(q), NEW old \in Seq(Nat), NEW op \in Nat
  PROVE  NothingLost(q, n, old, op, KeptArguments(q, n, op), TakenArguments(q, n, old))
<1> DEFINE k == Len(q) - n
           kept == Append(SubSeq(q, 1, k), op)
           top == SubSeq(q, k + 1, k + n)
           taken == top \o old
<1>0. kept = KeptArguments(q, n, op) /\ taken = TakenArguments(q, n, old)
  BY DEF KeptArguments, TakenArguments
<1>1. k \in Nat /\ k + n = Len(q) /\ Len(q) \in Nat /\ Len(old) \in Nat
  OBVIOUS
<1> HIDE DEF k
<1>2. SubSeq(q, 1, k) \in Seq(Nat) /\ Len(SubSeq(q, 1, k)) = k /\ \A i \in 1..k : SubSeq(q, 1, k)[i] = q[i]
  BY <1>1
<1>3. /\ kept \in Seq(Nat) /\ Len(kept) = k + 1 /\ kept[k + 1] = op
      /\ \A i \in 1..k : kept[i] = q[i]
  BY <1>1, <1>2
<1>4. top \in Seq(Nat) /\ Len(top) = n /\ \A i \in 1..n : top[i] = q[k + i]
  BY <1>1
<1> HIDE DEF kept, top
<1>5. /\ taken \in Seq(Nat) /\ Len(taken) = n + Len(old)
      /\ \A i \in 1..n : taken[i] = q[k + i]
      /\ \A i \in 1..Len(old) : taken[n + i] = old[i]
  <2> HIDE DEF taken
  <2>0. /\ taken \in Seq(Nat) /\ Len(taken) = n + Len(old)
        /\ \A i \in 1..(n + Len(old)) : taken[i] = IF i <= n THEN top[i] ELSE old[i - n]
    BY <1>4, ConcatProperties DEF taken
  <2>1. taken \in Seq(Nat) /\ Len(taken) = n + Len(old)
    BY <2>0
  <2>2. ASSUME NEW i \in 1..n PROVE taken[i] = q[k + i]
    <3>1. i \in 1..(n + Len(old)) /\ i <= n
      BY <1>1
    <3> QED BY <1>4, <2>0, <3>1
  <2>3. ASSUME NEW i \in 1..Len(old) PROVE taken[n + i] = old[i]
    <3>1. n + i \in 1..(n + Len(old)) /\ ~(n + i <= n) /\ (n + i) - n = i
      BY <1>1
    <3> QED BY <2>0, <3>1
  <2> QED BY <2>1, <2>2, <2>3
<1> HIDE DEF taken
<1>9. Elements(q) \subseteq Elements(kept) \cup Elements(taken)
  <2> SUFFICES ASSUME NEW x \in Elements(q) PROVE x \in Elements(kept) \cup Elements(taken)
    OBVIOUS
  <2>1. PICK i \in 1..Len(q) : x = q[i]
    BY ValueFrom
  <2>2. CASE i <= k
    <3>1. kept[i] = x /\ i \in 1..Len(kept)
      BY <1>1, <1>3, <2>1, <2>2
    <3> QED BY <1>3, <3>1, ValueAt
  <2>3. CASE ~(i <= k)
    <3>1. i - k \in 1..n /\ k + (i - k) = i
      BY <1>1, <2>3
    <3>2. taken[i - k] = x
      BY <1>5, <2>1, <3>1
    <3>3. i - k \in 1..Len(taken)
      BY <1>1, <1>5, <3>1
    <3> QED BY <1>5, <3>2, <3>3, ValueAt
  <2> QED BY <2>2, <2>3
<1>10. Elements(old) \subseteq Elements(taken)
  <2> SUFFICES ASSUME NEW x \in Elements(old) PROVE x \in Elements(taken)
    OBVIOUS
  <2>1. PICK i \in 1..Len(old) : x = old[i]
    BY ValueFrom
  <2>2. taken[n + i] = x
    BY <1>5, <2>1
  <2>3. n + i \in 1..Len(taken)
    BY <1>1, <1>5
  <2> QED BY <1>5, <2>2, <2>3, ValueAt
<1>11. Elements(taken) \subseteq Elements(q) \cup Elements(old)
  <2> SUFFICES ASSUME NEW x \in Elements(taken) PROVE x \in Elements(q) \cup Elements(old)
    OBVIOUS
  <2>1. PICK i \in 1..Len(taken) : x = taken[i]
    BY <1>5, ValueFrom
  <2>2. CASE i <= n
    <3>0. i \in 1..n
      BY <1>5, <2>1, <2>2
    <3>1. x = q[k + i]
      BY <1>5, <2>1, <3>0
    <3>2. k + i \in 1..Len(q)
      BY <1>1, <2>2
    <3> QED BY <3>1, <3>2, ValueAt
  <2>3. CASE ~(i <= n)
    <3>1. i - n \in 1..Len(old) /\ n + (i - n) = i
      BY <1>1, <1>5, <2>3
    <3>2. x = old[i - n]
      BY <1>5, <2>1, <3>1
    <3> QED BY <3>1, <3>2, ValueAt
  <2> QED BY <2>2, <2>3
<1>12. op \in Elements(kept)
  <2>1. k + 1 \in 1..Len(kept)
    BY <1>1, <1>3
  <2> QED BY <1>3, <2>1, ValueAt
<1>13. Elements(kept) \subseteq Elements(q) \cup {op}
  <2> SUFFICES ASSUME NEW x \in Elements(kept), x # op PROVE x \in Elements(q)
    OBVIOUS
  <2>1. PICK i \in 1..Len(kept) : x = kept[i]
    BY <1>3, ValueFrom
  <2>2. i \in 1..k /\ i \in 1..Len(q)
    BY <1>1, <1>3, <2>1
  <2>3. x = q[i]
    BY <1>3, <2>1, <2>2
  <2> QED BY <2>2, <2>3, ValueAt
<1>14. Len(kept) = Len(q) - n + 1
  BY <1>1, <1>3
<1> QED
  BY <1>0, <1>3, <1>5, <1>9, <1>10, <1>11, <1>12, <1>13, <1>14 DEF NothingLost

-----------------------------------------------------------------------------
LEMMA NotEmpty ==
  ASSUME NEW T, NEW q \in Seq(T)
  PROVE  (q = <<>> <=> Len(q) = 0) /\ (q # <<>> <=> Len(q) >= 1) /\ Len(q) \in Nat
BY EmptySeq

LEMMA Single ==
  ASSUME NEW T, NEW q \in Seq(T)
  PROVE  q # <<>> /\ Len(q) <= 1 => Len(q) = 1
<1>1. Len(q) \in Nat
  OBVIOUS
<1>2. q # <<>> => Len(q) # 0
  BY NotEmpty
<1> DEFINE n == Len(q)
<1> HIDE DEF n
<1>3. n \in Nat /\ n # 0 /\ n <= 1 => n = 1
  OBVIOUS
<1> QED
  BY <1>1, <1>2, <1>3 DEF n

LEMMA Arities == \A op : number_args(op) \in 1..2 /\ number_args(op) \in Nat
BY DEF number_args

LEMMA OperatorAdded ==
  ASSUME NEW s \in Stacks, s.ok, NEW op \in 1..Len(s.children), number_args(words[op]) <= Len(s.arguments)
  PROVE  LET t == add_operator(s, op)
         IN  /\ t \in Stacks /\ t.ok
             /\ Len(t.arguments) = Len(s.arguments) - number_args(words[op]) + 1
             /\ Len(t.children) = Len(s.children)
             /\ \A i \in 1..Len(s.children) : i # op => t.children[i] = s.children[i]
             /\ Elements(s.arguments) \subseteq Elements(t.arguments) \cup Elements(t.children[op])
             /\ Elements(t.arguments) \subseteq Elements(s.arguments) \cup {op}
             /\ op \in Elements(t.arguments)
             /\ Elements(s.children[op]) \subseteq Elements(t.children[op])
             /\ Elements(t.children[op]) \subseteq Elements(s.arguments) \cup Elements(s.children[op])
<1> DEFINE t == add_operator(s, op)
           n == number_args(words[op])
           q == s.arguments
           old == s.children[op]
           kept == KeptArguments(q, n, op)
           taken == TakenArguments(q, n, old)
           more == [s.children EXCEPT ![op] = taken]
<1>1. q \in Seq(Nat) /\ s.children \in Seq(Seq(Nat)) /\ old \in Seq(Nat) /\ Len(q) \in Nat /\ Len(s.children) \in Nat /\ op \in Nat
  BY DEF Stacks
<1>2. n \in 1..2 /\ n <= Len(q)
  BY Arities
<1>3. t = [ok |-> TRUE, arguments |-> kept, children |-> more]
  BY <1>1, <1>2 DEF add_operator, KeptArguments, TakenArguments
<1> HIDE DEF t, n, q, old
<1>4. NothingLost(q, n, old, op, kept, taken)
  BY <1>1, <1>2, ArgumentsTaken
<1> HIDE DEF kept, taken
<1>5. /\ more \in Seq(Seq(Nat)) /\ Len(more) = Len(s.children) /\ more[op] = taken
      /\ \A i \in 1..Len(s.children) : i # op => more[i] = s.children[i]
  BY <1>1, <1>4 DEF NothingLost
<1> HIDE DEF more
<1>6. t \in Stacks /\ t.ok /\ t.arguments = kept /\ t.children = more
  BY <1>3, <1>4, <1>5 DEF Stacks, NothingLost
<1> QED
  BY <1>4, <1>5, <1>6 DEF n, q, old, t, NothingLost

(* An operator that has too few arguments fails, and no later one mends that.   *)
LEMMA OperatorRefused ==
  ASSUME NEW s \in Stacks, NEW op, ~s.ok \/ ~(number_args(words[op]) <= Len(s.arguments))
  PROVE  LET t == add_operator(s, op)
         IN  t \in Stacks /\ ~t.ok /\ t.children = s.children
<1> DEFINE n == number_args(words[op])
<1>1. s.arguments \in Seq(Nat) /\ Len(s.arguments) \in Nat /\ n \in Nat
  BY Arities DEF Stacks
<1>2. add_operator(s, op) = [s EXCEPT !.ok = FALSE]
  BY <1>1 DEF add_operator
<1> QED
  BY <1>2 DEF Stacks

(* What add_operators makes of a stack: the nodes of other tokens stay, and what *)
(* has the nodes left on the argument stack and their arguments has all there    *)
(* was, the operators included.                                                  *)
Grown(stack, t, added) ==
  /\ t \in Stacks /\ Len(t.children) = Len(stack.children)
  /\ t.ok =>
       /\ \A i \in 1..Len(stack.children) : i \notin added => t.children[i] = stack.children[i]
       /\ \A i \in 1..Len(stack.children) :
            Elements(t.children[i]) \subseteq Elements(stack.children[i]) \cup Elements(stack.arguments) \cup added
       /\ Elements(t.arguments) \subseteq Elements(stack.arguments) \cup added
       /\ \A S \in SUBSET (1..Len(stack.children)) :
            Elements(t.arguments) \subseteq S /\ Downward(t.children, S) =>
              Elements(stack.arguments) \cup added \subseteq S /\ Downward(stack.children, S)

LEMMA DownwardValues ==
  ASSUME NEW nodes, NEW S
  PROVE  Downward(nodes, S) <=> \A i \in S : Elements(nodes[i]) \subseteq S
BY DEF Downward, Elements

LEMMA GrownMore ==
  ASSUME NEW stack \in Stacks, NEW added, NEW t, Grown(stack, t, added), NEW op \in 1..Len(stack.children)
  PROVE  Grown(stack, add_operator(t, op), added \cup {op})
<1> DEFINE u == add_operator(t, op)
           N == Len(stack.children)
           more == added \cup {op}
<1>1. t \in Stacks /\ Len(t.children) = N /\ op \in 1..Len(t.children)
  BY DEF Grown
<1>2. CASE ~t.ok \/ ~(number_args(words[op]) <= Len(t.arguments))
  BY <1>1, <1>2, OperatorRefused DEF Grown
<1>3. CASE t.ok /\ number_args(words[op]) <= Len(t.arguments)
  <2>1. /\ u \in Stacks /\ u.ok /\ Len(u.children) = N
        /\ \A i \in 1..N : i # op => u.children[i] = t.children[i]
    BY <1>1, <1>3, OperatorAdded
  <2>2. /\ Elements(t.arguments) \subseteq Elements(u.arguments) \cup Elements(u.children[op])
        /\ Elements(u.arguments) \subseteq Elements(t.arguments) \cup {op}
        /\ op \in Elements(u.arguments)
        /\ Elements(t.children[op]) \subseteq Elements(u.children[op])
        /\ Elements(u.children[op]) \subseteq Elements(t.arguments) \cup Elements(t.children[op])
    BY <1>1, <1>3, OperatorAdded
  <2>3. /\ \A i \in 1..N : i \notin added => t.children[i] = stack.children[i]
        /\ \A i \in 1..N :
             Elements(t.children[i]) \subseteq Elements(stack.children[i]) \cup Elements(stack.arguments) \cup added
        /\ Elements(t.arguments) \subseteq Elements(stack.arguments) \cup added
    BY <1>3 DEF Grown
  <2> HIDE DEF u, N
  <2>4. ASSUME NEW i \in 1..N, i \notin more PROVE u.children[i] = stack.children[i]
    BY <2>1, <2>3, <2>4
  <2>5. ASSUME NEW i \in 1..N
        PROVE  Elements(u.children[i]) \subseteq Elements(stack.children[i]) \cup Elements(stack.arguments) \cup more
    <3>1. CASE i = op
      BY <2>2, <2>3, <3>1
    <3>2. CASE i # op
      BY <2>1, <2>3, <3>2
    <3> QED BY <3>1, <3>2
  <2>6. Elements(u.arguments) \subseteq Elements(stack.arguments) \cup more
    BY <2>2, <2>3
  <2>7. ASSUME NEW S \in SUBSET (1..N), Elements(u.arguments) \subseteq S, Downward(u.children, S)
        PROVE  Elements(stack.arguments) \cup more \subseteq S /\ Downward(stack.children, S)
    <3>1. \A i \in S : Elements(u.children[i]) \subseteq S
      BY <2>7, DownwardValues
    <3>2. op \in S /\ Elements(u.children[op]) \subseteq S
      BY <2>2, <2>7, <3>1
    <3>3. Elements(t.arguments) \subseteq S
      BY <2>2, <2>7, <3>2
    <3>4. ASSUME NEW i \in S PROVE Elements(t.children[i]) \subseteq S
      <4>1. CASE i = op
        BY <2>2, <3>2, <4>1
      <4>2. CASE i # op
        BY <2>1, <3>1, <4>2
      <4> QED BY <4>1, <4>2
    <3>5. Downward(t.children, S)
      BY <3>4, DownwardValues
    <3>6. Elements(stack.arguments) \cup added \subseteq S /\ Downward(stack.children, S)
      BY <1>3, <3>3, <3>5 DEF Grown, N
    <3> QED BY <3>2, <3>6
  <2> QED
    BY <2>1, <2>4, <2>5, <2>6, <2>7 DEF Grown, u, N
<1> QED
  BY <1>2, <1>3

LEMMA OperatorsAdded ==
  ASSUME NEW stack \in Stacks, NEW ops \in Seq(Nat), \A k \in 1..Len(ops) : ops[k] \in 1..Len(stack.children)
  PROVE  Grown(stack, add_operators(stack, ops), Elements(ops))
<1> DEFINE L == Len(ops)
           Last(n) == {ops[k] : k \in (L - n + 1)..L}
           P == [n \in 0..L |-> {t \in Stacks : Grown(stack, t, Last(n))}]
<1>1. L \in Nat
  OBVIOUS
<1>2. stack \in P[0]
  <2>1. Last(0) = {}
    BY <1>1
  <2>2. Grown(stack, stack, {})
    BY DEF Grown
  <2>3. 0 \in 0..L
    BY <1>1
  <2> HIDE DEF Last, L
  <2>4. P[0] = {t \in Stacks : Grown(stack, t, Last(0))}
    BY <2>3
  <2> QED BY <2>1, <2>2, <2>4
<1>3. ASSUME NEW n \in 1..L, NEW t, t \in P[n - 1] PROVE add_operator(t, ops[L - n + 1]) \in P[n]
  <2> DEFINE op == ops[L - n + 1]
  <2>1. L - n + 1 \in 1..L /\ n - 1 \in 0..L
    BY <1>1
  <2>2. op \in 1..Len(stack.children) /\ Grown(stack, t, Last(n - 1))
    BY <1>3, <2>1
  <2>3. Last(n - 1) \cup {op} = Last(n)
    BY <1>1
  <2>4. Grown(stack, add_operator(t, op), Last(n - 1) \cup {op})
    <3> HIDE DEF op, Last
    <3> QED BY <2>2, GrownMore
  <2>5. Grown(stack, add_operator(t, op), Last(n))
    BY <2>3, <2>4
  <2>6. add_operator(t, op) \in Stacks
    BY <2>5 DEF Grown
  <2> HIDE DEF Last
  <2> QED BY <2>5, <2>6
<1>4. add_operators(stack, ops) \in P[L]
  <2> HIDE DEF P
  <2> QED BY <1>1, <1>2, <1>3, AddOperatorsInduction
<1>5. Last(L) = Elements(ops)
  BY <1>1 DEF Elements
<1> QED
  <2> HIDE DEF Last
  <2> QED BY <1>1, <1>4, <1>5

(* weight[k] : how many arguments the first k of the operators wait for, when    *)
(* what each returns is an argument of the one before it.                        *)
Weighs(tokens, ops, weight) ==
  /\ weight \in [0..Len(ops) -> Nat]
  /\ \A k \in 1..Len(ops) : weight[k] = weight[k - 1] + number_args(tokens[ops[k]]) - 1

(* With more arguments than all of the operators wait for, none of them fails.  *)
LEMMA OperatorsFed ==
  ASSUME NEW stack \in Stacks, stack.ok,
         NEW ops \in Seq(Nat), \A k \in 1..Len(ops) : ops[k] \in 1..Len(stack.children),
         NEW weight, Weighs(words, ops, weight),
         Len(stack.arguments) > weight[Len(ops)]
  PROVE  LET t == add_operators(stack, ops)
         IN  t.ok /\ Len(t.arguments) = Len(stack.arguments) - weight[Len(ops)] + weight[0]
<1> DEFINE L == Len(ops)
           A == Len(stack.arguments)
           P == [n \in 0..L |-> {t \in Stacks : /\ t.ok /\ Len(t.children) = Len(stack.children)
                                                /\ Len(t.arguments) = A - weight[L] + weight[L - n]}]
<1>1. L \in Nat /\ A \in Nat /\ weight[L] \in Nat /\ A > weight[L]
  <2>1. stack.arguments \in Seq(Nat)
    BY DEF Stacks
  <2>2. L \in Nat /\ A \in Nat
    BY <2>1
  <2> QED BY <2>2 DEF Weighs
<1>2. stack \in P[0]
  BY <1>1
<1>3. ASSUME NEW n \in 1..L, NEW t, t \in P[n - 1] PROVE add_operator(t, ops[L - n + 1]) \in P[n]
  <2> DEFINE k == L - n + 1
             op == ops[k]
             u == add_operator(t, op)
             m == number_args(words[op])
  <2>1. k \in 1..L /\ n - 1 \in 0..L /\ k - 1 = L - n /\ L - (n - 1) = k /\ k - 1 \in 0..L
    BY <1>1
  <2>2. t \in Stacks /\ t.ok /\ Len(t.children) = Len(stack.children) /\ Len(t.arguments) = A - weight[L] + weight[k]
    BY <1>3, <2>1
  <2>3. op \in 1..Len(t.children)
    BY <2>1, <2>2
  <2>4. weight[k] = weight[k - 1] + m - 1 /\ m \in Nat /\ weight[k] \in Nat /\ weight[k - 1] \in Nat
    <3>1. k \in 0..Len(ops) /\ k - 1 \in 0..Len(ops) /\ k \in 1..Len(ops)
      BY <2>1
    <3> HIDE DEF k
    <3>2. weight[k] \in Nat /\ weight[k - 1] \in Nat
      BY <3>1 DEF Weighs
    <3>3. weight[k] = weight[k - 1] + number_args(words[ops[k]]) - 1
      BY <3>1 DEF Weighs
    <3> QED BY <3>2, <3>3, Arities
  <2>5. m <= A - weight[L] + weight[k] /\ A - weight[L] + weight[k] - m + 1 = A - weight[L] + weight[k - 1]
    <3> HIDE DEF m, k, L, A
    <3> DEFINE a == weight[k]
               b == weight[k - 1]
               c == weight[L]
    <3>1. a \in Nat /\ b \in Nat /\ c \in Nat /\ A \in Nat /\ m \in Nat /\ A > c /\ a = b + m - 1
      BY <1>1, <2>4
    <3> HIDE DEF a, b, c
    <3>2. m <= A - c + a /\ A - c + a - m + 1 = A - c + b
      BY <3>1
    <3> QED BY <3>2 DEF a, b, c
  <2>6. u \in Stacks /\ u.ok /\ Len(u.arguments) = Len(t.arguments) - m + 1 /\ Len(u.children) = Len(t.children)
    <3>1. m <= Len(t.arguments)
      BY <2>2, <2>5
    <3> HIDE DEF op
    <3> QED BY <2>2, <2>3, <3>1, OperatorAdded
  <2>7. Len(u.arguments) = A - weight[L] + weight[k - 1]
    <3> HIDE DEF m, k, L, A, u
    <3> DEFINE a == weight[k]
               b == weight[k - 1]
               c == weight[L]
               p == Len(t.arguments)
               q == Len(u.arguments)
    <3>1. a \in Nat /\ b \in Nat /\ c \in Nat /\ A \in Nat /\ m \in Nat /\ a = b + m - 1
      BY <1>1, <2>4
    <3>2. p = A - c + a /\ q = p - m + 1
      BY <2>2, <2>6
    <3> HIDE DEF a, b, c, p, q
    <3>3. q = A - c + b
      BY <3>1, <3>2
    <3> QED BY <3>3 DEF b, c, q
  <2> HIDE DEF u
  <2> QED BY <2>1, <2>2, <2>6, <2>7 DEF u
<1>4. add_operators(stack, ops) \in P[L]
  <2> HIDE DEF P
  <2> QED BY <1>1, <1>2, <1>3, AddOperatorsInduction
<1> QED
  BY <1>1, <1>4

-----------------------------------------------------------------------------
(* The end of a call. *)

Calls == [context : {"top", "(", "f("}, at : Nat, arguments : Seq(Nat), operators : Seq(Nat)]

LEMMA FinishFacts ==
  ASSUME NEW frame \in Calls, NEW nodes \in Seq(Seq(Nat)),
         Elements(frame.arguments) \cup Elements(frame.operators) \subseteq 1..Len(nodes),
         Finish(frame, nodes).ok
  PROVE  LET expr == Finish(frame, nodes)
             held == Elements(frame.arguments) \cup Elements(frame.operators)
         IN  /\ expr.children \in Seq(Seq(Nat)) /\ Len(expr.children) = Len(nodes)
             /\ \A i \in 1..Len(nodes) : i \notin Elements(frame.operators) => expr.children[i] = nodes[i]
             /\ \A i \in 1..Len(nodes) : Elements(expr.children[i]) \subseteq Elements(nodes[i]) \cup held
             /\ expr.root = Null \/ expr.root \in held
             /\ \A S \in SUBSET (1..Len(nodes)) :
                  (expr.root # Null => expr.root \in S) /\ Downward(expr.children, S) =>
                     held \subseteq S /\ Downward(nodes, S)
<1> DEFINE stack == Stack(frame, nodes)
           ops == frame.operators
           t == add_operators(stack, ops)
           expr == Finish(frame, nodes)
           held == Elements(frame.arguments) \cup Elements(ops)
           N == Len(nodes)
<1>1. /\ stack \in Stacks /\ stack.arguments = frame.arguments /\ stack.children = nodes
      /\ ops \in Seq(Nat)
  BY DEF Stack, Stacks, Calls
<1>2. \A k \in 1..Len(ops) : ops[k] \in 1..N
  BY <1>1, ValueAt
<1>3. /\ expr.ok = (t.ok /\ Len(t.arguments) <= 1) /\ expr.children = t.children
      /\ expr.root = IF t.arguments = <<>> THEN Null ELSE t.arguments[1]
  BY DEF Finish
<1> HIDE DEF stack, expr
<1>4. Grown(stack, t, Elements(ops))
  <2> HIDE DEF ops, N
  <2> QED BY <1>1, <1>2, OperatorsAdded DEF N
<1>5. t.ok /\ Len(t.arguments) <= 1
  BY <1>3 DEF expr
<1> HIDE DEF t, ops, N
<1>6. /\ t.children \in Seq(Seq(Nat)) /\ Len(t.children) = N /\ t.arguments \in Seq(Nat)
      /\ \A i \in 1..N : i \notin Elements(ops) => t.children[i] = nodes[i]
      /\ \A i \in 1..N : Elements(t.children[i]) \subseteq Elements(nodes[i]) \cup held
      /\ Elements(t.arguments) \subseteq held
  BY <1>1, <1>4, <1>5 DEF Grown, Stacks, N
<1>7. ASSUME t.arguments # <<>>
      PROVE  Elements(t.arguments) = {expr.root} /\ expr.root \in held /\ expr.root # Null
  <2>1. Len(t.arguments) = 1
    BY <1>5, <1>6, <1>7, Single
  <2>2. expr.root = t.arguments[1] /\ expr.root \in Elements(t.arguments)
    BY <1>3, <1>6, <1>7, <2>1, ValueAt
  <2>3. ASSUME NEW x \in Elements(t.arguments) PROVE x = expr.root
    <3>1. PICK i \in 1..Len(t.arguments) : x = t.arguments[i]
      BY <1>6, ValueFrom
    <3> QED BY <2>1, <2>2, <3>1
  <2> QED BY <1>6, <2>2, <2>3 DEF ops, Null
<1>8. ASSUME t.arguments = <<>> PROVE Elements(t.arguments) = {} /\ expr.root = Null
  BY <1>3, <1>8 DEF Elements
<1>9. ASSUME NEW S \in SUBSET (1..N), expr.root # Null => expr.root \in S, Downward(expr.children, S)
      PROVE  held \subseteq S /\ Downward(nodes, S)
  <2>1. Elements(t.arguments) \subseteq S
    BY <1>7, <1>8, <1>9
  <2>2. Downward(t.children, S)
    BY <1>3, <1>9
  <2> QED BY <1>1, <1>4, <1>5, <2>1, <2>2 DEF Grown, N
<1> QED
  BY <1>3, <1>6, <1>7, <1>8, <1>9 DEF expr, ops, N

(* With one more, one node is left: the call succeeds. *)
LEMMA FinishFed ==
  ASSUME NEW frame \in Calls, NEW nodes \in Seq(Seq(Nat)),
         Elements(frame.arguments) \cup Elements(frame.operators) \subseteq 1..Len(nodes),
         NEW weight, Weighs(words, frame.operators, weight), weight[0] = 0,
         Len(frame.arguments) = weight[Len(frame.operators)] + 1
  PROVE  Finish(frame, nodes).ok /\ Finish(frame, nodes).root # Null
<1> DEFINE stack == Stack(frame, nodes)
           ops == frame.operators
           t == add_operators(stack, ops)
           expr == Finish(frame, nodes)
           c == weight[Len(ops)]
           A == Len(stack.arguments)
<1>1. /\ stack \in Stacks /\ stack.arguments = frame.arguments /\ stack.children = nodes /\ stack.ok
      /\ ops \in Seq(Nat)
  BY DEF Stack, Stacks, Calls
<1>2. \A k \in 1..Len(ops) : ops[k] \in 1..Len(stack.children)
  BY <1>1, ValueAt
<1>3. c \in Nat /\ A = c + 1
  BY <1>1 DEF Weighs
<1>4. /\ expr.ok = (t.ok /\ Len(t.arguments) <= 1)
      /\ expr.root = IF t.arguments = <<>> THEN Null ELSE t.arguments[1]
  BY DEF Finish
<1>5. t.ok /\ Len(t.arguments) = A - c + 0
  <2>1. A > c
    BY <1>3
  <2>2. Weighs(words, ops, weight) /\ Len(stack.arguments) > weight[Len(ops)]
    BY <2>1
  <2> HIDE DEF stack, ops
  <2>3. t.ok /\ Len(t.arguments) = Len(stack.arguments) - weight[Len(ops)] + weight[0]
    BY <1>1, <1>2, <2>2, OperatorsFed
  <2> QED BY <2>3
<1>6. Grown(stack, t, Elements(ops))
  <2> HIDE DEF ops, stack
  <2> QED BY <1>1, <1>2, OperatorsAdded
<1>7. Len(t.arguments) = 1 /\ t.arguments \in Seq(Nat)
  <2> HIDE DEF c, A, t
  <2> QED BY <1>3, <1>5, <1>6 DEF Grown, Stacks
<1>8. Elements(t.arguments) \subseteq 1..Len(nodes)
  <2> HIDE DEF t, stack
  <2> QED BY <1>1, <1>5, <1>6 DEF Grown
<1> HIDE DEF t, expr
<1>9. t.arguments # <<>> /\ t.arguments[1] # 0
  <2>1. t.arguments # <<>>
    <3> DEFINE q == t.arguments
    <3>1. q \in Seq(Nat) /\ Len(q) # 0
      BY <1>7
    <3> HIDE DEF q
    <3>2. q # <<>>
      BY <3>1, NotEmpty
    <3> QED BY <3>2 DEF q
  <2>2. t.arguments[1] \in 1..Len(nodes)
    BY <1>7, <1>8, ValueAt
  <2> QED BY <2>1, <2>2
<1>10. Len(t.arguments) <= 1
  BY <1>7
<1> QED
  BY <1>4, <1>5, <1>9, <1>10 DEF expr, Null

-----------------------------------------------------------------------------
(* The shape of the state. *)

Tokens == {"operand", "(", "f(", ",", ")"} \cup Operators

NamedTokens(tokens) == {i \in 1..Len(tokens) : tokens[i] \in Named}

(* A call holds only nodes of tokens that have one.                            *)
IsFrame(f, tokens) ==
  /\ f.context = "f(" => f.at \in 1..Len(tokens) /\ tokens[f.at] = "f("
  /\ Elements(f.arguments) \subseteq NamedTokens(tokens)
  /\ Elements(f.operators) \subseteq {i \in 1..Len(tokens) : tokens[i] \in Operators}

Structure(tokens, nodes, calls) ==
  /\ tokens \in Seq(Tokens)
  /\ nodes \in Seq(Seq(Nat)) /\ Len(nodes) = Len(tokens)
  /\ \A i \in 1..Len(tokens) : Elements(nodes[i]) \subseteq NamedTokens(tokens)
  /\ calls \in Seq(Calls) /\ Len(calls) >= 1 /\ calls[1].context = "top"
  /\ \A d \in 1..Len(calls) : IsFrame(calls[d], tokens)
  /\ \A d, e \in 1..Len(calls) :
       d < e /\ calls[d].context = "f(" /\ calls[e].context = "f(" => calls[d].at < calls[e].at

Extended(tokens, token, more) ==
  /\ more \in Seq(Tokens) /\ Len(more) = Len(tokens) + 1 /\ more[Len(tokens) + 1] = token
  /\ \A i \in 1..Len(tokens) : more[i] = tokens[i]
  /\ NamedTokens(tokens) \subseteq NamedTokens(more)
  /\ NamedTokens(more) \subseteq NamedTokens(tokens) \cup {Len(tokens) + 1}
  /\ Len(tokens) + 1 \in NamedTokens(more) <=> token \in Named

LEMMA TokenRead ==
  ASSUME NEW tokens \in Seq(Tokens), NEW token \in Tokens
  PROVE  Extended(tokens, token, Append(tokens, token))
<1> DEFINE more == Append(tokens, token)
<1>1. /\ more \in Seq(Tokens) /\ Len(more) = Len(tokens) + 1 /\ more[Len(tokens) + 1] = token
      /\ \A i \in 1..Len(tokens) : more[i] = tokens[i]
      /\ Len(tokens) \in Nat
  OBVIOUS
<1>2. \A i : i \in 1..Len(more) <=> i \in 1..Len(tokens) \/ i = Len(tokens) + 1
  BY <1>1
<1> HIDE DEF more
<1>3. NamedTokens(more) \subseteq NamedTokens(tokens) \cup {Len(tokens) + 1}
  BY <1>1, <1>2 DEF NamedTokens
<1>4. NamedTokens(tokens) \subseteq NamedTokens(more)
  BY <1>1, <1>2 DEF NamedTokens
<1>5. Len(tokens) + 1 \in NamedTokens(more) <=> token \in Named
  BY <1>1, <1>2 DEF NamedTokens
<1>6. Extended(tokens, token, more)
  BY <1>1, <1>3, <1>4, <1>5 DEF Extended
<1> QED
  BY <1>6 DEF more

LEMMA FrameRead ==
  ASSUME NEW tokens \in Seq(Tokens), NEW token \in Tokens, NEW f, IsFrame(f, tokens)
  PROVE  IsFrame(f, Append(tokens, token))
<1> DEFINE more == Append(tokens, token)
<1>0. Extended(tokens, token, more) /\ Len(tokens) \in Nat
  BY TokenRead
<1> HIDE DEF more
<1>1. /\ Len(more) = Len(tokens) + 1 /\ Len(tokens) \in Nat
      /\ \A i \in 1..Len(tokens) : more[i] = tokens[i]
      /\ NamedTokens(tokens) \subseteq NamedTokens(more)
  BY <1>0 DEF Extended
<1>2. \A i \in 1..Len(tokens) : i \in 1..Len(more)
  BY <1>1
<1>3. {i \in 1..Len(tokens) : tokens[i] \in Operators} \subseteq {i \in 1..Len(more) : more[i] \in Operators}
  BY <1>1, <1>2
<1>4. f.context = "f(" => f.at \in 1..Len(more) /\ more[f.at] = "f("
  BY <1>1, <1>2 DEF IsFrame
<1> QED
  BY <1>1, <1>3, <1>4 DEF IsFrame, more

LEMMA StructureRead ==
  ASSUME NEW tokens, NEW nodes, NEW calls, Structure(tokens, nodes, calls), NEW token \in Tokens
  PROVE  Structure(Append(tokens, token), Append(nodes, <<>>), calls)
<1> DEFINE more == Append(tokens, token)
           all == Append(nodes, <<>>)
           N == Len(tokens)
<1>1. tokens \in Seq(Tokens) /\ nodes \in Seq(Seq(Nat)) /\ Len(nodes) = N /\ N \in Nat
  BY DEF Structure
<1>2. /\ more \in Seq(Tokens) /\ Len(more) = N + 1
      /\ NamedTokens(tokens) \subseteq NamedTokens(more)
  <2>1. Extended(tokens, token, more)
    BY <1>1, TokenRead
  <2> HIDE DEF more
  <2> QED BY <2>1 DEF Extended
<1>3. /\ all \in Seq(Seq(Nat)) /\ Len(all) = N + 1 /\ all[N + 1] = <<>>
      /\ \A i \in 1..N : all[i] = nodes[i]
  BY <1>1
<1>4. \A d \in 1..Len(calls) : IsFrame(calls[d], more)
  BY <1>1, FrameRead DEF Structure
<1> HIDE DEF more, all
<1>5. ASSUME NEW i \in 1..Len(more) PROVE Elements(all[i]) \subseteq NamedTokens(more)
  <2>1. i \in 1..N \/ i = N + 1
    BY <1>1, <1>2
  <2>2. CASE i \in 1..N
    BY <1>2, <1>3, <2>2 DEF Structure
  <2>3. CASE i = N + 1
    BY <1>3, <2>3 DEF Elements
  <2> QED BY <2>1, <2>2, <2>3
<1> QED
  BY <1>2, <1>3, <1>4, <1>5 DEF Structure, more, all

Resumed(calls, node) == [calls EXCEPT ![Len(calls)].arguments = Append(@, node)]

HasResumed(calls, node, now) ==
  LET L == Len(calls)
  IN  /\ now \in Seq(Calls) /\ Len(now) = L
      /\ \A d \in 1..L : d # L => now[d] = calls[d]
      /\ now[L].context = calls[L].context /\ now[L].at = calls[L].at /\ now[L].operators = calls[L].operators
      /\ Len(now[L].arguments) = Len(calls[L].arguments) + 1
      /\ Elements(now[L].arguments) = Elements(calls[L].arguments) \cup {node}

LEMMA ResumedFacts ==
  ASSUME NEW calls \in Seq(Calls), Len(calls) >= 1, NEW node \in Nat
  PROVE  HasResumed(calls, node, Resumed(calls, node))
<1> DEFINE L == Len(calls)
           q == calls[L].arguments
           top == [calls[L] EXCEPT !.arguments = Append(q, node)]
<1>1. L \in Nat /\ L \in 1..L /\ calls[L] \in Calls
  OBVIOUS
<1>2. q \in Seq(Nat)
  BY <1>1 DEF Calls
<1>3. top \in Calls
  <2>1. Append(q, node) \in Seq(Nat)
    BY <1>2
  <2> HIDE DEF q
  <2> QED BY <1>1, <2>1 DEF Calls
<1>4. Resumed(calls, node) = [calls EXCEPT ![L] = top]
  BY DEF Resumed
<1>5. top.context = calls[L].context /\ top.at = calls[L].at /\ top.operators = calls[L].operators /\ top.arguments = Append(q, node)
  BY <1>1 DEF Calls
<1>6. Elements(Append(q, node)) = Elements(q) \cup {node}
  BY <1>2, AppendValues
<1> HIDE DEF L, q, top
<1>7. /\ Resumed(calls, node) \in Seq(Calls) /\ Len(Resumed(calls, node)) = L /\ Resumed(calls, node)[L] = top
      /\ \A d \in 1..L : d # L => Resumed(calls, node)[d] = calls[d]
  BY <1>1, <1>3, <1>4 DEF L
<1>8. Len(Append(q, node)) = Len(q) + 1
  <2>1. q \in Seq(Nat)
    BY <1>2
  <2> QED BY <2>1, SMTT(30)
<1> QED
  BY <1>5, <1>6, <1>7, <1>8 DEF HasResumed, L, q

LEMMA StructureTop ==
  ASSUME NEW tokens, NEW nodes, NEW calls, Structure(tokens, nodes, calls), NEW g \in Calls, IsFrame(g, tokens),
         g.context = calls[Len(calls)].context, g.at = calls[Len(calls)].at
  PROVE  Structure(tokens, nodes, [calls EXCEPT ![Len(calls)] = g])
<1> DEFINE L == Len(calls)
           new == [calls EXCEPT ![L] = g]
<1>1. calls \in Seq(Calls) /\ L \in Nat /\ L \in 1..L /\ 1 \in 1..L
  BY DEF Structure
<1>2. new \in Seq(Calls) /\ Len(new) = L /\ new[L] = g /\ \A d \in 1..L : d # L => new[d] = calls[d]
  BY <1>1
<1> HIDE DEF new
<1>3. \A d \in 1..L : new[d].context = calls[d].context /\ new[d].at = calls[d].at
  BY <1>1, <1>2
<1>4. \A d \in 1..L : IsFrame(new[d], tokens)
  BY <1>1, <1>2 DEF Structure
<1>5. new[1].context = "top"
  BY <1>1, <1>3 DEF Structure
<1>6. ASSUME NEW d \in 1..L, NEW e \in 1..L, d < e, new[d].context = "f(", new[e].context = "f("
      PROVE  new[d].at < new[e].at
  BY <1>3, <1>6 DEF Structure
<1> HIDE DEF L
<1> QED
  BY <1>2, <1>4, <1>5, <1>6, ZenonT(30) DEF Structure, new, L

LEMMA StructureResumed ==
  ASSUME NEW tokens, NEW nodes, NEW calls, Structure(tokens, nodes, calls), NEW node \in NamedTokens(tokens)
  PROVE  Structure(tokens, nodes, Resumed(calls, node))
<1> DEFINE L == Len(calls)
           q == calls[L].arguments
           g == [calls[L] EXCEPT !.arguments = Append(q, node)]
<1>1. calls \in Seq(Calls) /\ L \in Nat /\ L \in 1..L /\ calls[L] \in Calls /\ IsFrame(calls[L], tokens)
  BY DEF Structure
<1>2. node \in Nat /\ q \in Seq(Nat)
  BY <1>1 DEF NamedTokens, Calls
<1>3. Append(q, node) \in Seq(Nat) /\ Elements(Append(q, node)) = Elements(q) \cup {node}
  BY <1>2, AppendValues
<1>4. /\ g \in Calls /\ g.context = calls[L].context /\ g.at = calls[L].at /\ g.operators = calls[L].operators
      /\ g.arguments = Append(q, node)
  <2> HIDE DEF q, L
  <2> QED BY <1>1, <1>3 DEF Calls
<1>5. IsFrame(g, tokens)
  <2> HIDE DEF g
  <2> QED BY <1>1, <1>3, <1>4 DEF IsFrame
<1>6. Resumed(calls, node) = [calls EXCEPT ![L] = g]
  BY DEF Resumed
<1>7. g.context = calls[Len(calls)].context /\ g.at = calls[Len(calls)].at /\ g \in Calls
  BY <1>4
<1> HIDE DEF g
<1>8. Structure(tokens, nodes, [calls EXCEPT ![Len(calls)] = g])
  BY <1>5, <1>7, StructureTop
<1> QED
  BY <1>6, <1>8

LEMMA StructurePopped ==
  ASSUME NEW tokens, NEW nodes, NEW calls, Structure(tokens, nodes, calls), Len(calls) > 1
  PROVE  Structure(tokens, nodes, SubSeq(calls, 1, Len(calls) - 1))
<1> DEFINE L == Len(calls)
           new == SubSeq(calls, 1, L - 1)
<1>1. calls \in Seq(Calls) /\ L \in Nat /\ L > 1
  BY DEF Structure
<1>2. new \in Seq(Calls) /\ Len(new) = L - 1 /\ \A d \in 1..(L - 1) : new[d] = calls[d]
  BY <1>1
<1>3. Len(new) >= 1 /\ 1 \in 1..(L - 1) /\ \A d \in 1..(L - 1) : d \in 1..L
  BY <1>1, <1>2
<1> HIDE DEF new, L
<1> QED
  BY <1>2, <1>3 DEF Structure, new, L

LEMMA StructurePushed ==
  ASSUME NEW tokens, NEW nodes, NEW calls, Structure(tokens, nodes, calls), NEW g \in Calls, IsFrame(g, tokens),
         g.context = "f(" => \A d \in 1..Len(calls) : calls[d].context = "f(" => calls[d].at < g.at
  PROVE  Structure(tokens, nodes, Append(calls, g))
<1> DEFINE L == Len(calls)
           new == Append(calls, g)
<1>1. calls \in Seq(Calls) /\ L \in Nat /\ L >= 1
  BY DEF Structure
<1>2. new \in Seq(Calls) /\ Len(new) = L + 1 /\ new[L + 1] = g /\ \A d \in 1..L : new[d] = calls[d]
  BY <1>1
<1>3. Len(new) >= 1 /\ 1 \in 1..L /\ \A d : d \in 1..Len(new) <=> d \in 1..L \/ d = L + 1
  BY <1>1, <1>2
<1> HIDE DEF new
<1>4. \A d \in 1..Len(new) : IsFrame(new[d], tokens)
  BY <1>2, <1>3 DEF Structure
<1>5. new[1].context = "top"
  BY <1>2, <1>3 DEF Structure
<1>6. ASSUME NEW d \in 1..Len(new), NEW e \in 1..Len(new), d < e, new[d].context = "f(", new[e].context = "f("
      PROVE  new[d].at < new[e].at
  <2>1. d \in 1..L
    BY <1>1, <1>2, <1>6
  <2>2. CASE e \in 1..L
    BY <1>2, <1>6, <2>1, <2>2 DEF Structure
  <2>3. CASE e = L + 1
    BY <1>2, <1>6, <2>1, <2>3
  <2> QED BY <1>3, <2>2, <2>3
<1> HIDE DEF L
<1> QED
  BY <1>2, <1>3, <1>4, <1>5, <1>6 DEF Structure, new

LEMMA StructureNodes ==
  ASSUME NEW tokens, NEW nodes, NEW calls, Structure(tokens, nodes, calls),
         NEW all \in Seq(Seq(Nat)), Len(all) = Len(nodes),
         \A i \in 1..Len(tokens) : Elements(all[i]) \subseteq NamedTokens(tokens)
  PROVE  Structure(tokens, all, calls)
BY DEF Structure

-----------------------------------------------------------------------------
(* What is still to be used. *)

(* A call holds its arguments and operators, and the function it reads an       *)
(* argument of.                                                                 *)
Held(f) == Elements(f.arguments) \cup Elements(f.operators) \cup {i \in {f.at} : f.context = "f("}

HeldIn(calls, S) == \A d \in 1..Len(calls) : Held(calls[d]) \subseteq S

(* Every token read so far is held by a call, or is below a node that one holds. *)
AllHeld(tokens, nodes, calls) ==
  \A S \in SUBSET (1..Len(tokens)) :
    HeldIn(calls, S) /\ Downward(nodes, S) => NamedTokens(tokens) \subseteq S

LEMMA HeldAreTokens ==
  ASSUME NEW tokens, NEW nodes, NEW calls, Structure(tokens, nodes, calls), NEW d \in 1..Len(calls)
  PROVE  Held(calls[d]) \subseteq 1..Len(tokens)
BY DEF Structure, IsFrame, Held, NamedTokens

LEMMA HeldRead ==
  ASSUME NEW tokens, NEW nodes, NEW calls, Structure(tokens, nodes, calls), AllHeld(tokens, nodes, calls),
         NEW token \in Tokens,
         NEW S \in SUBSET (1..(Len(tokens) + 1)),
         HeldIn(calls, S), Downward(Append(nodes, <<>>), S), token \in Named => Len(tokens) + 1 \in S
  PROVE  NamedTokens(Append(tokens, token)) \subseteq S
<1> DEFINE N == Len(tokens)
           T == S \cap (1..N)
           all == Append(nodes, <<>>)
           more == Append(tokens, token)
<1>1. tokens \in Seq(Tokens) /\ nodes \in Seq(Seq(Nat)) /\ Len(nodes) = N /\ N \in Nat
  BY DEF Structure
<1>2. \A i \in 1..N : all[i] = nodes[i]
  BY <1>1
<1>3. Extended(tokens, token, more)
  BY <1>1, TokenRead
<1> HIDE DEF all, more
<1>4. HeldIn(calls, T)
  BY HeldAreTokens DEF HeldIn
<1>5. ASSUME NEW i \in T PROVE Elements(nodes[i]) \subseteq T
  <2>1. Elements(all[i]) \subseteq S
    BY DownwardValues DEF all
  <2>2. Elements(nodes[i]) \subseteq NamedTokens(tokens)
    BY DEF Structure
  <2> QED BY <1>2, <2>1, <2>2 DEF NamedTokens
<1>6. Downward(nodes, T)
  <2> HIDE DEF T
  <2> QED BY <1>5, DownwardValues
<1>7. NamedTokens(tokens) \subseteq T
  BY <1>4, <1>6 DEF AllHeld
<1> QED
  BY <1>3, <1>7 DEF Extended, more

(* So it stays if whatever has all that is held now has what was held before.   *)
LEMMA HeldContinues ==
  ASSUME NEW tokens, NEW nodes, NEW calls, Structure(tokens, nodes, calls), AllHeld(tokens, nodes, calls),
         NEW token \in Tokens, NEW all, NEW now,
         \A S \in SUBSET (1..(Len(tokens) + 1)) :
           HeldIn(now, S) /\ Downward(all, S) =>
             HeldIn(calls, S) /\ Downward(Append(nodes, <<>>), S) /\ (token \in Named => Len(tokens) + 1 \in S)
  PROVE  AllHeld(Append(tokens, token), all, now)
<1>1. Len(Append(tokens, token)) = Len(tokens) + 1
  BY DEF Structure
<1>2. ASSUME NEW S \in SUBSET (1..(Len(tokens) + 1)), HeldIn(now, S), Downward(all, S)
      PROVE  NamedTokens(Append(tokens, token)) \subseteq S
  BY <1>2, HeldRead
<1> QED
  BY <1>1, <1>2 DEF AllHeld

-----------------------------------------------------------------------------
(* What the operators wait for. *)

LEMMA NoOperators == \A stack : add_operators(stack, <<>>) = stack
<1> SUFFICES ASSUME NEW stack PROVE add_operators(stack, <<>>) = stack
  OBVIOUS
<1> DEFINE P == [n \in 0..0 |-> {stack}]
<1>1. Len(<<>>) = 0 /\ Len(<<>>) \in Nat
  OBVIOUS
<1>2. stack \in P[0]
  OBVIOUS
<1>3. \A n \in 1..Len(<<>>) : \A s \in P[n - 1] : add_operator(s, <<>>[Len(<<>>) - n + 1]) \in P[n]
  BY <1>1
<1>4. add_operators(stack, <<>>) \in P[Len(<<>>)]
  <2> HIDE DEF P
  <2> QED BY <1>1, <1>2, <1>3, AddOperatorsInduction
<1> QED
  BY <1>1, <1>4

(* The call has as many arguments as its operators wait for, and extra more.    *)
Balanced(tokens, f, extra) ==
  \E weight : /\ Weighs(tokens, f.operators, weight) /\ weight[0] = 0
              /\ Len(f.arguments) = weight[Len(f.operators)] + extra

LEMMA WeighsRead ==
  ASSUME NEW tokens \in Seq(Tokens), NEW token \in Tokens, NEW f \in Calls, IsFrame(f, tokens),
         NEW weight, Weighs(tokens, f.operators, weight)
  PROVE  Weighs(Append(tokens, token), f.operators, weight)
<1> DEFINE more == Append(tokens, token)
           ops == f.operators
<1>1. \A i \in 1..Len(tokens) : more[i] = tokens[i]
  OBVIOUS
<1>2. ops \in Seq(Nat)
  BY DEF Calls
<1>3. \A k \in 1..Len(ops) : ops[k] \in 1..Len(tokens)
  BY <1>2, ValueAt DEF IsFrame
<1> HIDE DEF more, ops
<1>4. \A k \in 1..Len(ops) : more[ops[k]] = tokens[ops[k]]
  BY <1>1, <1>3
<1> QED
  BY <1>4 DEF Weighs, more, ops

LEMMA BalancedRead ==
  ASSUME NEW tokens \in Seq(Tokens), NEW token \in Tokens, NEW f \in Calls, IsFrame(f, tokens),
         NEW extra, Balanced(tokens, f, extra)
  PROVE  Balanced(Append(tokens, token), f, extra)
BY WeighsRead DEF Balanced

LEMMA BalancedFrame == \A tokens, context, at : Balanced(tokens, Frame(context, at), 0)
<1> SUFFICES ASSUME NEW tokens, NEW context, NEW at PROVE Balanced(tokens, Frame(context, at), 0)
  OBVIOUS
<1> DEFINE f == Frame(context, at)
           weight == [k \in 0..0 |-> 0]
<1>1. f.operators = <<>> /\ f.arguments = <<>>
  BY DEF Frame
<1>2. Len(<<>>) = 0 /\ weight[0] = 0
  OBVIOUS
<1>3. Weighs(tokens, <<>>, weight)
  BY <1>2 DEF Weighs
<1> HIDE DEF f, weight
<1>4. Weighs(tokens, f.operators, weight) /\ Len(f.arguments) = weight[Len(f.operators)] + 0
  BY <1>1, <1>2, <1>3
<1> QED
  BY <1>2, <1>4 DEF Balanced, f

LEMMA BalancedOperand ==
  ASSUME NEW tokens, NEW f, NEW g, Balanced(tokens, f, 0), g.operators = f.operators, f.operators \in Seq(Nat),
         Len(g.arguments) = Len(f.arguments) + 1
  PROVE  Balanced(tokens, g, 1)
<1> DEFINE ops == f.operators
<1>1. PICK weight : /\ Weighs(tokens, ops, weight) /\ weight[0] = 0
                    /\ Len(f.arguments) = weight[Len(ops)] + 0
  BY DEF Balanced
<1>2. weight[Len(ops)] \in Nat
  BY <1>1 DEF Weighs
<1>3. Len(g.arguments) = weight[Len(ops)] + 1
  BY <1>1, <1>2
<1>4. Weighs(tokens, g.operators, weight) /\ Len(g.arguments) = weight[Len(g.operators)] + 1
  BY <1>1, <1>3
<1> QED
  BY <1>1, <1>4 DEF Balanced

LEMMA BalancedStacked ==
  ASSUME NEW tokens, NEW ops \in Seq(Nat), NEW weight, Weighs(tokens, ops, weight), weight[0] = 0,
         NEW stay \in 0..Len(ops), NEW at \in Nat, NEW g,
         g.operators = Append(SubSeq(ops, 1, stay), at),
         Len(g.arguments) = weight[stay] + number_args(tokens[at]) - 1
  PROVE  Balanced(tokens, g, 0)
<1> DEFINE kept == SubSeq(ops, 1, stay)
           new == Append(kept, at)
           n == number_args(tokens[at])
           w == [k \in 0..(stay + 1) |-> IF k <= stay THEN weight[k] ELSE weight[stay] + n - 1]
<1>1. stay \in Nat /\ Len(ops) \in Nat /\ stay <= Len(ops)
  OBVIOUS
<1>2. n \in 1..2
  BY Arities
<1>3. kept \in Seq(Nat) /\ Len(kept) = stay /\ \A k \in 1..stay : kept[k] = ops[k]
  BY <1>1
<1> HIDE DEF kept
<1>4. Len(new) = stay + 1 /\ new[stay + 1] = at /\ \A k \in 1..stay : new[k] = ops[k]
  BY <1>1, <1>3
<1> HIDE DEF new, n
<1>5. ASSUME NEW k \in 0..stay PROVE weight[k] \in Nat
  <2>1. k \in 0..Len(ops)
    BY <1>1
  <2> QED BY <2>1 DEF Weighs
<1>6. w \in [0..(stay + 1) -> Nat]
  BY <1>1, <1>2, <1>5
<1>7. \A k \in 0..stay : w[k] = weight[k]
  BY <1>1
<1>8. w[stay + 1] = weight[stay] + n - 1
  BY <1>1
<1> HIDE DEF w
<1>9. ASSUME NEW k \in 1..(stay + 1) PROVE w[k] = w[k - 1] + number_args(tokens[new[k]]) - 1
  <2>1. CASE k \in 1..stay
    <3>1. k \in 0..stay /\ k - 1 \in 0..stay /\ k \in 1..Len(ops)
      BY <1>1, <2>1
    <3>2. weight[k] = weight[k - 1] + number_args(tokens[ops[k]]) - 1
      BY <3>1 DEF Weighs
    <3>3. w[k] = weight[k] /\ w[k - 1] = weight[k - 1] /\ new[k] = ops[k]
      BY <1>4, <1>7, <2>1, <3>1
    <3> QED BY <3>2, <3>3
  <2>2. CASE k = stay + 1
    <3>1. k - 1 = stay /\ stay \in 0..stay
      BY <1>1, <2>2
    <3>2. w[k - 1] = weight[stay] /\ new[k] = at
      BY <1>4, <1>7, <2>2, <3>1
    <3> QED BY <1>8, <2>2, <3>2 DEF n
  <2> QED BY <1>1, <2>1, <2>2
<1>10. Weighs(tokens, new, w)
  BY <1>4, <1>6, <1>9 DEF Weighs
<1>11. w[0] = 0
  BY <1>1, <1>7
<1>12. Len(g.arguments) = w[stay + 1] + 0
  <2>1. w[stay + 1] \in Nat
    BY <1>1, <1>6
  <2> QED BY <1>8, <2>1 DEF n
<1>13. Weighs(tokens, g.operators, w) /\ Len(g.arguments) = w[Len(g.operators)] + 0
  BY <1>4, <1>10, <1>12 DEF new, kept
<1> QED
  BY <1>11, <1>13 DEF Balanced

-----------------------------------------------------------------------------
(* The state fits the tokens read. *)

(* What the shape says of a parenthesis: no function's, or how many arguments    *)
(* its function has with the one being read.                                     *)
Inside(f, n, nodes) ==
  \/ f.context = "(" /\ n = 0
  \/ f.context = "f(" /\ n = Len(nodes[f.at]) + 1

(* The last operator binds less tightly than "not". *)
LooseLast(tokens, ops) == ops # <<>> => precedence[tokens[ops[Len(ops)]]] < precedence["not"]

(* The calls are at the parentheses that are open; while an operand is due the   *)
(* innermost has what its operators wait for but the last, and after one all.    *)
Fits(shape, tokens, nodes, calls) ==
  LET L == Len(calls)
  IN  /\ shape.open \in Seq(Nat) /\ Len(shape.open) = L - 1
      /\ \A d \in 2..L : Inside(calls[d], shape.open[d - 1], nodes)
      /\ \A d \in 1..(L - 1) : Balanced(tokens, calls[d], 0)
      /\ shape.due => Balanced(tokens, calls[L], 0)
      /\ ~shape.due => Balanced(tokens, calls[L], 1)
      /\ shape.due /\ ~shape.tight => LooseLast(tokens, calls[L].operators)

(* Every token that has a node is in the tree. *)
Used(node, tokens, nodes) ==
  /\ node # Null => node \in NamedTokens(tokens)
  /\ \A S \in SUBSET (1..Len(tokens)) :
       (node # Null => node \in S) /\ Downward(nodes, S) => NamedTokens(tokens) \subseteq S

(* The inductive invariant. *)
ExprIInv ==
  /\ Structure(words, children, frames)
  /\ outcome = "parsing" => AllHeld(words, children, frames) /\ (Shape.ok => Fits(Shape, words, children, frames))
  /\ outcome = "parsed" => Used(root, words, children)
  /\ GrammarAccepted

LEMMA ShapeRead ==
  ASSUME Structure(words, children, frames), NEW token \in Tokens, words' = Append(words, token)
  PROVE  Shape' = Read(Shape, token)
<1>1. words \in Seq(Tokens)
  BY DEF Structure
<1>2. Shape' = ShapeOf(words')
  BY DEF Shape, ShapeOf
<1> QED
  BY <1>1, <1>2, ShapeStep DEF Shape

LEMMA Refused ==
  ASSUME ExprIInv, NEW token \in Tokens, Reading(token), Refuse, ~Read(Shape, token).ok
  PROVE  ExprIInv'
<1>1. Structure(words', children', frames')
  BY StructureRead DEF ExprIInv, Reading, Refuse, Nodes
<1>2. Shape' = Read(Shape, token)
  BY ShapeRead DEF ExprIInv, Reading
<1> QED
  BY <1>1, <1>2 DEF ExprIInv, GrammarAccepted, Refuse

LEMMA Continues ==
  ASSUME ExprIInv, NEW token \in Tokens, Reading(token), outcome' = outcome,
         Structure(words', children', frames'), AllHeld(words', children', frames'),
         Read(Shape, token).ok => Fits(Read(Shape, token), words', children', frames')
  PROVE  ExprIInv'
<1>1. Shape' = Read(Shape, token)
  BY ShapeRead DEF ExprIInv, Reading
<1> QED
  BY <1>1 DEF ExprIInv, GrammarAccepted, Reading

LEMMA TokenKinds ==
  /\ "operand" \notin Operators /\ "(" \notin Operators /\ "f(" \notin Operators
  /\ "," \notin Operators /\ ")" \notin Operators
BY OperatorsAssumption

LEMMA ReadOperand ==
  \A shape : Read(shape, "operand") = [ok |-> shape.ok /\ shape.due, due |-> FALSE, tight |-> FALSE, open |-> shape.open]
BY TokenKinds DEF Read, Binary

LEMMA ReadOperator ==
  ASSUME NEW shape, NEW op \in Operators
  PROVE  Read(shape, op) =
           IF op = "not" THEN [ok |-> shape.ok /\ shape.due /\ ~shape.tight, due |-> TRUE, tight |-> TRUE, open |-> shape.open]
           ELSE [ok |-> shape.ok /\ ~shape.due, due |-> TRUE, tight |-> precedence[op] >= precedence["not"], open |-> shape.open]
BY TokenKinds DEF Read, Binary

LEMMA ReadParenthesis ==
  \A shape :
    /\ Read(shape, "(") = [ok |-> shape.ok /\ shape.due, due |-> TRUE, tight |-> FALSE, open |-> Append(shape.open, 0)]
    /\ Read(shape, "f(") = [ok |-> shape.ok /\ shape.due, due |-> TRUE, tight |-> FALSE, open |-> Append(shape.open, 1)]
BY TokenKinds DEF Read, Binary

LEMMA ReadComma ==
  ASSUME NEW shape, Read(shape, ",").ok
  PROVE  LET s == shape.open
         IN  /\ s # <<>> /\ shape.ok /\ ~shape.due /\ s[Len(s)] > 0
             /\ Read(shape, ",").due /\ ~Read(shape, ",").tight
             /\ Read(shape, ",").open = [s EXCEPT ![Len(s)] = @ + 1]
BY TokenKinds DEF Read, Binary

LEMMA ReadClosed ==
  ASSUME NEW shape, Read(shape, ")").ok
  PROVE  LET s == shape.open
         IN  /\ s # <<>> /\ shape.ok /\ ~shape.due /\ s[Len(s)] \in {0, CallArity}
             /\ ~Read(shape, ")").due /\ ~Read(shape, ")").tight
             /\ Read(shape, ")").open = SubSeq(s, 1, Len(s) - 1)
BY TokenKinds DEF Read, Binary

LEMMA ResumedIs ==
  ASSUME NEW tokens, NEW nodes, NEW calls, Structure(tokens, nodes, calls), NEW node \in Nat
  PROVE  HasResumed(calls, node, Resumed(calls, node))
BY ResumedFacts DEF Structure

LEMMA FitsRead ==
  ASSUME NEW tokens, NEW nodes, NEW calls, Structure(tokens, nodes, calls), NEW token \in Tokens,
         NEW shape, Fits(shape, tokens, nodes, calls)
  PROVE  Fits(shape, Append(tokens, token), Append(nodes, <<>>), calls)
<1> DEFINE more == Append(tokens, token)
           all == Append(nodes, <<>>)
           N == Len(tokens)
           L == Len(calls)
<1>1. /\ tokens \in Seq(Tokens) /\ nodes \in Seq(Seq(Nat)) /\ Len(nodes) = N /\ N \in Nat
      /\ calls \in Seq(Calls) /\ L \in Nat /\ L \in 1..L
  BY DEF Structure
<1>2. (\A i \in 1..N : more[i] = tokens[i]) /\ (\A i \in 1..N : all[i] = nodes[i])
  BY <1>1
<1>3. ASSUME NEW d \in 1..L, NEW extra, Balanced(tokens, calls[d], extra) PROVE Balanced(more, calls[d], extra)
  <2>1. calls[d] \in Calls /\ IsFrame(calls[d], tokens)
    BY <1>1 DEF Structure
  <2> QED BY <1>1, <1>3, <2>1, BalancedRead
<1> HIDE DEF more, all
<1>4. ASSUME NEW d \in 2..L PROVE Inside(calls[d], shape.open[d - 1], all)
  <2>1. Inside(calls[d], shape.open[d - 1], nodes)
    BY DEF Fits
  <2>2. calls[d].context = "f(" => calls[d].at \in 1..N
    BY <1>1 DEF Structure, IsFrame
  <2> QED BY <1>2, <2>1, <2>2 DEF Inside
<1>5. ASSUME LooseLast(tokens, calls[L].operators) PROVE LooseLast(more, calls[L].operators)
  <2> DEFINE ops == calls[L].operators
  <2>1. ops \in Seq(Nat) /\ IsFrame(calls[L], tokens)
    <3>1. calls[L] \in Calls /\ IsFrame(calls[L], tokens)
      BY <1>1 DEF Structure
    <3> QED BY <3>1 DEF Calls
  <2>2. ASSUME ops # <<>> PROVE ops[Len(ops)] \in 1..N
    <3> HIDE DEF ops
    <3>1. Len(ops) >= 1 /\ Len(ops) \in Nat
      BY <2>1, <2>2, NotEmpty
    <3>2. Len(ops) \in 1..Len(ops)
      BY <3>1
    <3>3. ops[Len(ops)] \in Elements(ops)
      BY <2>1, <3>2, ValueAt
    <3> QED BY <2>1, <3>3 DEF IsFrame, ops
  <2> QED BY <1>2, <1>5, <2>2 DEF LooseLast
<1>6. ASSUME NEW d \in 1..(L - 1) PROVE Balanced(more, calls[d], 0)
  <2>1. d \in 1..L /\ Balanced(tokens, calls[d], 0)
    BY <1>1 DEF Fits
  <2> QED BY <1>3, <2>1
<1>7. (shape.due => Balanced(more, calls[L], 0)) /\ (~shape.due => Balanced(more, calls[L], 1))
  BY <1>1, <1>3 DEF Fits
<1> QED
  BY <1>4, <1>5, <1>6, <1>7 DEF Fits, more, all

(* Every call waits for an operand. *)
Waits(open, tokens, nodes, calls) ==
  /\ open \in Seq(Nat) /\ Len(open) = Len(calls) - 1
  /\ \A d \in 2..Len(calls) : Inside(calls[d], open[d - 1], nodes)
  /\ \A d \in 1..Len(calls) : Balanced(tokens, calls[d], 0)

LEMMA FitsWaits ==
  ASSUME NEW tokens, NEW nodes, NEW calls, Structure(tokens, nodes, calls),
         NEW shape, Fits(shape, tokens, nodes, calls), shape.due
  PROVE  Waits(shape.open, tokens, nodes, calls)
<1>1. Len(calls) \in Nat /\ Len(calls) >= 1
  BY DEF Structure
<1>2. \A d \in 1..Len(calls) : d \in 1..(Len(calls) - 1) \/ d = Len(calls)
  BY <1>1
<1> QED
  BY <1>2 DEF Fits, Waits

LEMMA FitsResumed ==
  ASSUME NEW tokens, NEW nodes, NEW calls, Structure(tokens, nodes, calls), NEW node \in Nat,
         NEW shape, ~shape.due, Waits(shape.open, tokens, nodes, calls)
  PROVE  Fits(shape, tokens, nodes, Resumed(calls, node))
<1> DEFINE L == Len(calls)
           now == Resumed(calls, node)
<1>1. calls \in Seq(Calls) /\ L \in Nat /\ L \in 1..L
  BY DEF Structure
<1>2. HasResumed(calls, node, now)
  BY ResumedIs
<1> HIDE DEF now
<1>3. Balanced(tokens, now[L], 1)
  <2>1. Balanced(tokens, calls[L], 0)
    BY <1>1 DEF Waits
  <2>2. calls[L].operators \in Seq(Nat)
    <3>1. calls[L] \in Calls
      BY <1>1
    <3> QED BY <3>1 DEF Calls
  <2> QED BY <1>2, <2>1, <2>2, BalancedOperand DEF HasResumed
<1>4. ASSUME NEW d \in 1..(L - 1) PROVE Balanced(tokens, now[d], 0)
  <2>1. d \in 1..L /\ d # L
    BY <1>1
  <2> QED BY <1>2, <2>1 DEF HasResumed, Waits
<1>5. ASSUME NEW d \in 2..L PROVE Inside(now[d], shape.open[d - 1], nodes)
  <2>1. Inside(calls[d], shape.open[d - 1], nodes)
    BY DEF Waits
  <2>2. now[d].context = calls[d].context /\ now[d].at = calls[d].at
    BY <1>1, <1>2 DEF HasResumed
  <2> QED BY <2>1, <2>2 DEF Inside
<1> QED
  BY <1>2, <1>3, <1>4, <1>5 DEF Fits, Waits, HasResumed, now

LEMMA HeldResumed ==
  ASSUME NEW tokens, NEW nodes, NEW calls, Structure(tokens, nodes, calls), NEW node \in Nat,
         NEW S, HeldIn(Resumed(calls, node), S)
  PROVE  HeldIn(calls, S) /\ node \in S
<1> DEFINE L == Len(calls)
           now == Resumed(calls, node)
<1>1. L \in Nat /\ L \in 1..L
  BY DEF Structure
<1>2. HasResumed(calls, node, now)
  BY ResumedIs
<1> HIDE DEF now
<1>3. ASSUME NEW d \in 1..L PROVE Held(calls[d]) \subseteq S
  <2>1. Held(now[d]) \subseteq S
    BY <1>2 DEF HeldIn, HasResumed, now
  <2>2. Held(calls[d]) \subseteq Held(now[d])
    BY <1>2 DEF Held, HasResumed
  <2> QED BY <2>1, <2>2
<1>4. node \in S
  BY <1>1, <1>2 DEF HeldIn, Held, HasResumed, now
<1> QED
  BY <1>3, <1>4 DEF HeldIn

LEMMA AfterReading ==
  ASSUME ExprIInv, NEW token \in Tokens, Reading(token)
  PROVE  /\ outcome = "parsing" /\ words' = Append(words, token)
         /\ words' \in Seq(Tokens) /\ Len(words') = Here /\ words'[Here] = token /\ Here \in Nat
         /\ \A i \in 1..Len(words) : words'[i] = words[i]
         /\ Structure(words', Nodes, frames)
         /\ AllHeld(words, children, frames)
         /\ Shape.ok => Fits(Shape, words', Nodes, frames)
         /\ token \in Named => Here \in NamedTokens(words')
<1>1. outcome = "parsing" /\ words' = Append(words, token)
  BY DEF Reading
<1>2. /\ Structure(words, children, frames) /\ AllHeld(words, children, frames)
      /\ Shape.ok => Fits(Shape, words, children, frames)
  BY <1>1 DEF ExprIInv
<1>3. Extended(words, token, words') /\ Len(words) \in Nat
  BY <1>1, <1>2, TokenRead DEF Structure
<1>4. Structure(words', Nodes, frames)
  BY <1>1, <1>2, StructureRead DEF Nodes
<1>5. Shape.ok => Fits(Shape, words', Nodes, frames)
  BY <1>1, <1>2, FitsRead DEF Nodes
<1> QED
  BY <1>1, <1>2, <1>3, <1>4, <1>5 DEF Extended, Here

LEMMA HeldKept ==
  ASSUME ExprIInv, NEW token \in Tokens, Reading(token),
         \A S \in SUBSET (1..Here) :
           HeldIn(frames', S) /\ Downward(children', S) =>
             HeldIn(frames, S) /\ Downward(Nodes, S) /\ (token \in Named => Here \in S)
  PROVE  AllHeld(words', children', frames')
BY HeldContinues DEF ExprIInv, Reading, Nodes, Here

LEMMA OperandStep ==
  ASSUME ExprIInv, Operand
  PROVE  ExprIInv'
<1> DEFINE token == "operand"
           s == Read(Shape, token)
<1>1. token \in Tokens /\ token \in Named /\ Reading(token) /\ outcome' = outcome
  BY DEF Operand, Tokens, Named, Resume
<1>2. children' = Nodes /\ frames' = Resumed(frames, Here)
  BY DEF Operand, Resume, Resumed
<1>3. /\ Structure(words', Nodes, frames) /\ Here \in NamedTokens(words') /\ Here \in Nat
      /\ Shape.ok => Fits(Shape, words', Nodes, frames)
  BY <1>1, AfterReading
<1>4. Structure(words', children', frames')
  BY <1>2, <1>3, StructureResumed
<1>5. AllHeld(words', children', frames')
  <2>1. ASSUME NEW S \in SUBSET (1..Here), HeldIn(frames', S), Downward(children', S)
        PROVE  HeldIn(frames, S) /\ Downward(Nodes, S) /\ (token \in Named => Here \in S)
    BY <1>2, <1>3, <2>1, HeldResumed
  <2> QED BY <1>1, <2>1, HeldKept
<1>6. ASSUME s.ok PROVE Fits(s, words', children', frames')
  <2>1. Shape.ok /\ Shape.due /\ ~s.due /\ s.open = Shape.open
    <3>1. s = [ok |-> Shape.ok /\ Shape.due, due |-> FALSE, tight |-> FALSE, open |-> Shape.open]
      BY ReadOperand
    <3> HIDE DEF s
    <3> QED BY <1>6, <3>1
  <2>2. Waits(Shape.open, words', Nodes, frames)
    BY <1>3, <2>1, FitsWaits
  <2> HIDE DEF s
  <2> QED BY <1>2, <1>3, <2>1, <2>2, FitsResumed
<1> QED
  BY <1>1, <1>4, <1>5, <1>6, Continues

LEMMA PushedFacts ==
  ASSUME NEW calls \in Seq(Calls), NEW g \in Calls
  PROVE  /\ Append(calls, g) \in Seq(Calls) /\ Len(Append(calls, g)) = Len(calls) + 1
         /\ Append(calls, g)[Len(calls) + 1] = g /\ \A d \in 1..Len(calls) : Append(calls, g)[d] = calls[d]
         /\ Len(calls) \in Nat
OBVIOUS

LEMMA FrameIs ==
  ASSUME NEW context, context \in {"top", "(", "f("}, NEW at \in Nat
  PROVE  /\ Frame(context, at) \in Calls
         /\ Frame(context, at).context = context /\ Frame(context, at).at = at
         /\ Frame(context, at).operators = <<>>
         /\ Elements(Frame(context, at).arguments) = {} /\ Elements(Frame(context, at).operators) = {}
BY DEF Frame, Calls, Elements

LEMMA FitsPushed ==
  ASSUME NEW tokens, NEW nodes, NEW calls \in Seq(Calls), NEW open, Waits(open, tokens, nodes, calls),
         NEW context, context \in {"(", "f("}, NEW at \in Nat, NEW n \in Nat, Inside(Frame(context, at), n, nodes),
         NEW shape, shape.open = Append(open, n), shape.due, Len(calls) >= 1
  PROVE  Fits(shape, tokens, nodes, Append(calls, Frame(context, at)))
<1> DEFINE L == Len(calls)
           g == Frame(context, at)
           now == Append(calls, g)
<1>1. /\ g \in Calls /\ g.operators = <<>>
  BY FrameIs
<1>2. /\ L \in Nat /\ L >= 1 /\ Len(now) = L + 1 /\ now[L + 1] = g /\ \A d \in 1..L : now[d] = calls[d]
  BY <1>1, PushedFacts
<1>3. /\ open \in Seq(Nat) /\ Len(open) = L - 1
      /\ \A d \in 2..L : Inside(calls[d], open[d - 1], nodes)
      /\ \A d \in 1..L : Balanced(tokens, calls[d], 0)
  BY DEF Waits
<1>4. Balanced(tokens, g, 0)
  BY BalancedFrame
<1>5. /\ shape.open \in Seq(Nat) /\ Len(shape.open) = L /\ shape.open[L] = n
      /\ \A k \in 1..(L - 1) : shape.open[k] = open[k]
  BY <1>2, <1>3
<1> HIDE DEF g, now, L
<1>6. ASSUME NEW d \in 2..(L + 1) PROVE Inside(now[d], shape.open[d - 1], nodes)
  <2>1. CASE d = L + 1
    <3>1. d - 1 = L
      BY <1>2, <2>1
    <3> QED BY <1>2, <1>5, <2>1, <3>1 DEF g
  <2>2. CASE d # L + 1
    <3>1. d \in 2..L /\ d \in 1..L /\ d - 1 \in 1..(L - 1)
      BY <1>2, <2>2
    <3> QED BY <1>2, <1>3, <1>5, <3>1
  <2> QED BY <2>1, <2>2
<1>7. \A d \in 1..L : Balanced(tokens, now[d], 0)
  BY <1>2, <1>3
<1>8. Balanced(tokens, now[L + 1], 0) /\ LooseLast(tokens, now[L + 1].operators)
  BY <1>1, <1>2, <1>4 DEF LooseLast
<1>9. Len(now) - 1 = L
  BY <1>2
<1> QED
  BY <1>2, <1>5, <1>6, <1>7, <1>8, <1>9 DEF Fits, now, g

LEMMA HeldPushed ==
  ASSUME NEW calls \in Seq(Calls), NEW g \in Calls, NEW S, HeldIn(Append(calls, g), S)
  PROVE  HeldIn(calls, S) /\ Held(g) \subseteq S
<1> DEFINE L == Len(calls)
           now == Append(calls, g)
<1>1. L \in Nat /\ Len(now) = L + 1 /\ now[L + 1] = g /\ \A d \in 1..L : now[d] = calls[d]
  BY PushedFacts
<1>2. HeldIn(now, S)
  OBVIOUS
<1> HIDE DEF now, L
<1>3. L + 1 \in 1..(L + 1) /\ \A d \in 1..L : d \in 1..(L + 1)
  BY <1>1
<1> QED
  BY <1>1, <1>2, <1>3 DEF HeldIn, L

LEMMA LeftParenStep ==
  ASSUME ExprIInv, NEW token, token \in {"(", "f("}, LeftParen(token)
  PROVE  ExprIInv'
<1> DEFINE s == Read(Shape, token)
           g == Frame(token, Here)
<1>1. token \in Tokens /\ Reading(token) /\ outcome' = outcome /\ (token \in Named <=> token = "f(")
  BY TokenKinds DEF LeftParen, Tokens, Named
<1>2. children' = Nodes /\ frames' = Append(frames, g)
  BY DEF LeftParen
<1>3. /\ Structure(words', Nodes, frames) /\ Here \in Nat /\ Len(words') = Here /\ words'[Here] = token
      /\ Shape.ok => Fits(Shape, words', Nodes, frames)
  BY <1>1, AfterReading
<1>4. /\ g \in Calls /\ g.context = token /\ g.at = Here
      /\ Elements(g.arguments) = {} /\ Elements(g.operators) = {}
  <2>1. token \in {"top", "(", "f("}
    OBVIOUS
  <2> QED BY <1>3, <2>1 DEF Frame, Calls, Elements
<1>5. frames \in Seq(Calls) /\ Len(frames) >= 1 /\ Structure(words, children, frames) /\ Here = Len(words) + 1 /\ Len(words) \in Nat
  <2>1. Structure(words, children, frames)
    BY DEF ExprIInv
  <2> QED BY <2>1 DEF Structure, Here
<1>6. Here \in 1..Len(words')
  BY <1>3, <1>5
<1> HIDE DEF g
<1>7. IsFrame(g, words')
  BY <1>3, <1>4, <1>6 DEF IsFrame
<1>8. ASSUME NEW d \in 1..Len(frames), frames[d].context = "f(" PROVE frames[d].at < g.at
  <2>1. frames[d].at \in 1..Len(words)
    BY <1>5, <1>8 DEF Structure, IsFrame
  <2> QED BY <1>4, <1>5, <2>1
<1>9. Structure(words', children', frames')
  BY <1>2, <1>3, <1>4, <1>7, <1>8, StructurePushed
<1>10. AllHeld(words', children', frames')
  <2>1. ASSUME NEW S \in SUBSET (1..Here), HeldIn(frames', S), Downward(children', S)
        PROVE  HeldIn(frames, S) /\ Downward(Nodes, S) /\ (token \in Named => Here \in S)
    <3>1. HeldIn(frames, S) /\ Held(g) \subseteq S
      BY <1>2, <1>4, <1>5, <2>1, HeldPushed
    <3> QED BY <1>1, <1>2, <1>4, <2>1, <3>1 DEF Held
  <2> QED BY <1>1, <2>1, HeldKept
<1>11. ASSUME s.ok PROVE Fits(s, words', children', frames')
  <2> DEFINE n == IF token = "(" THEN 0 ELSE 1
  <2>1. Shape.ok /\ Shape.due /\ s.due /\ s.open = Append(Shape.open, n)
    <3>1. s = [ok |-> Shape.ok /\ Shape.due, due |-> TRUE, tight |-> FALSE, open |-> Append(Shape.open, n)]
      BY ReadParenthesis
    <3> HIDE DEF s, n
    <3> QED BY <1>11, <3>1
  <2>2. Waits(Shape.open, words', Nodes, frames)
    BY <1>3, <2>1, FitsWaits
  <2>3. Inside(g, n, Nodes)
    <3>1. CASE token = "("
      BY <1>4, <3>1 DEF Inside
    <3>2. CASE token = "f("
      <4>1. Nodes[Here] = <<>> /\ Len(<<>>) = 0
        BY <1>5 DEF Nodes, Structure
      <4> QED BY <1>4, <3>2, <4>1 DEF Inside
    <3> QED BY <3>1, <3>2
  <2>4. n \in Nat
    OBVIOUS
  <2> HIDE DEF s, n
  <2> QED BY <1>2, <1>3, <1>5, <2>1, <2>2, <2>3, <2>4, FitsPushed DEF g
<1> QED
  BY <1>1, <1>9, <1>10, <1>11, Continues

(* An operator that may stand where it does finds the arguments of those before  *)
(* it, which it takes off the stack.                                             *)
LEMMA OperatorIsRead ==
  ASSUME ExprIInv, NEW op \in Operators, Reading(op),
         NEW stay \in 0..Len(Current.operators),
         stay > 0 => ~GoesFirst(words[Current.operators[stay]], op),
         \A i \in (stay + 1)..Len(Current.operators) : GoesFirst(words[Current.operators[i]], op),
         Read(Shape, op).ok
  PROVE  LET ops == Current.operators
             t == add_operators(Stack(Current, Nodes), SubSeq(ops, stay + 1, Len(ops)))
         IN  /\ t.ok
             /\ \E weight : /\ Weighs(words', ops, weight) /\ weight[0] = 0
                            /\ Len(t.arguments) = weight[stay] + number_args(op) - 1
<1> DEFINE ops == Current.operators
           L == Len(ops)
           rest == SubSeq(ops, stay + 1, L)
           stack == Stack(Current, Nodes)
           t == add_operators(stack, rest)
           s == Read(Shape, op)
<1>1. /\ outcome = "parsing" /\ Structure(words, children, frames) /\ words' = Append(words, op)
      /\ Shape.ok => Fits(Shape, words, children, frames)
  BY DEF ExprIInv, Reading
<1>2. op \in Tokens /\ words \in Seq(Tokens) /\ Len(words) \in Nat /\ Len(children) = Len(words) /\ children \in Seq(Seq(Nat))
  <2>1. op \in Tokens
    BY DEF Tokens
  <2> QED BY <1>1, <2>1 DEF Structure
<1>3. Current \in Calls /\ IsFrame(Current, words)
  <2>1. frames \in Seq(Calls) /\ Len(frames) \in 1..Len(frames)
    BY <1>1 DEF Structure
  <2> QED BY <1>1, <2>1 DEF Structure, Current, Level
<1>4. /\ ops \in Seq(Nat) /\ L \in Nat /\ stay \in Nat /\ stay <= L
      /\ \A k \in 1..L : ops[k] \in 1..Len(words) /\ words[ops[k]] \in Operators
  <2>1. ops \in Seq(Nat)
    BY <1>3 DEF Calls
  <2>2. \A k \in 1..L : ops[k] \in Elements(ops)
    BY <2>1, ValueAt
  <2> HIDE DEF ops
  <2> QED BY <1>3, <2>1, <2>2 DEF IsFrame, ops
<1>5. /\ Nodes \in Seq(Seq(Nat)) /\ Len(Nodes) = Len(words) + 1
      /\ stack \in Stacks /\ stack.ok /\ stack.arguments = Current.arguments /\ stack.children = Nodes
      /\ Current.arguments \in Seq(Nat)
  <2>1. Nodes \in Seq(Seq(Nat)) /\ Len(Nodes) = Len(words) + 1
    BY <1>2 DEF Nodes
  <2>2. Current.arguments \in Seq(Nat)
    BY <1>3 DEF Calls
  <2> QED BY <2>1, <2>2 DEF Stack, Stacks
<1>6. /\ rest \in Seq(Nat) /\ Len(rest) = L - stay
      /\ \A k \in 1..(L - stay) : rest[k] = ops[stay + k]
  <2> HIDE DEF ops
  <2> QED BY <1>4, SplitValues
<1>7. Shape.ok /\ (op = "not" => Shape.due /\ ~Shape.tight) /\ (op # "not" => ~Shape.due)
  <2>1. s = IF op = "not" THEN [ok |-> Shape.ok /\ Shape.due /\ ~Shape.tight, due |-> TRUE, tight |-> TRUE, open |-> Shape.open]
            ELSE [ok |-> Shape.ok /\ ~Shape.due, due |-> TRUE, tight |-> precedence[op] >= precedence["not"], open |-> Shape.open]
    BY ReadOperator
  <2>2. s.ok
    OBVIOUS
  <2> HIDE DEF s
  <2> QED BY <2>1, <2>2
<1>8. Fits(Shape, words, children, frames)
  BY <1>1, <1>7
<1> DEFINE goal == /\ t.ok
                   /\ \E weight : /\ Weighs(words', ops, weight) /\ weight[0] = 0
                                  /\ Len(t.arguments) = weight[stay] + number_args(op) - 1
<1> SUFFICES goal
  OBVIOUS
<1>9. CASE op # "not"
  <2>1. PICK weight : Weighs(words, ops, weight) /\ weight[0] = 0 /\ Len(Current.arguments) = weight[L] + 1
    BY <1>7, <1>8, <1>9 DEF Fits, Balanced, Current, Level
  <2>2. Weighs(words', ops, weight)
    BY <1>1, <1>2, <1>3, <2>1, WeighsRead
  <2>3. number_args(op) = 2
    BY <1>9 DEF number_args
  <2> DEFINE w == [k \in 0..(L - stay) |-> weight[stay + k]]
  <2>4. ASSUME NEW k \in 0..(L - stay) PROVE w[k] = weight[stay + k] /\ w[k] \in Nat
    <3>1. stay + k \in 0..L
      BY <1>4
    <3> QED BY <2>1, <3>1 DEF Weighs
  <2>5. w \in [0..(L - stay) -> Nat]
    BY <2>4
  <2>6. ASSUME NEW k \in 1..(L - stay) PROVE w[k] = w[k - 1] + number_args(words[rest[k]]) - 1
    <3>1. k \in 0..(L - stay) /\ k - 1 \in 0..(L - stay) /\ stay + k \in 1..L /\ stay + (k - 1) = (stay + k) - 1
      <4> HIDE DEF L, ops
      <4> QED BY <1>4
    <3>2. weight[stay + k] = weight[(stay + k) - 1] + number_args(words[ops[stay + k]]) - 1
      BY <2>1, <3>1 DEF Weighs
    <3>3. w[k] = weight[stay + k] /\ w[k - 1] = weight[(stay + k) - 1]
      BY <2>4, <3>1
    <3> HIDE DEF w, rest
    <3> QED BY <1>6, <3>2, <3>3
  <2>7. Weighs(words, rest, w)
    <3> HIDE DEF w, rest
    <3> QED BY <1>6, <2>5, <2>6 DEF Weighs
  <2>8. w[Len(rest)] = weight[L] /\ w[0] = weight[stay] /\ weight[L] \in Nat /\ weight[stay] \in Nat
    <3>1. 0 \in 0..(L - stay) /\ L - stay \in 0..(L - stay) /\ stay + (L - stay) = L /\ stay + 0 = stay
      BY <1>4
    <3> HIDE DEF rest, w
    <3> QED BY <1>6, <2>4, <3>1
  <2>9. \A k \in 1..Len(rest) : rest[k] \in 1..Len(stack.children)
    <3>1. ASSUME NEW k \in 1..Len(rest) PROVE rest[k] \in 1..(Len(words) + 1)
      <4>1. stay + k \in 1..L /\ k \in 1..(L - stay)
        BY <1>4, <1>6
      <4> HIDE DEF rest, ops
      <4>2. rest[k] \in 1..Len(words)
        BY <1>4, <1>6, <4>1
      <4> QED BY <1>2, <4>2
    <3> HIDE DEF stack, rest
    <3> QED BY <1>5, <3>1
  <2>10. Len(stack.arguments) > w[Len(rest)]
    <3> HIDE DEF w, rest, stack
    <3> QED BY <1>5, <2>1, <2>8
  <2> HIDE DEF w, rest, stack, ops
  <2>11. t.ok /\ Len(t.arguments) = Len(stack.arguments) - w[Len(rest)] + w[0]
    BY <1>5, <1>6, <2>7, <2>9, <2>10, OperatorsFed, ZenonT(40)
  <2>12. Len(t.arguments) = weight[stay] + number_args(op) - 1
    <3> HIDE DEF t
    <3> QED BY <1>5, <2>1, <2>3, <2>8, <2>11 DEF ops
  <2> HIDE DEF t
  <2> QED BY <2>1, <2>2, <2>11, <2>12
<1>10. CASE op = "not"
  <2>1. PICK weight : Weighs(words, ops, weight) /\ weight[0] = 0 /\ Len(Current.arguments) = weight[L] + 0
    BY <1>7, <1>8, <1>10 DEF Fits, Balanced, Current, Level
  <2>2. Weighs(words', ops, weight)
    BY <1>1, <1>2, <1>3, <2>1, WeighsRead
  <2>3. number_args(op) = 1
    BY <1>10 DEF number_args
  <2>4. stay = L
    <3>1. SUFFICES ASSUME stay < L PROVE FALSE
      BY <1>4
    <3>2. L \in (stay + 1)..L /\ L \in 1..L /\ L # 0
      BY <1>4, <3>1
    <3> DEFINE top == words[ops[L]]
    <3>3. GoesFirst(top, op) /\ top \in Operators
      BY <1>4, <3>2
    <3>4. ops # <<>>
      <4> HIDE DEF ops
      <4> QED BY <1>4, <3>2, NotEmpty
    <3>5. precedence[top] < precedence["not"]
      BY <1>7, <1>8, <1>10, <3>4 DEF Fits, LooseLast, Current, Level
    <3> HIDE DEF top
    <3>6. precedence[top] \in Nat /\ precedence["not"] \in Nat
      BY <3>3, OperatorsAssumption DEF precedence
    <3> QED BY <1>10, <3>3, <3>5, <3>6 DEF GoesFirst
  <2>5. rest = <<>>
    <3>1. Len(rest) = 0
      BY <1>4, <1>6, <2>4
    <3> HIDE DEF rest
    <3> QED BY <1>6, <3>1, NotEmpty
  <2>6. t = stack
    <3> HIDE DEF rest, stack
    <3> QED BY <2>5, NoOperators
  <2>7. weight[L] \in Nat
    BY <1>4, <2>1 DEF Weighs
  <2>8. Len(t.arguments) = weight[stay] + number_args(op) - 1
    <3> HIDE DEF t, stack, rest
    <3> QED BY <1>5, <2>1, <2>3, <2>4, <2>6, <2>7
  <2> HIDE DEF t, stack, rest
  <2> QED BY <1>5, <2>1, <2>2, <2>6, <2>8
<1> QED
  BY <1>9, <1>10

IsReplaced(calls, g, now) ==
  /\ now \in Seq(Calls) /\ Len(now) = Len(calls) /\ now[Len(calls)] = g
  /\ \A d \in 1..Len(calls) : d # Len(calls) => now[d] = calls[d]

LEMMA TopReplaced ==
  ASSUME NEW calls \in Seq(Calls), Len(calls) >= 1, NEW g \in Calls
  PROVE  IsReplaced(calls, g, [calls EXCEPT ![Len(calls)] = g])
BY DEF IsReplaced

LEMMA OperatorStacks ==
  ASSUME ExprIInv, NEW op \in Operators, Reading(op), outcome' = outcome,
         NEW stay \in 0..Len(Current.operators),
         stay > 0 => ~GoesFirst(words[Current.operators[stay]], op),
         \A i \in (stay + 1)..Len(Current.operators) : GoesFirst(words[Current.operators[i]], op),
         NEW t, t = add_operators(Stack(Current, Nodes), SubSeq(Current.operators, stay + 1, Len(Current.operators))), t.ok,
         frames' = [frames EXCEPT ![Level].arguments = t.arguments,
                                  ![Level].operators = Append(SubSeq(Current.operators, 1, stay), Here)],
         children' = t.children
  PROVE  ExprIInv'
<1> DEFINE ops == Current.operators
           kept == SubSeq(ops, 1, stay)
           rest == SubSeq(ops, stay + 1, Len(ops))
           new == Append(kept, Here)
           g == [Current EXCEPT !.arguments = t.arguments, !.operators = new]
           s == Read(Shape, op)
           stack == Stack(Current, Nodes)
<1>1. op \in Tokens /\ op \in Named
  BY DEF Tokens, Named
<1>2. /\ Structure(words', Nodes, frames) /\ Here \in Nat /\ Len(words') = Here /\ words'[Here] = op
      /\ Here \in NamedTokens(words')
      /\ Shape.ok => Fits(Shape, words', Nodes, frames)
  BY <1>1, AfterReading
<1>3. /\ frames \in Seq(Calls) /\ Level \in Nat /\ Level \in 1..Level /\ Current \in Calls /\ IsFrame(Current, words')
      /\ Nodes \in Seq(Seq(Nat)) /\ Len(Nodes) = Here /\ Level = Len(frames)
      /\ \A i \in 1..Here : Elements(Nodes[i]) \subseteq NamedTokens(words')
  <2>1. frames \in Seq(Calls) /\ Level \in Nat /\ Level \in 1..Level
    BY <1>2 DEF Structure, Level
  <2>2. IsFrame(Current, words') /\ Current \in Calls
    BY <1>2, <2>1, SMTT(30) DEF Structure, Level, Current
  <2> HIDE DEF Current
  <2> QED BY <1>2, <2>1, <2>2 DEF Structure, Level
<1>4. ops \in Seq(Nat) /\ Current.arguments \in Seq(Nat) /\ Len(ops) \in Nat
  BY <1>3 DEF Calls
<1>5. /\ kept \in Seq(Nat) /\ rest \in Seq(Nat) /\ Elements(ops) = Elements(kept) \cup Elements(rest)
  <2>1. stay \in 0..Len(ops)
    OBVIOUS
  <2> HIDE DEF ops
  <2> QED BY <1>4, <2>1, SplitValues
<1>6. new \in Seq(Nat) /\ Elements(new) = Elements(kept) \cup {Here}
  <2> HIDE DEF kept
  <2> QED BY <1>2, <1>5, AppendValues
<1>7. Elements(Current.arguments) \subseteq NamedTokens(words') /\ Elements(ops) \subseteq NamedTokens(words')
  BY <1>3 DEF IsFrame, NamedTokens, Named
<1>8. stack \in Stacks /\ stack.arguments = Current.arguments /\ stack.children = Nodes /\ stack.ok
  BY <1>3, <1>4 DEF Stack, Stacks
<1>9. Grown(stack, t, Elements(rest))
  <2>1. \A k \in 1..Len(rest) : rest[k] \in 1..Len(stack.children)
    <3>1. \A k \in 1..Len(rest) : rest[k] \in Elements(rest)
      <4> HIDE DEF rest
      <4> QED BY <1>5, ValueAt
    <3> HIDE DEF rest, stack, ops
    <3> QED BY <1>2, <1>3, <1>5, <1>7, <1>8, <3>1 DEF NamedTokens
  <2>2. t = add_operators(stack, rest)
    OBVIOUS
  <2> HIDE DEF rest, stack
  <2> QED BY <1>5, <1>8, <2>1, <2>2, OperatorsAdded
<1> HIDE DEF ops, kept, rest, new, stack
<1>10. /\ t.arguments \in Seq(Nat) /\ t.children \in Seq(Seq(Nat)) /\ Len(t.children) = Here
       /\ \A i \in 1..Here : i \notin Elements(rest) => t.children[i] = Nodes[i]
       /\ \A i \in 1..Here : Elements(t.children[i]) \subseteq NamedTokens(words')
       /\ Elements(t.arguments) \subseteq NamedTokens(words')
  <2>1. t.arguments \in Seq(Nat) /\ t.children \in Seq(Seq(Nat))
    BY <1>9 DEF Grown, Stacks
  <2>2. /\ Len(t.children) = Here
        /\ \A i \in 1..Here : i \notin Elements(rest) => t.children[i] = Nodes[i]
        /\ \A i \in 1..Here : Elements(t.children[i]) \subseteq Elements(Nodes[i]) \cup Elements(Current.arguments) \cup Elements(rest)
        /\ Elements(t.arguments) \subseteq Elements(Current.arguments) \cup Elements(rest)
    BY <1>3, <1>8, <1>9 DEF Grown
  <2> QED BY <1>3, <1>5, <1>7, <2>1, <2>2
<1>11. /\ g \in Calls /\ g.context = Current.context /\ g.at = Current.at
       /\ g.arguments = t.arguments /\ g.operators = new
  BY <1>3, <1>6, <1>10 DEF Calls
<1>12. frames' = [frames EXCEPT ![Level] = g]
  BY <1>3 DEF new, kept, ops, Current
<1>12a. frames' = [frames EXCEPT ![Len(frames)] = g]
  BY <1>3, <1>12
<1> HIDE DEF g
<1>13. /\ frames' \in Seq(Calls) /\ Len(frames') = Level /\ frames'[Level] = g
       /\ \A d \in 1..Level : d # Level => frames'[d] = frames[d]
  <2>1. Len(frames) >= 1 /\ frames \in Seq(Calls) /\ g \in Calls
    BY <1>3, <1>11
  <2>2. IsReplaced(frames, g, [frames EXCEPT ![Len(frames)] = g])
    BY <2>1, TopReplaced
  <2>3. IsReplaced(frames, g, frames')
    BY <1>12a, <2>2
  <2> QED BY <1>3, <2>3 DEF IsReplaced
<1>14. Elements(new) \subseteq {i \in 1..Len(words') : words'[i] \in Operators}
  <2>1. Elements(ops) \subseteq {i \in 1..Len(words') : words'[i] \in Operators}
    BY <1>3 DEF IsFrame, ops
  <2>2. Here \in 1..Len(words')
    BY <1>2 DEF NamedTokens
  <2> QED BY <1>2, <1>5, <1>6, <2>1, <2>2
<1>15. IsFrame(g, words')
  BY <1>3, <1>10, <1>11, <1>14 DEF IsFrame
<1>16. Structure(words', children', frames')
  <2>1. Structure(words', Nodes, frames')
    <3>1. g.context = frames[Len(frames)].context /\ g.at = frames[Len(frames)].at
      BY <1>11 DEF Current, Level
    <3>2. Structure(words', Nodes, [frames EXCEPT ![Len(frames)] = g])
      BY <1>2, <1>11, <1>15, <3>1, StructureTop
    <3> QED BY <1>12a, <3>2
  <2> QED BY <1>2, <1>3, <1>10, <2>1, StructureNodes, ZenonT(40)
<1>17. AllHeld(words', children', frames')
  <2>1. ASSUME NEW S \in SUBSET (1..Here), HeldIn(frames', S), Downward(children', S)
        PROVE  HeldIn(frames, S) /\ Downward(Nodes, S) /\ (op \in Named => Here \in S)
    <3>1. Held(g) \subseteq S
      BY <1>3, <1>13, <2>1 DEF HeldIn
    <3>2. Elements(t.arguments) \subseteq S /\ Elements(new) \subseteq S
      BY <1>11, <3>1 DEF Held
    <3>3. Elements(stack.arguments) \cup Elements(rest) \subseteq S /\ Downward(stack.children, S)
      <4>1. S \in SUBSET (1..Len(stack.children)) /\ Downward(t.children, S)
        BY <1>3, <1>8, <2>1
      <4> QED BY <1>9, <3>2, <4>1 DEF Grown
    <3>4. Held(Current) \subseteq S
      BY <1>5, <1>6, <1>8, <1>11, <3>1, <3>2, <3>3 DEF Held, ops
    <3>5. ASSUME NEW d \in 1..Level PROVE Held(frames[d]) \subseteq S
      <4>1. CASE d = Level
        BY <3>4, <4>1 DEF Current
      <4>2. CASE d # Level
        BY <1>13, <2>1, <4>2 DEF HeldIn
      <4> QED BY <4>1, <4>2
    <3> QED BY <1>3, <1>6, <1>8, <3>2, <3>3, <3>5 DEF HeldIn
  <2> QED BY <1>1, <2>1, HeldKept
<1>18. ASSUME s.ok PROVE Fits(s, words', children', frames')
  <2>1. PICK weight : /\ Weighs(words', ops, weight) /\ weight[0] = 0
                      /\ Len(t.arguments) = weight[stay] + number_args(op) - 1
    BY <1>18, OperatorIsRead DEF ops
  <2>2. Balanced(words', g, 0)
    <3>1. stay \in 0..Len(ops) /\ g.operators = Append(SubSeq(ops, 1, stay), Here)
      BY <1>11 DEF ops, new, kept
    <3>2. Len(g.arguments) = weight[stay] + number_args(words'[Here]) - 1
      BY <1>2, <1>11, <2>1
    <3> QED BY <1>2, <1>4, <2>1, <3>1, <3>2, BalancedStacked DEF ops
  <2>3. /\ Shape.ok /\ s.due /\ s.open = Shape.open
        /\ ~s.tight => op # "not" /\ ~(precedence[op] >= precedence["not"])
    <3>1. s = IF op = "not" THEN [ok |-> Shape.ok /\ Shape.due /\ ~Shape.tight, due |-> TRUE, tight |-> TRUE, open |-> Shape.open]
              ELSE [ok |-> Shape.ok /\ ~Shape.due, due |-> TRUE, tight |-> precedence[op] >= precedence["not"], open |-> Shape.open]
      BY ReadOperator
    <3> HIDE DEF s
    <3> QED BY <1>18, <3>1
  <2>4. Fits(Shape, words', Nodes, frames)
    BY <1>2, <2>3
  <2> HIDE DEF s
  <2>5. ASSUME NEW d \in 2..Level PROVE Inside(frames'[d], s.open[d - 1], children')
    <3>1. Inside(frames[d], Shape.open[d - 1], Nodes)
      BY <1>3, <2>4 DEF Fits
    <3>2. frames'[d].context = frames[d].context /\ frames'[d].at = frames[d].at
      <4>1. d \in 1..Level
        BY <1>3
      <4> QED BY <1>11, <1>13, <4>1 DEF Current
    <3>3. ASSUME frames[d].context = "f(" PROVE children'[frames[d].at] = Nodes[frames[d].at]
      <4>1. IsFrame(frames[d], words')
        BY <1>2, <1>3 DEF Structure
      <4>2. frames[d].at \in 1..Here /\ words'[frames[d].at] = "f("
        BY <1>2, <3>3, <4>1 DEF IsFrame
      <4>3. frames[d].at \notin Elements(rest)
        BY <1>3, <1>5, <4>2, TokenKinds DEF IsFrame, ops
      <4> QED BY <1>10, <4>2, <4>3
    <3> QED BY <2>3, <3>1, <3>2, <3>3 DEF Inside
  <2>6. ASSUME NEW d \in 1..(Level - 1) PROVE Balanced(words', frames'[d], 0)
    <3>1. d \in 1..Level /\ d # Level
      BY <1>3
    <3> QED BY <1>3, <1>13, <2>4, <3>1 DEF Fits
  <2>7. ASSUME ~s.tight PROVE LooseLast(words', g.operators)
    <3>1. Len(new) \in Nat /\ new[Len(new)] = Here
      BY <1>2, <1>5 DEF new
    <3>2. precedence[op] \in Nat /\ precedence["not"] \in Nat
      BY OperatorsAssumption DEF precedence
    <3> QED BY <1>2, <1>11, <2>3, <2>7, <3>1, <3>2 DEF LooseLast
  <2>8. s.open \in Seq(Nat) /\ Len(s.open) = Level - 1
    BY <1>3, <2>3, <2>4 DEF Fits
  <2> QED BY <1>13, <2>2, <2>3, <2>5, <2>6, <2>7, <2>8 DEF Fits
<1> QED
  BY <1>1, <1>16, <1>17, <1>18, Continues

LEMMA OperatorStep ==
  ASSUME ExprIInv, NEW op \in Operators, Operator(op)
  PROVE  ExprIInv'
<1> DEFINE ops == Current.operators
<1>1. Reading(op) /\ op \in Tokens
  BY DEF Operator, Tokens
<1>2. PICK stay \in 0..Len(ops) :
        LET stack == add_operators(Stack(Current, Nodes), SubSeq(ops, stay + 1, Len(ops)))
        IN  /\ stay > 0 => ~GoesFirst(words[ops[stay]], op)
            /\ \A i \in (stay + 1)..Len(ops) : GoesFirst(words[ops[i]], op)
            /\ IF ~stack.ok THEN Refuse
               ELSE /\ frames' = [frames EXCEPT ![Level].arguments = stack.arguments,
                                                ![Level].operators = Append(SubSeq(ops, 1, stay), Here)]
                    /\ children' = stack.children
                    /\ UNCHANGED <<outcome, root>>
  BY DEF Operator
<1> DEFINE t == add_operators(Stack(Current, Nodes), SubSeq(ops, stay + 1, Len(ops)))
<1>3. CASE t.ok
  <2>1. /\ frames' = [frames EXCEPT ![Level].arguments = t.arguments,
                                    ![Level].operators = Append(SubSeq(ops, 1, stay), Here)]
        /\ children' = t.children /\ outcome' = outcome
    BY <1>2, <1>3
  <2>2. t = add_operators(Stack(Current, Nodes), SubSeq(ops, stay + 1, Len(ops)))
    OBVIOUS
  <2> HIDE DEF t
  <2> QED BY <1>1, <1>2, <1>3, <2>1, <2>2, OperatorStacks
<1>4. CASE ~t.ok
  <2>1. Refuse
    BY <1>2, <1>4
  <2>2. ~Read(Shape, op).ok
    BY <1>1, <1>2, <1>4, OperatorIsRead
  <2> QED BY <1>1, <2>1, <2>2, Refused
<1> QED
  BY <1>3, <1>4

-----------------------------------------------------------------------------
(* The end of a call. *)

LEMMA CurrentIs ==
  ASSUME NEW tokens, NEW nodes, Structure(tokens, nodes, frames)
  PROVE  /\ Level \in Nat /\ Level >= 1 /\ Level = Len(frames) /\ frames \in Seq(Calls)
         /\ Current = frames[Level] /\ Current \in Calls /\ IsFrame(Current, tokens)
         /\ Elements(Current.arguments) \cup Elements(Current.operators) \subseteq NamedTokens(tokens)
         /\ Elements(Current.operators) \subseteq {i \in 1..Len(tokens) : tokens[i] \in Operators}
         /\ nodes \in Seq(Seq(Nat)) /\ Len(nodes) = Len(tokens) /\ Len(tokens) \in Nat
         /\ \A i \in 1..Len(tokens) : Elements(nodes[i]) \subseteq NamedTokens(tokens)
<1>1. frames \in Seq(Calls) /\ Level \in Nat /\ Level \in 1..Level /\ Level = Len(frames)
  BY DEF Structure, Level
<1>2. Current = frames[Level] /\ Current \in Calls /\ IsFrame(Current, tokens)
  BY <1>1 DEF Structure, Current, Level
<1>3. /\ nodes \in Seq(Seq(Nat)) /\ Len(nodes) = Len(tokens) /\ Len(tokens) \in Nat
      /\ \A i \in 1..Len(tokens) : Elements(nodes[i]) \subseteq NamedTokens(tokens)
  BY DEF Structure
<1>4. Elements(Current.arguments) \cup Elements(Current.operators) \subseteq NamedTokens(tokens)
  BY <1>2 DEF IsFrame, NamedTokens, Named
<1> QED
  BY <1>1, <1>2, <1>3, <1>4 DEF IsFrame

Ended(tokens, nodes, expr) ==
  /\ expr.children \in Seq(Seq(Nat)) /\ Len(expr.children) = Len(tokens)
  /\ \A i \in 1..Len(tokens) : tokens[i] \notin Operators => expr.children[i] = nodes[i]
  /\ \A i \in 1..Len(tokens) : Elements(expr.children[i]) \subseteq NamedTokens(tokens)
  /\ expr.root # Null => expr.root \in NamedTokens(tokens)
  /\ \A S \in SUBSET (1..Len(tokens)) :
       (expr.root # Null => expr.root \in S) /\ Downward(expr.children, S) =>
         Elements(Current.arguments) \cup Elements(Current.operators) \subseteq S /\ Downward(nodes, S)

LEMMA CallEnds ==
  ASSUME NEW tokens, NEW nodes, Structure(tokens, nodes, frames), Finish(Current, nodes).ok
  PROVE  Ended(tokens, nodes, Finish(Current, nodes))
<1> DEFINE expr == Finish(Current, nodes)
           held == Elements(Current.arguments) \cup Elements(Current.operators)
           N == Len(nodes)
<1>1. /\ Current \in Calls /\ held \subseteq NamedTokens(tokens)
      /\ Elements(Current.operators) \subseteq {i \in 1..Len(tokens) : tokens[i] \in Operators}
      /\ nodes \in Seq(Seq(Nat)) /\ N = Len(tokens)
      /\ \A i \in 1..Len(tokens) : Elements(nodes[i]) \subseteq NamedTokens(tokens)
  BY CurrentIs
<1>2. held \subseteq 1..N
  BY <1>1 DEF NamedTokens
<1>3. /\ expr.children \in Seq(Seq(Nat)) /\ Len(expr.children) = N
      /\ \A i \in 1..N : i \notin Elements(Current.operators) => expr.children[i] = nodes[i]
      /\ \A i \in 1..N : Elements(expr.children[i]) \subseteq Elements(nodes[i]) \cup held
      /\ expr.root = Null \/ expr.root \in held
      /\ \A S \in SUBSET (1..N) :
           (expr.root # Null => expr.root \in S) /\ Downward(expr.children, S) =>
              held \subseteq S /\ Downward(nodes, S)
  BY <1>1, <1>2, FinishFacts
<1> HIDE DEF expr, held, N
<1>4. \A i \in 1..Len(tokens) : tokens[i] \notin Operators => expr.children[i] = nodes[i]
  BY <1>1, <1>3
<1>5. \A i \in 1..Len(tokens) : Elements(expr.children[i]) \subseteq NamedTokens(tokens)
  BY <1>1, <1>3
<1> QED
  BY <1>1, <1>3, <1>4, <1>5 DEF Ended, expr, held

(* After an operand the innermost call can end. *)
LEMMA CallFed ==
  ASSUME Structure(words, children, frames), Fits(Shape, words, children, frames), ~Shape.due,
         NEW nodes \in Seq(Seq(Nat)), Len(nodes) >= Len(words)
  PROVE  Finish(Current, nodes).ok /\ Finish(Current, nodes).root # Null
<1>1. /\ Level = Len(frames) /\ Current = frames[Level] /\ Current \in Calls /\ Len(words) \in Nat
      /\ Elements(Current.arguments) \cup Elements(Current.operators) \subseteq NamedTokens(words)
  BY CurrentIs
<1>2. Balanced(words, Current, 1)
  BY <1>1 DEF Fits
<1>3. PICK weight : /\ Weighs(words, Current.operators, weight) /\ weight[0] = 0
                    /\ Len(Current.arguments) = weight[Len(Current.operators)] + 1
  BY <1>2 DEF Balanced
<1>4. Elements(Current.arguments) \cup Elements(Current.operators) \subseteq 1..Len(nodes)
  <2>1. Len(nodes) \in Nat
    OBVIOUS
  <2> QED BY <1>1, <2>1 DEF NamedTokens
<1> QED
  BY <1>1, <1>3, <1>4, FinishFed

(* The argument node, if there is one, is added to those of the node at. *)
Given(nodes, at, node, now) ==
  /\ now \in Seq(Seq(Nat)) /\ Len(now) = Len(nodes)
  /\ \A i \in 1..Len(nodes) : i # at => now[i] = nodes[i]
  /\ Elements(nodes[at]) \subseteq Elements(now[at])
  /\ Elements(now[at]) \subseteq Elements(nodes[at]) \cup {i \in {node} : node # Null}
  /\ node # Null => node \in Elements(now[at]) /\ Len(now[at]) = Len(nodes[at]) + 1

LEMMA AppendNode == \A q \in Seq(Nat), node \in Nat : Elements(Append(q, node)) = Elements(q) \cup {node}
BY AppendValues

LEMMA GivenOne ==
  ASSUME NEW nodes \in Seq(Seq(Nat)), NEW at \in 1..Len(nodes), NEW node \in Nat
  PROVE  Given(nodes, at, node, [nodes EXCEPT ![at] = IF node = Null THEN nodes[at] ELSE Append(nodes[at], node)])
<1> DEFINE q == nodes[at]
           r == IF node = Null THEN q ELSE Append(q, node)
           now == [nodes EXCEPT ![at] = r]
<1>1. q \in Seq(Nat) /\ Len(q) \in Nat
  OBVIOUS
<1> HIDE DEF q
<1>2. Elements(Append(q, node)) = Elements(q) \cup {node}
  BY <1>1, AppendNode
<1>3. Append(q, node) \in Seq(Nat) /\ Len(Append(q, node)) = Len(q) + 1
  BY <1>1
<1>4. /\ r \in Seq(Nat) /\ Elements(q) \subseteq Elements(r) /\ Elements(r) \subseteq Elements(q) \cup {i \in {node} : node # Null}
      /\ node # Null => node \in Elements(r) /\ Len(r) = Len(q) + 1
  BY <1>1, <1>2, <1>3
<1> HIDE DEF r
<1>5. /\ now \in Seq(Seq(Nat)) /\ Len(now) = Len(nodes) /\ now[at] = r
      /\ \A i \in 1..Len(nodes) : i # at => now[i] = nodes[i]
  BY <1>4
<1> HIDE DEF now
<1>6. Given(nodes, at, node, now)
  BY <1>4, <1>5 DEF Given, q
<1> QED
  BY <1>6 DEF now, r, q

LEMMA GivenDownward ==
  ASSUME NEW nodes, NEW at \in 1..Len(nodes), NEW node, NEW now, Given(nodes, at, node, now),
         NEW S \in SUBSET (1..Len(nodes)), at \in S, Downward(now, S)
  PROVE  Downward(nodes, S) /\ (node # Null => node \in S)
<1>1. \A i \in S : Elements(now[i]) \subseteq S
  BY DownwardValues
<1>2. \A i \in S : Elements(nodes[i]) \subseteq S
  BY <1>1 DEF Given
<1>3. Downward(nodes, S)
  BY <1>2, DownwardValues
<1> QED
  BY <1>1, <1>3 DEF Given

LEMMA OuterIs ==
  ASSUME NEW tokens, NEW nodes, Structure(tokens, nodes, frames), Level > 1
  PROVE  /\ Structure(tokens, nodes, Callers)
         /\ Callers \in Seq(Calls) /\ Len(Callers) = Level - 1 /\ Len(Callers) >= 1
         /\ \A d \in 1..(Level - 1) : Callers[d] = frames[d]
         /\ Current.context = "f(" =>
              \A d \in 1..(Level - 1) : frames[d].context = "f(" => frames[d].at < Current.at
<1>1. frames \in Seq(Calls) /\ Level \in Nat /\ Level = Len(frames) /\ Current = frames[Level]
  BY CurrentIs
<1>2. Callers \in Seq(Calls) /\ Len(Callers) = Level - 1 /\ Len(Callers) >= 1 /\ \A d \in 1..(Level - 1) : Callers[d] = frames[d]
  BY <1>1 DEF Callers
<1>3. Structure(tokens, nodes, Callers)
  BY <1>1, StructurePopped DEF Callers
<1>4. ASSUME Current.context = "f(", NEW d \in 1..(Level - 1), frames[d].context = "f(" PROVE frames[d].at < Current.at
  <2>1. d \in 1..Len(frames) /\ Level \in 1..Len(frames) /\ d < Level
    BY <1>1
  <2> QED BY <1>1, <1>4, <2>1 DEF Structure
<1> QED
  BY <1>2, <1>3, <1>4

LEMMA OuterWaits ==
  ASSUME NEW tokens, NEW nodes, Structure(tokens, nodes, frames), Level > 1,
         NEW shape, Fits(shape, tokens, nodes, frames),
         NEW now, \A d \in 1..(Level - 1) : frames[d].context = "f(" => now[frames[d].at] = nodes[frames[d].at]
  PROVE  Waits(SubSeq(shape.open, 1, Len(shape.open) - 1), tokens, now, Callers)
<1> DEFINE s == shape.open
           n == Len(s)
           open == SubSeq(s, 1, n - 1)
<1>1. frames \in Seq(Calls) /\ Level \in Nat /\ Level = Len(frames)
  BY CurrentIs
<1>2. Len(Callers) = Level - 1 /\ \A d \in 1..(Level - 1) : Callers[d] = frames[d]
  BY OuterIs
<1>3. s \in Seq(Nat) /\ n = Level - 1 /\ n \in Nat /\ n >= 1
  BY <1>1 DEF Fits
<1>4. open \in Seq(Nat) /\ Len(open) = n - 1 /\ \A k \in 1..(n - 1) : open[k] = s[k]
  BY <1>3
<1> HIDE DEF open
<1>5. ASSUME NEW d \in 2..(Level - 1) PROVE Inside(Callers[d], open[d - 1], now)
  <2>1. d \in 2..Level /\ d \in 1..(Level - 1) /\ d - 1 \in 1..(n - 1)
    BY <1>1, <1>3
  <2>2. Inside(frames[d], s[d - 1], nodes)
    BY <1>1, <2>1 DEF Fits
  <2>3. Callers[d] = frames[d] /\ open[d - 1] = s[d - 1]
    BY <1>2, <1>4, <2>1
  <2> QED BY <2>1, <2>2, <2>3 DEF Inside
<1>6. \A d \in 1..(Level - 1) : Balanced(tokens, Callers[d], 0)
  BY <1>1, <1>2 DEF Fits
<1>7. Len(open) = Len(Callers) - 1
  BY <1>2, <1>3, <1>4
<1> QED
  BY <1>2, <1>4, <1>5, <1>6, <1>7 DEF Waits, open

(* The innermost call returns to the one before it, or is followed by one for  *)
(* the next argument of the same function.                                     *)
LEMMA ReturnKeeps ==
  ASSUME ExprIInv, NEW token \in Tokens, token \notin Named, Reading(token), Level > 1,
         NEW expr, expr = Finish(Current, Nodes), expr.ok,
         children' = expr.children \/ (Current.context = "f(" /\ Given(expr.children, Current.at, expr.root, children'))
  PROVE  /\ Structure(words', Nodes, frames) /\ Structure(words', children', frames)
         /\ Structure(words', children', Callers)
         /\ Ended(words', Nodes, expr)
         /\ Current.context = "f(" => Current.at \in 1..Here /\ expr.children[Current.at] = Nodes[Current.at]
         /\ \A d \in 1..(Level - 1) : frames[d].context = "f(" => children'[frames[d].at] = Nodes[frames[d].at]
<1>1. Structure(words', Nodes, frames) /\ Len(words') = Here
  BY AfterReading
<1>2. Ended(words', Nodes, expr)
  BY <1>1, CallEnds
<1>3. /\ Level = Len(frames) /\ Level \in Nat /\ Current = frames[Level] /\ IsFrame(Current, words')
      /\ Len(Nodes) = Here
  BY <1>1, CurrentIs
<1>4. ASSUME NEW d \in 1..Level, frames[d].context = "f("
      PROVE  frames[d].at \in 1..Here /\ expr.children[frames[d].at] = Nodes[frames[d].at]
  <2>1. frames[d].at \in 1..Here /\ words'[frames[d].at] = "f("
    BY <1>1, <1>3, <1>4 DEF Structure, IsFrame
  <2> QED BY <1>1, <1>2, <2>1, TokenKinds DEF Ended
<1>5. Current.context = "f(" => Current.at \in 1..Here /\ expr.children[Current.at] = Nodes[Current.at]
  <2>1. Level \in 1..Level
    BY <1>3
  <2> QED BY <1>3, <1>4, <2>1
<1>6. ASSUME NEW d \in 1..(Level - 1), frames[d].context = "f("
      PROVE  children'[frames[d].at] = Nodes[frames[d].at]
  <2>1. d \in 1..Level
    BY <1>3
  <2>2. frames[d].at \in 1..Here /\ expr.children[frames[d].at] = Nodes[frames[d].at] /\ frames[d].at \in Nat
    BY <1>4, <1>6, <2>1
  <2>3. CASE children' = expr.children
    BY <2>2, <2>3
  <2>4. CASE Current.context = "f(" /\ Given(expr.children, Current.at, expr.root, children')
    <3>1. frames[d].at < Current.at
      BY <1>1, <1>6, <2>4, OuterIs
    <3>2. frames[d].at # Current.at
      BY <1>5, <2>2, <2>4, <3>1
    <3> QED BY <1>1, <1>2, <2>2, <2>4, <3>2 DEF Ended, Given
  <2> QED BY <2>3, <2>4
<1>7. /\ children' \in Seq(Seq(Nat)) /\ Len(children') = Here
      /\ \A i \in 1..Here : Elements(children'[i]) \subseteq NamedTokens(words')
  <2>1. CASE children' = expr.children
    BY <1>1, <1>2, <2>1 DEF Ended
  <2>2. CASE Current.context = "f(" /\ Given(expr.children, Current.at, expr.root, children')
    <3>1. children' \in Seq(Seq(Nat)) /\ Len(children') = Here
      BY <1>1, <1>2, <2>2 DEF Ended, Given
    <3>2. ASSUME NEW i \in 1..Here PROVE Elements(children'[i]) \subseteq NamedTokens(words')
      <4>1. Elements(expr.children[i]) \subseteq NamedTokens(words') /\ (expr.root # Null => expr.root \in NamedTokens(words'))
        BY <1>1, <1>2 DEF Ended
      <4>2. CASE i # Current.at
        BY <1>1, <1>2, <2>2, <4>1, <4>2 DEF Ended, Given
      <4>3. CASE i = Current.at
        BY <2>2, <4>1, <4>3 DEF Given
      <4> QED BY <4>2, <4>3
    <3> QED BY <3>1, <3>2
  <2> QED BY <2>1, <2>2
<1>8. Structure(words', children', frames)
  BY <1>1, <1>3, <1>7, StructureNodes
<1>9. Structure(words', children', Callers)
  BY <1>8, OuterIs
<1> QED
  BY <1>1, <1>2, <1>5, <1>6, <1>8, <1>9

(* What the innermost call held is still held. *)
LEMMA ReturnHolds ==
  ASSUME ExprIInv, NEW token \in Tokens, token \notin Named, Reading(token), Level > 1,
         NEW expr, expr = Finish(Current, Nodes), expr.ok,
         children' = expr.children \/ (Current.context = "f(" /\ Given(expr.children, Current.at, expr.root, children')),
         \A S \in SUBSET (1..Here) :
           HeldIn(frames', S) /\ Downward(children', S) =>
             /\ HeldIn(Callers, S)
             /\ Current.context = "f(" => Current.at \in S
             /\ children' = expr.children /\ expr.root # Null => expr.root \in S
  PROVE  AllHeld(words', children', frames')
<1>1. Structure(words', Nodes, frames) /\ Ended(words', Nodes, expr)
  BY ReturnKeeps
<1>2. Len(words') = Here
  BY AfterReading
<1>3. ASSUME NEW S \in SUBSET (1..Here), HeldIn(frames', S), Downward(children', S)
      PROVE  HeldIn(frames, S) /\ Downward(Nodes, S) /\ (token \in Named => Here \in S)
  <2>1. /\ HeldIn(Callers, S) /\ (Current.context = "f(" => Current.at \in S)
        /\ children' = expr.children /\ expr.root # Null => expr.root \in S
    BY <1>3
  <2>2. Downward(expr.children, S) /\ (expr.root # Null => expr.root \in S)
    <3>1. CASE children' = expr.children
      BY <1>3, <2>1, <3>1
    <3>2. CASE Current.context = "f(" /\ Given(expr.children, Current.at, expr.root, children')
      <4>1. Len(expr.children) = Here /\ Current.at \in S
        BY <1>1, <1>2, <2>1, <3>2 DEF Ended
      <4> QED BY <1>3, <3>2, <4>1, GivenDownward
    <3> QED BY <3>1, <3>2
  <2>3. Elements(Current.arguments) \cup Elements(Current.operators) \subseteq S /\ Downward(Nodes, S)
    BY <1>1, <1>2, <2>2 DEF Ended
  <2>4. Held(Current) \subseteq S
    BY <2>1, <2>3 DEF Held
  <2>5. /\ Level \in Nat /\ Level = Len(frames) /\ Current = frames[Level]
        /\ Len(Callers) = Level - 1 /\ \A d \in 1..(Level - 1) : Callers[d] = frames[d]
    BY <1>1, CurrentIs, OuterIs
  <2>6. ASSUME NEW d \in 1..Level PROVE Held(frames[d]) \subseteq S
    <3>1. CASE d = Level
      BY <2>4, <2>5, <3>1
    <3>2. CASE d # Level
      <4>1. d \in 1..(Level - 1)
        BY <2>5, <3>2
      <4> QED BY <2>1, <2>5, <4>1 DEF HeldIn
    <3> QED BY <3>1, <3>2
  <2> QED BY <2>3, <2>5, <2>6 DEF HeldIn
<1> QED
  BY <1>3, HeldKept

(* A comma or a closing parenthesis that may stand where it does. *)
LEMMA EndIsRead ==
  ASSUME ExprIInv, NEW token \in Tokens, token \notin Named, Reading(token), Shape.ok, ~Shape.due, Shape.open # <<>>,
         NEW expr, expr = Finish(Current, Nodes)
  PROVE  /\ expr.ok /\ expr.root # Null /\ Level > 1
         /\ Fits(Shape, words', Nodes, frames) /\ Structure(words', Nodes, frames)
         /\ Len(Shape.open) = Level - 1 /\ Shape.open \in Seq(Nat)
         /\ Inside(Current, Shape.open[Len(Shape.open)], Nodes)
<1>1. /\ Structure(words', Nodes, frames) /\ Fits(Shape, words', Nodes, frames)
      /\ Structure(words, children, frames) /\ Fits(Shape, words, children, frames)
  BY AfterReading DEF ExprIInv
<1>2. Nodes \in Seq(Seq(Nat)) /\ Len(Nodes) = Len(words) + 1 /\ Len(words) \in Nat
  BY <1>1 DEF Structure, Nodes
<1>3. expr.ok /\ expr.root # Null
  <2>1. Len(Nodes) >= Len(words)
    BY <1>2
  <2> QED BY <1>1, <1>2, <2>1, CallFed
<1>4. Level \in Nat /\ Level = Len(frames) /\ Current = frames[Level]
  BY <1>1, CurrentIs
<1>5. Shape.open \in Seq(Nat) /\ Len(Shape.open) = Level - 1
  BY <1>1, <1>4 DEF Fits
<1>6. Len(Shape.open) >= 1
  <2> DEFINE s == Shape.open
  <2>1. s \in Seq(Nat) /\ s # <<>>
    BY <1>5
  <2> HIDE DEF s
  <2>2. Len(s) >= 1
    BY <2>1, NotEmpty
  <2> QED BY <2>2 DEF s
<1> DEFINE n == Len(Shape.open)
<1>7. Level > 1 /\ Level \in 2..Level /\ n = Level - 1
  BY <1>4, <1>5, <1>6
<1>8. Inside(Current, Shape.open[Level - 1], Nodes)
  BY <1>1, <1>4, <1>7 DEF Fits
<1> QED
  BY <1>1, <1>3, <1>5, <1>7, <1>8

LEMMA EmptyHeld ==
  ASSUME NEW calls \in Seq(Calls), NEW g \in Calls, NEW S, HeldIn(Append(calls, g), S)
  PROVE  HeldIn(calls, S) /\ (g.context = "f(" => g.at \in S)
BY HeldPushed DEF Held

LEMMA CommaStep ==
  ASSUME ExprIInv, Comma
  PROVE  ExprIInv'
<1> DEFINE token == ","
           expr == Finish(Current, Nodes)
           at == Current.at
           g == Frame("f(", at)
           s == Read(Shape, token)
           open == Shape.open
           n == Len(open)
<1>1. token \in Tokens /\ token \notin Named /\ Reading(token)
  BY TokenKinds DEF Comma, Tokens, Named
<1>2. ASSUME s.ok
      PROVE  /\ open # <<>> /\ Shape.ok /\ ~Shape.due /\ open[n] > 0 /\ s.due /\ s.open = [open EXCEPT ![n] = @ + 1]
             /\ expr.ok /\ expr.root # Null /\ Level > 1
             /\ Fits(Shape, words', Nodes, frames) /\ Structure(words', Nodes, frames)
             /\ n = Level - 1 /\ open \in Seq(Nat)
             /\ Inside(Current, open[n], Nodes) /\ Current.context = "f("
  <2>1. open # <<>> /\ Shape.ok /\ ~Shape.due /\ open[n] > 0 /\ s.due /\ s.open = [open EXCEPT ![n] = @ + 1]
    BY <1>2, ReadComma
  <2> HIDE DEF s, expr
  <2>2. /\ expr.ok /\ expr.root # Null /\ Level > 1
        /\ Fits(Shape, words', Nodes, frames) /\ Structure(words', Nodes, frames)
        /\ n = Level - 1 /\ open \in Seq(Nat)
        /\ Inside(Current, open[n], Nodes)
    BY <1>1, <2>1, EndIsRead DEF expr
  <2>3. open[n] # 0
    BY <2>1
  <2>4. Current.context = "f("
    BY <2>2, <2>3 DEF Inside
  <2> QED BY <2>1, <2>2, <2>4
<1>3. CASE ~expr.ok \/ Current.context # "f(" \/ expr.root = Null
  <2>1. Refuse
    BY <1>3 DEF Comma
  <2>2. ~s.ok
    BY <1>2, <1>3
  <2> QED BY <1>1, <2>1, <2>2, Refused
<1>4. CASE expr.ok /\ Current.context = "f(" /\ expr.root # Null
  <2>1. /\ frames' = Append(Callers, g) /\ outcome' = outcome
        /\ children' = [expr.children EXCEPT ![at] = Append(expr.children[at], expr.root)]
    BY <1>4 DEF Comma
  <2>2. Structure(words', Nodes, frames) /\ Len(words') = Here
    BY <1>1, AfterReading
  <2> HIDE DEF expr
  <2>3. Ended(words', Nodes, expr)
    BY <1>4, <2>2, CallEnds DEF expr
  <2>4. IsFrame(Current, words') /\ Level \in Nat /\ Level >= 1 /\ Current = frames[Level] /\ frames[1].context = "top"
    BY <2>2, CurrentIs DEF Structure
  <2>5. Level > 1
    BY <1>4, <2>4
  <2>6. at \in 1..Here /\ at \in Nat
    BY <1>4, <2>2, <2>4 DEF IsFrame
  <2>7. Given(expr.children, at, expr.root, children')
    <3>1. /\ expr.children \in Seq(Seq(Nat)) /\ Len(expr.children) = Here /\ expr.root \in Nat
      BY <1>4, <2>2, <2>3 DEF Ended, NamedTokens
    <3>2. at \in 1..Len(expr.children)
      BY <2>6, <3>1
    <3>3. children' = [expr.children EXCEPT ![at] = IF expr.root = Null THEN expr.children[at] ELSE Append(expr.children[at], expr.root)]
      BY <1>4, <2>1
    <3> HIDE DEF at
    <3>4. Given(expr.children, at, expr.root,
                [expr.children EXCEPT ![at] = IF expr.root = Null THEN expr.children[at] ELSE Append(expr.children[at], expr.root)])
      BY <3>1, <3>2, GivenOne
    <3> QED BY <3>3, <3>4
  <2>8. /\ expr = Finish(Current, Nodes)
        /\ Current.context = "f(" /\ Given(expr.children, Current.at, expr.root, children')
    BY <1>4, <2>7 DEF expr
  <2>9. /\ Structure(words', children', Callers)
        /\ expr.children[at] = Nodes[at]
        /\ \A d \in 1..(Level - 1) : frames[d].context = "f(" => children'[frames[d].at] = Nodes[frames[d].at]
    BY <1>1, <1>4, <2>5, <2>8, ReturnKeeps
  <2>10. /\ Callers \in Seq(Calls) /\ Len(Callers) = Level - 1 /\ Len(Callers) >= 1
         /\ \A d \in 1..(Level - 1) : Callers[d] = frames[d]
         /\ \A d \in 1..(Level - 1) : frames[d].context = "f(" => frames[d].at < at
    BY <1>4, <2>2, <2>5, OuterIs
  <2>11. g \in Calls /\ g.context = "f(" /\ g.at = at /\ Elements(g.arguments) = {} /\ Elements(g.operators) = {}
    <3>1. "f(" \in {"top", "(", "f("}
      OBVIOUS
    <3> HIDE DEF at
    <3> QED BY <2>6, <3>1, FrameIs
  <2> HIDE DEF g
  <2>12. IsFrame(g, words')
    BY <1>4, <2>4, <2>11 DEF IsFrame
  <2>13. Structure(words', children', frames')
    <3>1. \A d \in 1..Len(Callers) : Callers[d].context = "f(" => Callers[d].at < g.at
      BY <2>10, <2>11
    <3> QED BY <2>1, <2>9, <2>11, <2>12, <3>1, StructurePushed
  <2>14. AllHeld(words', children', frames')
    <3>1. ASSUME NEW S \in SUBSET (1..Here), HeldIn(frames', S), Downward(children', S)
          PROVE  /\ HeldIn(Callers, S)
                 /\ Current.context = "f(" => Current.at \in S
                 /\ children' = expr.children /\ expr.root # Null => expr.root \in S
      <4>1. HeldIn(Callers, S) /\ at \in S
        BY <2>1, <2>10, <2>11, <3>1, EmptyHeld
      <4>2. Len(expr.children) = Here
        BY <2>2, <2>3 DEF Ended
      <4>3. expr.root \in S
        BY <1>4, <2>7, <3>1, <4>1, <4>2, GivenDownward
      <4> QED BY <4>1, <4>3
    <3> QED BY <1>1, <1>4, <2>5, <2>8, <3>1, ReturnHolds
  <2>15. ASSUME s.ok PROVE Fits(s, words', children', frames')
    <3>1. /\ s.due /\ s.open = [open EXCEPT ![n] = open[n] + 1]
          /\ Fits(Shape, words', Nodes, frames)
          /\ n = Level - 1 /\ open \in Seq(Nat)
          /\ Inside(Current, open[n], Nodes)
      BY <1>2, <2>15
    <3> DEFINE before == SubSeq(open, 1, n - 1)
    <3>2. Waits(before, words', children', Callers)
      BY <2>2, <2>5, <2>9, <3>1, OuterWaits
    <3>3. n \in 1..n /\ n \in Nat /\ open[n] \in Nat
      <4>1. n \in Nat /\ n \in 1..n
        <5>1. n = Level - 1 /\ Level \in Nat
          BY <2>4, <3>1
        <5> HIDE DEF n
        <5> QED BY <2>5, <5>1
      <4>2. \A k \in 1..Len(open) : open[k] \in Nat
        <5>1. open \in Seq(Nat)
          BY <3>1
        <5> HIDE DEF open
        <5> QED BY <5>1
      <4> QED BY <4>1, <4>2
    <3>4. s.open = Append(before, open[n] + 1)
      <4> HIDE DEF s, n
      <4>1. Len(open) = n
        BY DEF n
      <4> HIDE DEF open
      <4> QED BY <3>1, <3>3, <4>1
    <3>5. Inside(g, open[n] + 1, children')
      <4>1. open[n] = Len(Nodes[at]) + 1
        BY <1>4, <3>1 DEF Inside
      <4>2. Len(children'[at]) = Len(Nodes[at]) + 1
        BY <1>4, <2>7, <2>9 DEF Given
      <4>3. open[n] + 1 = Len(children'[at]) + 1
        BY <4>1, <4>2
      <4> QED BY <2>11, <4>3 DEF Inside
    <3>6. open[n] + 1 \in Nat
      BY <3>3
    <3> HIDE DEF s, before, n, open
    <3> QED BY <2>1, <2>6, <2>10, <3>1, <3>2, <3>4, <3>5, <3>6, FitsPushed DEF g
  <2> QED BY <1>1, <2>1, <2>13, <2>14, <2>15, Continues
<1> QED
  BY <1>3, <1>4

LEMMA RightParenStep ==
  ASSUME ExprIInv, RightParen
  PROVE  ExprIInv'
<1> DEFINE token == ")"
           expr == Finish(Current, Nodes)
           at == Current.at
           before == expr.children[at]
           arguments == IF expr.root = Null THEN before ELSE Append(before, expr.root)
           s == Read(Shape, token)
           open == Shape.open
           n == Len(open)
           alone == Current.context = "(" /\ expr.root # Null
           called == Current.context = "f(" /\ Len(arguments) = CallArity
<1>1. token \in Tokens /\ token \notin Named /\ Reading(token)
  BY TokenKinds DEF RightParen, Tokens, Named
<1>2. Structure(words', Nodes, frames) /\ Len(words') = Here
  BY <1>1, AfterReading
<1>3. /\ IsFrame(Current, words') /\ Current \in Calls /\ Level \in Nat /\ Level >= 1 /\ Current = frames[Level]
      /\ frames[1].context = "top"
  BY <1>2, CurrentIs DEF Structure
<1>4. at \in Nat
  BY <1>3 DEF Calls
<1>5. Current.context = "f(" => at \in 1..Here /\ words'[at] = "f("
  BY <1>2, <1>3 DEF IsFrame
<1>6. expr.ok => Ended(words', Nodes, expr)
  <2> HIDE DEF expr
  <2> QED BY <1>2, CallEnds DEF expr
<1>7. ASSUME expr.ok, Current.context = "f("
      PROVE  before = Nodes[at] /\ before \in Seq(Nat) /\ (expr.root # Null => Len(arguments) = Len(before) + 1)
  <2> HIDE DEF expr
  <2>1. /\ expr.children \in Seq(Seq(Nat)) /\ Len(expr.children) = Here
        /\ expr.children[at] = Nodes[at] /\ (expr.root # Null => expr.root \in Nat)
    <3>1. Ended(words', Nodes, expr) /\ at \in 1..Len(words') /\ words'[at] = "f("
      BY <1>2, <1>5, <1>6, <1>7
    <3>2. words'[at] \notin Operators
      BY <3>1, TokenKinds
    <3> HIDE DEF at
    <3> QED BY <1>2, <3>1, <3>2 DEF Ended, NamedTokens
  <2>2. before \in Seq(Nat)
    BY <1>5, <1>7, <2>1
  <2>3. ASSUME expr.root # Null PROVE Len(arguments) = Len(before) + 1
    <3> HIDE DEF before
    <3>1. arguments = Append(before, expr.root)
      BY <2>3
    <3> QED BY <2>1, <2>2, <2>3, <3>1
  <2> QED BY <2>1, <2>2, <2>3
<1>8. ASSUME s.ok
      PROVE  /\ open # <<>> /\ Shape.ok /\ ~Shape.due /\ ~s.due /\ ~s.tight /\ s.open = SubSeq(open, 1, n - 1)
             /\ expr.ok /\ expr.root # Null /\ Level > 1
             /\ Fits(Shape, words', Nodes, frames)
             /\ alone \/ called
  <2>1. /\ open # <<>> /\ Shape.ok /\ ~Shape.due /\ open[n] \in {0, CallArity}
        /\ ~s.due /\ ~s.tight /\ s.open = SubSeq(open, 1, n - 1)
    BY <1>8, ReadClosed
  <2>2. /\ expr.ok /\ expr.root # Null /\ Level > 1
        /\ Fits(Shape, words', Nodes, frames)
        /\ Inside(Current, open[n], Nodes)
    <3> HIDE DEF s, expr
    <3> QED BY <1>1, <2>1, EndIsRead DEF expr
  <2>3. alone \/ called
    <3>1. CASE Current.context = "("
      BY <2>2, <3>1
    <3>2. CASE Current.context = "f(" /\ open[n] = Len(Nodes[at]) + 1
      <4>1. before = Nodes[at] /\ Len(before) \in Nat /\ Len(arguments) = Len(before) + 1
        <5> HIDE DEF expr, arguments, before
        <5>1. before = Nodes[at] /\ before \in Seq(Nat) /\ Len(arguments) = Len(before) + 1
          BY <1>7, <2>2, <3>2
        <5> QED BY <5>1
      <4> HIDE DEF arguments, before, n, open, s, expr
      <4>2. open[n] = Len(arguments) /\ open[n] # 0
        BY <3>2, <4>1
      <4>3. open[n] = CallArity
        BY <2>1, <4>2
      <4> QED BY <3>2, <4>2, <4>3
    <3> HIDE DEF alone, called
    <3> QED BY <2>2, <3>1, <3>2 DEF Inside
  <2> QED BY <2>1, <2>2, <2>3
<1>9. ASSUME NEW node \in Nat, expr.ok, outcome' = outcome, frames' = Resumed(Callers, node),
             \/ Current.context = "(" /\ children' = expr.children /\ node = expr.root /\ node # Null
             \/ Current.context = "f(" /\ Given(expr.children, at, expr.root, children') /\ node = at
      PROVE  ExprIInv'
  <2> HIDE DEF expr
  <2>1. Level > 1
    BY <1>3, <1>9
  <2>2. /\ expr = Finish(Current, Nodes)
        /\ children' = expr.children \/ (Current.context = "f(" /\ Given(expr.children, Current.at, expr.root, children'))
    <3>1. expr = Finish(Current, Nodes)
      BY DEF expr
    <3>2. children' = expr.children \/ (Current.context = "f(" /\ Given(expr.children, Current.at, expr.root, children'))
      BY <1>9
    <3> QED BY <3>1, <3>2
  <2>3. /\ Structure(words', children', Callers) /\ Ended(words', Nodes, expr)
        /\ \A d \in 1..(Level - 1) : frames[d].context = "f(" => children'[frames[d].at] = Nodes[frames[d].at]
    BY <1>1, <1>9, <2>1, <2>2, ReturnKeeps
  <2>4. node \in NamedTokens(words')
    BY <1>2, <1>5, <1>9, <2>3 DEF Ended, NamedTokens, Named
  <2>5. Structure(words', children', frames')
    BY <1>9, <2>3, <2>4, StructureResumed
  <2>6. AllHeld(words', children', frames')
    <3>1. ASSUME NEW S \in SUBSET (1..Here), HeldIn(frames', S), Downward(children', S)
          PROVE  /\ HeldIn(Callers, S)
                 /\ Current.context = "f(" => Current.at \in S
                 /\ children' = expr.children /\ expr.root # Null => expr.root \in S
      <4>1. HeldIn(Callers, S) /\ node \in S
        BY <1>9, <2>3, <3>1, HeldResumed
      <4>2. CASE Current.context = "("
        BY <1>9, <4>1, <4>2
      <4>3. CASE Current.context = "f(" /\ Given(expr.children, at, expr.root, children') /\ node = at
        <5>1. Len(expr.children) = Here
          BY <1>2, <2>3 DEF Ended
        <5>2. expr.root # Null => expr.root \in S
          BY <1>5, <3>1, <4>1, <4>3, <5>1, GivenDownward
        <5> QED BY <4>1, <4>3, <5>2
      <4> QED BY <1>9, <4>2, <4>3
    <3> QED BY <1>1, <1>9, <2>1, <2>2, <3>1, ReturnHolds
  <2>7. ASSUME s.ok PROVE Fits(s, words', children', frames')
    <3>1. ~s.due /\ ~s.tight /\ s.open = SubSeq(open, 1, n - 1) /\ Fits(Shape, words', Nodes, frames)
      BY <1>8, <2>7
    <3> HIDE DEF s
    <3>2. Waits(s.open, words', children', Callers)
      BY <1>2, <2>1, <2>3, <3>1, OuterWaits
    <3> QED BY <1>9, <2>3, <3>1, <3>2, FitsResumed
  <2> QED BY <1>1, <1>9, <2>5, <2>6, <2>7, Continues
<1>10. CASE expr.ok /\ alone
  <2>1. Resume(Callers, expr.root) /\ children' = expr.children
    BY <1>10 DEF RightParen
  <2>2. expr.root \in Nat
    BY <1>2, <1>6, <1>10 DEF Ended, NamedTokens
  <2> HIDE DEF expr
  <2> QED BY <1>9, <1>10, <2>1, <2>2 DEF Resume, Resumed
<1>11. CASE expr.ok /\ called
  <2>1. Resume(Callers, at) /\ children' = [expr.children EXCEPT ![at] = arguments]
    BY <1>11 DEF RightParen
  <2>2. Given(expr.children, at, expr.root, children')
    <3> HIDE DEF expr
    <3>1. expr.children \in Seq(Seq(Nat)) /\ Len(expr.children) = Here /\ expr.root \in Nat
      BY <1>2, <1>6, <1>11 DEF Ended, NamedTokens, Null
    <3>2. at \in 1..Len(expr.children)
      BY <1>5, <1>11, <3>1
    <3> HIDE DEF at
    <3>3. Given(expr.children, at, expr.root,
                [expr.children EXCEPT ![at] = IF expr.root = Null THEN expr.children[at] ELSE Append(expr.children[at], expr.root)])
      BY <3>1, <3>2, GivenOne
    <3> QED BY <2>1, <3>3
  <2> HIDE DEF expr
  <2> QED BY <1>4, <1>9, <1>11, <2>1, <2>2 DEF Resume, Resumed
<1>12. CASE ~expr.ok \/ (~alone /\ ~called)
  <2>1. Refuse
    BY <1>12 DEF RightParen
  <2>2. ~s.ok
    <3> HIDE DEF s, alone, called, expr
    <3> QED BY <1>8, <1>12
  <2> QED BY <1>1, <2>1, <2>2, Refused
<1> HIDE DEF alone, called, expr
<1> QED
  BY <1>10, <1>11, <1>12

LEMMA ClosingStep ==
  ASSUME ExprIInv, Closing
  PROVE  ExprIInv'
<1> DEFINE expr == Finish(Current, children)
<1>1. /\ outcome = "parsing" /\ words' = words /\ frames' = frames
      /\ Structure(words, children, frames) /\ AllHeld(words, children, frames)
      /\ Shape.ok => Fits(Shape, words, children, frames)
  BY DEF Closing, ExprIInv
<1>2. Shape' = Shape
  BY <1>1 DEF Shape, ShapeOf
<1>3. /\ Level \in Nat /\ Level >= 1 /\ Level = Len(frames) /\ Current = frames[Level]
      /\ children \in Seq(Seq(Nat)) /\ Len(children) = Len(words) /\ Len(words) \in Nat
      /\ frames[1].context = "top"
  BY <1>1, CurrentIs DEF Structure
<1>4. CASE Level > 1 \/ ~expr.ok
  <2>1. outcome' = "error_at_end" /\ children' = children /\ root' = root
    BY <1>4 DEF Closing
  <2>2. ASSUME Shape.ok, ~Shape.due PROVE Shape.open # <<>>
    <3>1. Fits(Shape, words, children, frames)
      BY <1>1, <2>2
    <3>2. expr.ok
      <4>1. Len(children) >= Len(words)
        BY <1>3
      <4> QED BY <1>1, <1>3, <2>2, <3>1, <4>1, CallFed
    <3>3. Len(Shape.open) = Level - 1 /\ Level > 1 /\ Shape.open \in Seq(Nat)
      BY <1>3, <1>4, <3>1, <3>2 DEF Fits
    <3> DEFINE open == Shape.open
    <3> HIDE DEF open
    <3>4. Len(open) # 0 /\ open \in Seq(Nat)
      BY <1>3, <3>3 DEF open
    <3>5. open # <<>>
      BY <3>4, NotEmpty
    <3> QED BY <3>5 DEF open
  <2> QED BY <1>1, <1>2, <2>1, <2>2 DEF ExprIInv, GrammarAccepted
<1>5. CASE Level = 1 /\ expr.ok
  <2>1. outcome' = "parsed" /\ root' = expr.root /\ children' = expr.children
    <3>1. ~(Level > 1)
      BY <1>5
    <3> QED BY <1>5, <3>1 DEF Closing
  <2> HIDE DEF expr
  <2>2. Ended(words, children, expr)
    BY <1>1, <1>5, CallEnds DEF expr
  <2>3. Structure(words', children', frames')
    <3>1. /\ children' \in Seq(Seq(Nat)) /\ Len(children') = Len(children)
          /\ \A i \in 1..Len(words) : Elements(children'[i]) \subseteq NamedTokens(words)
      BY <1>3, <2>1, <2>2 DEF Ended
    <3> QED BY <1>1, <3>1, StructureNodes
  <2>4. Used(root', words', children')
    <3>1. root' # Null => root' \in NamedTokens(words)
      BY <2>1, <2>2 DEF Ended
    <3>2. ASSUME NEW S \in SUBSET (1..Len(words)), root' # Null => root' \in S, Downward(children', S)
          PROVE  NamedTokens(words) \subseteq S
      <4>1. Elements(Current.arguments) \cup Elements(Current.operators) \subseteq S /\ Downward(children, S)
        BY <2>1, <2>2, <3>2 DEF Ended
      <4>2. Current.context = "top"
        BY <1>3, <1>5
      <4>3. Held(Current) \subseteq S
        BY <4>1, <4>2 DEF Held
      <4>4. HeldIn(frames, S)
        <5>1. \A d \in 1..Len(frames) : d = Level
          BY <1>3, <1>5
        <5> QED BY <1>3, <4>3, <5>1 DEF HeldIn
      <4> QED BY <1>1, <4>1, <4>4 DEF AllHeld
    <3> QED BY <1>1, <3>1, <3>2 DEF Used
  <2> QED BY <2>1, <2>3, <2>4 DEF ExprIInv, GrammarAccepted
<1> QED
  BY <1>3, <1>4, <1>5

LEMMA ExprInitIInv == ExprInit => ExprIInv
<1> SUFFICES ASSUME ExprInit PROVE ExprIInv
  OBVIOUS
<1> DEFINE f == Frame("top", 0)
<1>1. words = <<>> /\ children = <<>> /\ frames = <<f>> /\ outcome = "parsing"
  BY DEF ExprInit
<1>2. /\ f \in Calls /\ f.context = "top" /\ f.operators = <<>> /\ Elements(f.arguments) = {} /\ Elements(f.operators) = {}
  BY DEF Frame, Calls, Elements
<1>3. Balanced(words, f, 0)
  BY BalancedFrame
<1>4. Shape = NoWords
  BY <1>1, NoWordsShape DEF Shape
<1> HIDE DEF f
<1>5. /\ <<f>> \in Seq(Calls) /\ Len(<<f>>) = 1 /\ <<f>>[1] = f /\ \A d : d \in 1..1 <=> d = 1
  BY <1>2
<1>6. NamedTokens(<<>>) = {} /\ Len(<<>>) = 0 /\ <<>> \in Seq(Tokens) /\ <<>> \in Seq(Seq(Nat)) /\ <<>> \in Seq(Nat)
  BY DEF NamedTokens
<1>7. IsFrame(f, <<>>)
  BY <1>2 DEF IsFrame
<1>8. Structure(<<>>, <<>>, <<f>>)
  <2>1. \A i \in 1..Len(<<>>) : Elements(<<>>[i]) \subseteq NamedTokens(<<>>)
    BY <1>6
  <2>2. \A d \in 1..Len(<<f>>) : IsFrame(<<f>>[d], <<>>)
    BY <1>5, <1>7
  <2>3. \A d, e \in 1..Len(<<f>>) :
          d < e /\ <<f>>[d].context = "f(" /\ <<f>>[e].context = "f(" => <<f>>[d].at < <<f>>[e].at
    BY <1>5
  <2>4. <<f>>[1].context = "top"
    BY <1>2, <1>5
  <2> QED BY <1>5, <1>6, <2>1, <2>2, <2>3, <2>4 DEF Structure
<1>9. AllHeld(<<>>, <<>>, <<f>>)
  BY <1>6 DEF AllHeld
<1>10. Fits(NoWords, <<>>, <<>>, <<f>>)
  <2>1. /\ NoWords.open = <<>> /\ NoWords.due /\ ~NoWords.tight
    BY DEF NoWords
  <2>2. LooseLast(<<>>, f.operators)
    BY <1>2 DEF LooseLast
  <2>3. Balanced(<<>>, f, 0)
    BY <1>1, <1>3
  <2>4. /\ NoWords.open \in Seq(Nat) /\ Len(NoWords.open) = Len(<<f>>) - 1
    BY <1>5, <1>6, <2>1
  <2> HIDE DEF NoWords
  <2> QED BY <1>5, <2>1, <2>2, <2>3, <2>4 DEF Fits
<1> QED
  BY <1>1, <1>4, <1>8, <1>9, <1>10 DEF ExprIInv, GrammarAccepted

LEMMA ExprNextIInv == ExprIInv /\ [ExprNext]_exprVars => ExprIInv'
<1> SUFFICES ASSUME ExprIInv, [ExprNext]_exprVars PROVE ExprIInv'
  OBVIOUS
<1>1. CASE Operand
  BY <1>1, OperandStep
<1>2. CASE Comma
  BY <1>2, CommaStep
<1>3. CASE RightParen
  BY <1>3, RightParenStep
<1>4. CASE Closing
  BY <1>4, ClosingStep
<1>5. ASSUME NEW op \in Operators, Operator(op) PROVE ExprIInv'
  BY <1>5, OperatorStep
<1>6. ASSUME NEW token, token \in {"(", "f("}, LeftParen(token) PROVE ExprIInv'
  BY <1>6, LeftParenStep
<1>7. CASE UNCHANGED exprVars
  BY <1>7 DEF exprVars, ExprIInv, GrammarAccepted, Shape, ShapeOf
<1> QED
  BY <1>1, <1>2, <1>3, <1>4, <1>5, <1>6, <1>7 DEF ExprNext

-----------------------------------------------------------------------------
(* What follows. *)

(* While an expression of any length is parsed, the calls of parse_expression hold *)
(* every operand and operator read so far, directly or below what they hold; if    *)
(* every token could stand where it does, their stacks have just the arguments     *)
(* that the operators on them wait for.                                            *)
THEOREM ExprInvariant == ExprSpec => []ExprIInv
BY ExprInitIInv, ExprNextIInv, PTL DEF ExprSpec

(* A well-formed expression is accepted, of any length and depth, with any of the *)
(* operators and any number of arguments of the function: parse_expression, which *)
(* never looks at what may follow what, throws an error only where a token cannot *)
(* stand, or at the end of an expression that is not complete.                     *)
THEOREM RefusalsAreJust == ExprSpec => []GrammarAccepted
<1>1. ExprIInv => GrammarAccepted
  BY DEF ExprIInv
<1> QED
  BY <1>1, ExprInvariant, PTL

(* An expression that is accepted, well-formed or not, is used to the last token:  *)
(* each operand, operator and function is in the tree, and nothing else is.        *)
THEOREM WholeExpression == ExprSpec => []NothingDropped
<1>1. ASSUME ExprIInv PROVE NothingDropped
  <2>1. SUFFICES ASSUME outcome = "parsed"
                 PROVE  {i \in DOMAIN words : words[i] \in Named} = IF root = Null THEN {} ELSE TokensOf(root)
    BY DEF NothingDropped
  <2>2. Structure(words, children, frames) /\ Used(root, words, children)
    BY <1>1, <2>1 DEF ExprIInv
  <2>3. DOMAIN words = 1..Len(words)
    BY <2>2 DEF Structure
  <2>4. NamedTokens(words) = {i \in DOMAIN words : words[i] \in Named}
    BY <2>3 DEF NamedTokens
  <2>5. NamedTokens(words) \in SUBSET (1..Len(words)) /\ Downward(children, NamedTokens(words))
    <3>1. \A i \in NamedTokens(words) : Elements(children[i]) \subseteq NamedTokens(words)
      BY <2>2 DEF Structure, NamedTokens
    <3>2. Downward(children, NamedTokens(words))
      BY <3>1, DownwardValues
    <3> QED BY <3>2 DEF NamedTokens
  <2>6. CASE root = Null
    <3>1. NamedTokens(words) \subseteq {}
      BY <2>2, <2>6 DEF Used, Downward
    <3> QED BY <2>4, <2>6, <3>1
  <2>7. CASE root # Null
    <3>1. TokensOf(root) \subseteq NamedTokens(words)
      BY <2>2, <2>3, <2>5, <2>7 DEF Used, TokensOf
    <3>2. NamedTokens(words) \subseteq TokensOf(root)
      BY <2>2, <2>3, <2>5, <2>7 DEF Used, TokensOf
    <3> QED BY <2>4, <2>7, <3>1, <3>2
  <2> QED BY <2>6, <2>7
<1> QED
  BY <1>1, ExprInvariant, PTL

-----------------------------------------------------------------------------
(* Which operator goes first, and how deep a token is nested. *)

LEMMA Precedences ==
  /\ \A a \in Operators : precedence[a] \in Nat /\ (RightAssociative(a) <=> precedence[a] = 5)
  /\ precedence["not"] = 4 /\ ~RightAssociative("not")
BY OperatorsAssumption DEF precedence, RightAssociative

LEMMA GoesFirstMeans ==
  \A a, b \in Operators :
    /\ GoesFirst(a, b) <=> precedence[a] > precedence[b] \/ (precedence[a] = precedence[b] /\ precedence[b] # 5)
    /\ ~GoesFirst(a, b) <=> precedence[a] < precedence[b] \/ (precedence[a] = precedence[b] /\ precedence[b] = 5)
BY Precedences DEF GoesFirst

LEMMA GoesFirstTransitive ==
  ASSUME NEW a \in Operators, NEW b \in Operators, NEW c \in Operators
  PROVE  /\ GoesFirst(a, b) /\ GoesFirst(b, c) => GoesFirst(a, c)
         /\ ~GoesFirst(a, b) /\ ~GoesFirst(b, c) => ~GoesFirst(a, c)
BY Precedences, GoesFirstMeans

LEMMA NestedSame ==
  ASSUME NEW tokens, NEW more, NEW i, \A j \in 1..(i - 1) : more[j] = tokens[j]
  PROVE  Nested(more, i) = Nested(tokens, i)
<1>1. /\ {j \in 1..(i - 1) : more[j] \in {"(", "f("}} = {j \in 1..(i - 1) : tokens[j] \in {"(", "f("}}
      /\ {j \in 1..(i - 1) : more[j] = ")"} = {j \in 1..(i - 1) : tokens[j] = ")"}
  OBVIOUS
<1> QED
  BY <1>1 DEF Nested

LEMMA CountedUpTo ==
  ASSUME NEW S, NEW i \in Nat, i >= 1
  PROVE  LET before == {j \in 1..(i - 1) : j \in S}
             upTo == {j \in 1..i : j \in S}
         IN  /\ Cardinality(before) \in Nat /\ Cardinality(upTo) = Cardinality(before) + (IF i \in S THEN 1 ELSE 0)
             /\ i = 1 => Cardinality(before) = 0
<1> DEFINE before == {j \in 1..(i - 1) : j \in S}
           upTo == {j \in 1..i : j \in S}
<1>1. IsFiniteSet(before)
  <2>1. IsFiniteSet(1..(i - 1))
    BY FS_Interval
  <2> QED BY <2>1, FS_Subset
<1>2. Cardinality(before) \in Nat /\ (i = 1 => Cardinality(before) = 0)
  <2>1. i = 1 => before = {}
    OBVIOUS
  <2> HIDE DEF before
  <2> QED BY <1>1, <2>1, FS_CardinalityType, FS_EmptySet
<1>3. CASE i \in S
  <2>1. upTo = before \cup {i} /\ i \notin before
    BY <1>3
  <2> HIDE DEF before, upTo
  <2>2. Cardinality(upTo) = Cardinality(before) + 1
    BY <1>1, <2>1, FS_AddElement
  <2> QED BY <1>2, <1>3, <2>2 DEF before, upTo
<1>4. CASE i \notin S
  <2>1. upTo = before
    BY <1>4
  <2> HIDE DEF before, upTo
  <2>2. Cardinality(upTo) = Cardinality(before) + 0
    BY <1>2, <2>1
  <2> QED BY <1>2, <1>4, <2>2 DEF before, upTo
<1> QED
  BY <1>3, <1>4

(* What one token does to the nesting. *)
Deeper(token) == IF token \in {"(", "f("} THEN 1 ELSE IF token = ")" THEN -1 ELSE 0

LEMMA NestedNext ==
  ASSUME NEW tokens, NEW i \in Nat, i >= 1
  PROVE  /\ Nested(tokens, i) \in Int
         /\ Nested(tokens, i + 1) = Nested(tokens, i) + Deeper(tokens[i])
         /\ i = 1 => Nested(tokens, i) = 0
<1> DEFINE Opening == {j \in Nat : tokens[j] \in {"(", "f("}}
           Closed == {j \in Nat : tokens[j] = ")"}
           opened(k) == {j \in 1..k : j \in Opening}
           closed(k) == {j \in 1..k : j \in Closed}
<1>1. /\ Cardinality(opened(i - 1)) \in Nat /\ (i = 1 => Cardinality(opened(i - 1)) = 0)
      /\ Cardinality(opened(i)) = Cardinality(opened(i - 1)) + (IF i \in Opening THEN 1 ELSE 0)
  <2> HIDE DEF Opening
  <2> QED BY CountedUpTo
<1>2. /\ Cardinality(closed(i - 1)) \in Nat /\ (i = 1 => Cardinality(closed(i - 1)) = 0)
      /\ Cardinality(closed(i)) = Cardinality(closed(i - 1)) + (IF i \in Closed THEN 1 ELSE 0)
  <2> HIDE DEF Closed
  <2> QED BY CountedUpTo
<1>3. \A k \in Nat : /\ opened(k) = {j \in 1..k : tokens[j] \in {"(", "f("}}
                     /\ closed(k) = {j \in 1..k : tokens[j] = ")"}
  OBVIOUS
<1>4. i - 1 \in Nat /\ (i + 1) - 1 = i
  OBVIOUS
<1>5. Nested(tokens, i) = Cardinality(opened(i - 1)) - Cardinality(closed(i - 1))
  BY <1>3, <1>4 DEF Nested
<1>6. Nested(tokens, i + 1) = Cardinality(opened(i)) - Cardinality(closed(i))
  BY <1>3, <1>4 DEF Nested
<1>7. /\ i \in Opening <=> tokens[i] \in {"(", "f("}
      /\ i \in Closed <=> tokens[i] = ")"
  OBVIOUS
<1> HIDE DEF opened, closed, Opening, Closed
<1> QED
  BY <1>1, <1>2, <1>5, <1>6, <1>7 DEF Deeper
-----------------------------------------------------------------------------
(* Trees that stay trees. *)

LEMMA PartKept ==
  ASSUME NEW tokens, NEW more, NEW hi \in Nat, NEW lo \in 1..hi, \A i \in 1..hi : more[i] = tokens[i]
  PROVE  /\ \A i \in 1..(hi + 1) : Nested(more, i) = Nested(tokens, i)
         /\ Between(more, lo, hi) = Between(tokens, lo, hi) /\ Commas(more, lo, hi) = Commas(tokens, lo, hi)
<1>1. ASSUME NEW i \in 1..(hi + 1) PROVE Nested(more, i) = Nested(tokens, i)
  <2>1. \A j \in 1..(i - 1) : more[j] = tokens[j]
    OBVIOUS
  <2> QED BY <2>1, NestedSame
<1>2. \A i \in lo..hi : more[i] = tokens[i] /\ Nested(more, i) = Nested(tokens, i)
  BY <1>1
<1>3. Nested(more, lo) = Nested(tokens, lo)
  BY <1>1
<1> QED
  BY <1>1, <1>2, <1>3 DEF Between, Commas

LEMMA TreeKept ==
  ASSUME NEW tokens, NEW nodes, NEW T, NEW n, NEW hi \in Nat, NEW lo \in 1..hi, IsTree(tokens, nodes, T, n, lo, hi),
         NEW more, \A i \in 1..hi : more[i] = tokens[i],
         NEW all, all[n] = nodes[n],
         NEW U, T \subseteq U
  PROVE  IsTree(more, all, U, n, lo, hi)
<1>1. Between(more, lo, hi) = Between(tokens, lo, hi) /\ Commas(more, lo, hi) = Commas(tokens, lo, hi)
  BY PartKept
<1>2. more[lo] = tokens[lo] /\ more[hi] = tokens[hi] /\ \A i \in Between(tokens, lo, hi) : more[i] = tokens[i]
  BY DEF Between
<1>3. Negates(more, lo, hi) <=> Negates(tokens, lo, hi)
  BY <1>1, <1>2 DEF Negates
<1>4. ASSUME Splits(tokens, n, lo, hi) PROVE Splits(more, n, lo, hi)
  <2>1. n \in Between(tokens, lo, hi) /\ \A i \in Between(tokens, lo, hi) \ {n} : SplitsBefore(tokens, n, i)
    BY <1>4 DEF Splits
  <2>2. \A i \in Between(tokens, lo, hi) \ {n} : SplitsBefore(more, n, i)
    BY <1>2, <2>1 DEF SplitsBefore
  <2> QED BY <1>1, <2>1, <2>2 DEF Splits
<1> DEFINE arguments == nodes[n]
           whole == Between(tokens, lo, hi) = {}
           Divided == /\ \E cut \in [0..Len(arguments) -> lo..hi] :
                          /\ cut[0] = lo /\ cut[Len(arguments)] = hi
                          /\ {cut[k] : k \in 1..(Len(arguments) - 1)} = Commas(tokens, lo, hi)
                          /\ \A k \in 1..Len(arguments) : <<arguments[k], cut[k - 1] + 1, cut[k] - 1>> \in T
<1>5. \/ /\ Splits(tokens, n, lo, hi) /\ ~Negates(tokens, lo, hi)
         /\ Len(arguments) = 2 /\ <<arguments[1], lo, n - 1>> \in T /\ <<arguments[2], n + 1, hi>> \in T
      \/ /\ Negates(tokens, lo, hi) /\ n = lo
         /\ Len(arguments) = 1 /\ <<arguments[1], lo + 1, hi>> \in T
      \/ /\ whole /\ tokens[lo] = "(" /\ tokens[hi] = ")"
         /\ <<n, lo + 1, hi - 1>> \in T
      \/ whole /\ tokens[lo] = "f(" /\ tokens[hi] = ")" /\ n = lo /\ Divided
      \/ tokens[lo] = "operand" /\ lo = hi /\ n = lo /\ arguments = <<>>
  BY Zenon DEF IsTree
<1>6. all[n] = arguments
  OBVIOUS
<1> HIDE DEF arguments
<1>7. CASE whole /\ tokens[lo] = "f(" /\ tokens[hi] = ")" /\ n = lo /\ Divided
  <2>1. PICK cut \in [0..Len(arguments) -> lo..hi] :
          /\ cut[0] = lo /\ cut[Len(arguments)] = hi
          /\ {cut[k] : k \in 1..(Len(arguments) - 1)} = Commas(tokens, lo, hi)
          /\ \A k \in 1..Len(arguments) : <<arguments[k], cut[k - 1] + 1, cut[k] - 1>> \in T
    BY <1>7
  <2>2. \A k \in 1..Len(arguments) : <<arguments[k], cut[k - 1] + 1, cut[k] - 1>> \in U
    BY <2>1
  <2>3. {cut[k] : k \in 1..(Len(arguments) - 1)} = Commas(more, lo, hi)
    BY <1>1, <2>1
  <2>4. Between(more, lo, hi) = {} /\ more[lo] = "f(" /\ more[hi] = ")" /\ n = lo
    BY <1>1, <1>2, <1>7
  <2> QED BY <1>6, <2>1, <2>2, <2>3, <2>4, Zenon DEF IsTree
<1>8. CASE /\ Splits(tokens, n, lo, hi) /\ ~Negates(tokens, lo, hi)
           /\ Len(arguments) = 2 /\ <<arguments[1], lo, n - 1>> \in T /\ <<arguments[2], n + 1, hi>> \in T
  BY <1>3, <1>4, <1>6, <1>8 DEF IsTree
<1>9. CASE /\ Negates(tokens, lo, hi) /\ n = lo
           /\ Len(arguments) = 1 /\ <<arguments[1], lo + 1, hi>> \in T
  BY <1>3, <1>6, <1>9 DEF IsTree
<1>10. CASE /\ whole /\ tokens[lo] = "(" /\ tokens[hi] = ")"
            /\ <<n, lo + 1, hi - 1>> \in T
  BY <1>1, <1>2, <1>10 DEF IsTree
<1>11. CASE tokens[lo] = "operand" /\ lo = hi /\ n = lo /\ arguments = <<>>
  BY <1>2, <1>6, <1>11 DEF IsTree
<1> HIDE DEF Divided
<1> QED
  BY <1>5, <1>7, <1>8, <1>9, <1>10, <1>11

(* A node is not one that a call still makes: an operator has its arguments,   *)
(* and after a function's name its parenthesis has been closed.                *)
Finished(tokens, nodes, n) ==
  /\ tokens[n] \in Operators => nodes[n] # <<>>
  /\ tokens[n] = "f(" => \E i \in (n + 1)..(Len(tokens) + 1) : Nested(tokens, i) <= Nested(tokens, n)

(* T has trees of parts of the expression, and with each those that it is made of. *)
Built(tokens, nodes, T) ==
  \A n, lo, hi : <<n, lo, hi>> \in T =>
    /\ n \in 1..Len(tokens) /\ hi \in 1..Len(tokens) /\ lo \in 1..hi
    /\ IsTree(tokens, nodes, T, n, lo, hi)
    /\ Finished(tokens, nodes, n)

(* A tree that is made of those of U joins them; the others are kept.          *)
LEMMA BuiltMore ==
  ASSUME NEW tokens, NEW nodes, NEW T, Built(tokens, nodes, T), Len(tokens) \in Nat,
         NEW more, Len(more) \in Nat, Len(more) >= Len(tokens), \A i \in 1..Len(tokens) : more[i] = tokens[i],
         NEW all, \A n, lo, hi : <<n, lo, hi>> \in T => all[n] = nodes[n],
         NEW U, T \subseteq U,
         \A n, lo, hi : <<n, lo, hi>> \in U /\ <<n, lo, hi>> \notin T =>
           /\ n \in 1..Len(more) /\ hi \in 1..Len(more) /\ lo \in 1..hi
           /\ IsTree(more, all, U, n, lo, hi)
           /\ Finished(more, all, n)
  PROVE  Built(more, all, U)
<1>1. ASSUME NEW n, NEW lo, NEW hi, <<n, lo, hi>> \in T
      PROVE  /\ n \in 1..Len(more) /\ hi \in 1..Len(more) /\ lo \in 1..hi
             /\ IsTree(more, all, U, n, lo, hi)
             /\ Finished(more, all, n)
  <2>1. /\ n \in 1..Len(tokens) /\ hi \in 1..Len(tokens) /\ lo \in 1..hi
        /\ IsTree(tokens, nodes, T, n, lo, hi)
        /\ Finished(tokens, nodes, n)
    BY <1>1, Zenon DEF Built
  <2>2. IsTree(more, all, U, n, lo, hi)
    <3>1. hi \in Nat /\ all[n] = nodes[n] /\ \A i \in 1..hi : more[i] = tokens[i]
      BY <1>1, <2>1
    <3> QED BY <2>1, <3>1, TreeKept
  <2>3. more[n] = tokens[n] /\ all[n] = nodes[n] /\ n \in 1..(Len(tokens) + 1)
    BY <1>1, <2>1
  <2>4. ASSUME tokens[n] = "f("
        PROVE  \E i \in (n + 1)..(Len(more) + 1) : Nested(more, i) <= Nested(more, n)
    <3>1. PICK i \in (n + 1)..(Len(tokens) + 1) : Nested(tokens, i) <= Nested(tokens, n)
      BY <2>1, <2>4 DEF Finished
    <3>2. Nested(more, i) = Nested(tokens, i) /\ Nested(more, n) = Nested(tokens, n)
      <4>1. Len(tokens) \in 1..Len(tokens) /\ i \in 1..(Len(tokens) + 1)
        BY <2>1
      <4>2. \A k \in 1..(Len(tokens) + 1) : Nested(more, k) = Nested(tokens, k)
        BY <4>1, PartKept
      <4> QED BY <2>3, <4>1, <4>2
    <3>3. i \in (n + 1)..(Len(more) + 1)
      BY <2>1
    <3> QED BY <3>1, <3>2, <3>3
  <2>5. Finished(more, all, n)
    BY <2>1, <2>3, <2>4 DEF Finished
  <2>6. n \in 1..Len(more) /\ hi \in 1..Len(more) /\ lo \in 1..hi
    BY <2>1
  <2> QED BY <2>2, <2>5, <2>6
<1> QED
  BY <1>1, Zenon DEF Built
-----------------------------------------------------------------------------
(* What the stacks of a call have of the expression. *)

(* Where the operand after the k-th operator starts, or the first. *)
Start(ops, b, k) == IF k = 0 THEN b ELSE ops[k] + 1

LevelOperators(tokens, D, lo, hi) == {i \in lo..hi : tokens[i] \in Operators /\ Nested(tokens, i) = D}

(* An operator on the stack of a call that reads the tokens b..z-1: its left   *)
(* operand is a tree, and it goes after the operators there and before those   *)
(* that follow.                                                                *)
Waiting(T, tokens, nodes, arguments, ops, weight, D, b, z, k) ==
  LET op == ops[k]
      s == Start(ops, b, k - 1)
  IN  /\ s <= op /\ op < z /\ Nested(tokens, op) = D /\ nodes[op] = <<>>
      /\ tokens[op] = "not" => op = s
      /\ tokens[op] # "not" => <<arguments[weight[k]], s, op - 1>> \in T
      /\ \A i \in LevelOperators(tokens, D, s, op - 1) : GoesFirst(tokens[i], tokens[op])
      /\ \A i \in LevelOperators(tokens, D, op + 1, z - 1) : ~GoesFirst(tokens[op], tokens[i])

(* The last argument, if extra is 1, is the tree of what follows the last of   *)
(* the first j operators; else nothing follows.                                *)
Last(T, arguments, ops, weight, b, z, j, extra) ==
  /\ Len(arguments) = weight[j] + extra
  /\ extra = 0 => Start(ops, b, j) = z
  /\ extra = 1 => <<arguments[weight[j] + 1], Start(ops, b, j), z - 1>> \in T

IsComma(tokens, D, i) == tokens[i] = "," /\ Nested(tokens, i) = D

(* A call reads from the token b on; the arguments of the function before it   *)
(* are trees, between the commas.                                              *)
Begins(T, tokens, nodes, f, D, b) ==
  /\ f.context = "top" => b = 1
  /\ f.context = "(" => b = f.at + 1
  /\ f.context = "f(" =>
       \E cut \in [0..Len(nodes[f.at]) -> Nat] :
         /\ cut[0] = f.at /\ b = cut[Len(nodes[f.at])] + 1
         /\ {cut[k] : k \in 1..Len(nodes[f.at])} = {i \in (f.at + 1)..(b - 1) : IsComma(tokens, D, i)}
         /\ \A k \in 1..Len(nodes[f.at]) : <<nodes[f.at][k], cut[k - 1] + 1, cut[k] - 1>> \in T

(* The tokens before z that a call at level D has read. *)
Inner(tokens, f, D, b, z) ==
  /\ f.at < b /\ b <= z /\ Nested(tokens, b) = D /\ Nested(tokens, z) = D
  /\ f.context # "top" => f.at >= 1 /\ tokens[f.at] = f.context /\ Nested(tokens, f.at) = D - 1
  /\ \A i \in (f.at + 1)..z : Nested(tokens, i) >= D
  /\ \A i \in b..(z - 1) : ~IsComma(tokens, D, i)

(* The stacks of a call have what its operators wait for, and extra more. *)
CallAt(T, tokens, nodes, f, D, z, extra, b, weight) ==
  /\ Weighs(tokens, f.operators, weight) /\ weight[0] = 0
  /\ Begins(T, tokens, nodes, f, D, b) /\ Inner(tokens, f, D, b, z)
  /\ \A k \in 1..Len(f.operators) : Waiting(T, tokens, nodes, f.arguments, f.operators, weight, D, b, z, k)
  /\ Last(T, f.arguments, f.operators, weight, b, z, Len(f.operators), extra)
  /\ LevelOperators(tokens, D, Start(f.operators, b, Len(f.operators)), z - 1) = {}

CallFits(T, tokens, nodes, f, D, z, extra) ==
  \E b \in Nat : \E weight : CallAt(T, tokens, nodes, f, D, z, extra, b, weight)

(* The parser has built trees, and each call fits what it has read: the one    *)
(* innermost up to z, the others up to the parenthesis of the next.            *)
Parses(T, tokens, nodes, calls, z, due) ==
  LET L == Len(calls)
  IN  /\ Built(tokens, nodes, T)
      /\ \A d \in 1..(L - 1) : CallFits(T, tokens, nodes, calls[d], d - 1, calls[d + 1].at, 0)
      /\ CallFits(T, tokens, nodes, calls[L], L - 1, z, IF due THEN 0 ELSE 1)
      /\ \A d, e \in 1..L : d < e => calls[d].at < calls[e].at

LEMMA LevelKept ==
  ASSUME NEW tokens, NEW more, NEW D, NEW lo \in Nat, NEW hi \in Int, lo >= 1, \A i \in 1..hi : more[i] = tokens[i]
  PROVE  LevelOperators(more, D, lo, hi) = LevelOperators(tokens, D, lo, hi)
<1>1. ASSUME NEW i \in lo..hi PROVE more[i] = tokens[i] /\ Nested(more, i) = Nested(tokens, i)
  <2>1. \A j \in 1..(i - 1) : more[j] = tokens[j]
    OBVIOUS
  <2> QED BY <2>1, NestedSame
<1> QED
  BY <1>1 DEF LevelOperators

LEMMA StartsAt ==
  ASSUME NEW ops \in Seq(Nat), NEW b \in Nat, b >= 1, NEW k \in 0..Len(ops)
  PROVE  Start(ops, b, k) \in Nat /\ Start(ops, b, k) >= 1
<1>1. k # 0 => ops[k] \in Nat
  OBVIOUS
<1> QED
  BY <1>1 DEF Start

LEMMA WaitingKept ==
  ASSUME NEW T, NEW tokens, NEW nodes, NEW arguments, NEW ops \in Seq(Nat), NEW weight, NEW D, NEW b \in Nat, b >= 1,
         NEW z \in Nat, NEW k \in 1..Len(ops), Waiting(T, tokens, nodes, arguments, ops, weight, D, b, z, k),
         NEW U, T \subseteq U, NEW more, \A i \in 1..(z - 1) : more[i] = tokens[i],
         NEW all, all[ops[k]] = nodes[ops[k]],
         NEW others, tokens[ops[k]] # "not" => others[weight[k]] = arguments[weight[k]]
  PROVE  Waiting(U, more, all, others, ops, weight, D, b, z, k)
<1> DEFINE op == ops[k]
           s == Start(ops, b, k - 1)
<1>1. /\ s <= op /\ op < z /\ Nested(tokens, op) = D /\ nodes[op] = <<>>
      /\ tokens[op] = "not" => op = s
      /\ tokens[op] # "not" => <<arguments[weight[k]], s, op - 1>> \in T
      /\ \A i \in LevelOperators(tokens, D, s, op - 1) : GoesFirst(tokens[i], tokens[op])
      /\ \A i \in LevelOperators(tokens, D, op + 1, z - 1) : ~GoesFirst(tokens[op], tokens[i])
  BY DEF Waiting
<1>2. op \in Nat /\ s \in Nat /\ s >= 1
  <2>1. k - 1 \in 0..Len(ops) /\ op \in Nat
    OBVIOUS
  <2> HIDE DEF op
  <2>2. s \in Nat /\ s >= 1
    BY <2>1, StartsAt
  <2> QED BY <2>1, <2>2
<1> HIDE DEF op, s
<1>3. more[op] = tokens[op] /\ Nested(more, op) = D
  <2>1. op \in 1..(z - 1) /\ \A j \in 1..(op - 1) : more[j] = tokens[j]
    BY <1>1, <1>2
  <2> QED BY <1>1, <2>1, NestedSame
<1>4. LevelOperators(more, D, s, op - 1) = LevelOperators(tokens, D, s, op - 1)
  <2>1. op - 1 \in Int /\ \A i \in 1..(op - 1) : more[i] = tokens[i]
    BY <1>1, <1>2
  <2> QED BY <1>2, <2>1, LevelKept
<1>5. LevelOperators(more, D, op + 1, z - 1) = LevelOperators(tokens, D, op + 1, z - 1)
  <2>1. op + 1 \in Nat /\ op + 1 >= 1 /\ z - 1 \in Int
    BY <1>2
  <2> QED BY <2>1, LevelKept
<1>6. \A i \in LevelOperators(tokens, D, s, op - 1) : more[i] = tokens[i]
  BY <1>1, <1>2 DEF LevelOperators
<1>7. \A i \in LevelOperators(tokens, D, op + 1, z - 1) : more[i] = tokens[i]
  BY <1>1, <1>2 DEF LevelOperators
<1>8. /\ \A i \in LevelOperators(more, D, s, op - 1) : GoesFirst(more[i], more[op])
      /\ \A i \in LevelOperators(more, D, op + 1, z - 1) : ~GoesFirst(more[op], more[i])
  BY <1>1, <1>3, <1>4, <1>5, <1>6, <1>7
<1>9. more[op] # "not" => <<others[weight[k]], s, op - 1>> \in U
  BY <1>1, <1>3 DEF op
<1> QED
  BY <1>1, <1>3, <1>8, <1>9 DEF Waiting, op, s

LEMMA BeginsKept ==
  ASSUME NEW T, NEW tokens, NEW nodes, NEW f \in Calls, NEW D, NEW b \in Nat, f.at < b, Begins(T, tokens, nodes, f, D, b),
         NEW U, T \subseteq U, NEW more, \A i \in 1..(b - 1) : more[i] = tokens[i],
         NEW all, f.context = "f(" => all[f.at] = nodes[f.at]
  PROVE  Begins(U, more, all, f, D, b)
<1>1. CASE f.context # "f("
  BY <1>1 DEF Begins
<1>2. CASE f.context = "f("
  <2> DEFINE at == f.at
             q == nodes[at]
  <2>1. at \in Nat /\ at < b /\ all[at] = q
    BY <1>2 DEF Calls
  <2>2. PICK cut \in [0..Len(q) -> Nat] :
          /\ cut[0] = at /\ b = cut[Len(q)] + 1
          /\ {cut[k] : k \in 1..Len(q)} = {i \in (at + 1)..(b - 1) : IsComma(tokens, D, i)}
          /\ \A k \in 1..Len(q) : <<q[k], cut[k - 1] + 1, cut[k] - 1>> \in T
    BY <1>2, Zenon DEF Begins
  <2> HIDE DEF q, at
  <2>3. ASSUME NEW i \in (at + 1)..(b - 1) PROVE IsComma(more, D, i) <=> IsComma(tokens, D, i)
    <3>1. more[i] = tokens[i] /\ \A j \in 1..(i - 1) : more[j] = tokens[j]
      BY <2>1
    <3> QED BY <3>1, NestedSame DEF IsComma
  <2>4. {i \in (at + 1)..(b - 1) : IsComma(more, D, i)} = {i \in (at + 1)..(b - 1) : IsComma(tokens, D, i)}
    BY <2>3
  <2>5. \A k \in 1..Len(q) : <<q[k], cut[k - 1] + 1, cut[k] - 1>> \in U
    BY <2>2
  <2>6. {cut[k] : k \in 1..Len(q)} = {i \in (at + 1)..(b - 1) : IsComma(more, D, i)}
    BY <2>2, <2>4
  <2> HIDE DEF IsComma
  <2> QED BY <1>2, <2>1, <2>2, <2>5, <2>6, Zenon DEF Begins, at
<1> QED
  BY <1>1, <1>2

LEMMA InnerKept ==
  ASSUME NEW tokens, NEW f \in Calls, NEW D, NEW b \in Nat, NEW z \in Nat, Inner(tokens, f, D, b, z),
         NEW more, \A i \in 1..(z - 1) : more[i] = tokens[i]
  PROVE  Inner(more, f, D, b, z)
<1>1. f.at \in Nat /\ f.at < b /\ b <= z
  BY DEF Calls, Inner
<1>2. ASSUME NEW i \in 1..z PROVE Nested(more, i) = Nested(tokens, i)
  <2>1. \A j \in 1..(i - 1) : more[j] = tokens[j]
    OBVIOUS
  <2> QED BY <2>1, NestedSame
<1>3. ASSUME NEW i \in b..(z - 1) PROVE ~IsComma(more, D, i)
  <2>1. i \in 1..z /\ i \in 1..(z - 1)
    BY <1>1
  <2> QED BY <1>2, <2>1 DEF IsComma, Inner
<1>4. Nested(more, b) = D /\ Nested(more, z) = D /\ \A i \in (f.at + 1)..z : Nested(more, i) >= D
  <2>1. b \in 1..z /\ z \in 1..z /\ \A i \in (f.at + 1)..z : i \in 1..z
    BY <1>1
  <2> QED BY <1>2, <2>1 DEF Inner
<1>5. f.context # "top" => f.at >= 1 /\ more[f.at] = f.context /\ Nested(more, f.at) = D - 1
  <2>1. f.at >= 1 => f.at \in 1..z /\ f.at \in 1..(z - 1)
    BY <1>1
  <2> QED BY <1>2, <2>1 DEF Inner
<1> QED
  BY <1>1, <1>3, <1>4, <1>5 DEF Inner

LEMMA LastKept ==
  ASSUME NEW T, NEW U, T \subseteq U, NEW arguments, NEW ops, NEW weight, NEW b, NEW z, NEW j, NEW extra,
         Last(T, arguments, ops, weight, b, z, j, extra)
  PROVE  Last(U, arguments, ops, weight, b, z, j, extra)
BY DEF Last

LEMMA WeightAt ==
  ASSUME NEW tokens, NEW ops \in Seq(Nat), NEW weight, Weighs(tokens, ops, weight), NEW k \in 1..Len(ops)
  PROVE  /\ weight[k - 1] \in Nat /\ weight[k] \in Nat
         /\ weight[k] = weight[k - 1] + (IF tokens[ops[k]] = "not" THEN 0 ELSE 1)
<1>1. k - 1 \in 0..Len(ops) /\ k \in 0..Len(ops)
  OBVIOUS
<1>2. weight[k - 1] \in Nat /\ weight[k] \in Nat
  BY <1>1 DEF Weighs
<1>3. weight[k] = weight[k - 1] + number_args(tokens[ops[k]]) - 1
  BY DEF Weighs
<1> QED
  BY <1>2, <1>3 DEF number_args

LEMMA WeightsGrow ==
  ASSUME NEW tokens, NEW ops \in Seq(Nat), NEW weight, Weighs(tokens, ops, weight)
  PROVE  \A k \in 0..Len(ops) : weight[k] \in Nat /\ \A j \in 0..k : weight[j] <= weight[k]
<1>1. \A k \in 0..Len(ops) : weight[k] \in Nat
  BY DEF Weighs
<1> DEFINE S == {k \in Nat : k <= Len(ops) => \A j \in 0..k : weight[j] <= weight[k]}
<1>2. 0 \in S
  <2>1. 0 \in 0..Len(ops)
    OBVIOUS
  <2> QED BY <1>1, <2>1
<1>3. ASSUME NEW k \in S PROVE k + 1 \in S
  <2>1. SUFFICES ASSUME k + 1 <= Len(ops), NEW j \in 0..(k + 1) PROVE weight[j] <= weight[k + 1]
    BY <1>3
  <2>2. k + 1 \in 1..Len(ops) /\ (k + 1) - 1 = k /\ j \in 0..Len(ops)
    BY <1>3, <2>1
  <2>3. weight[k + 1] >= weight[k] /\ weight[k + 1] \in Nat /\ weight[k] \in Nat
    <3> DEFINE l == k + 1
    <3>1. l \in 1..Len(ops) /\ l - 1 = k
      BY <2>2
    <3> HIDE DEF l
    <3>2. weight[l - 1] \in Nat /\ weight[l] \in Nat /\ weight[l] = weight[l - 1] + (IF tokens[ops[l]] = "not" THEN 0 ELSE 1)
      BY <3>1, WeightAt
    <3>3. weight[l] >= weight[k] /\ weight[l] \in Nat /\ weight[k] \in Nat
      BY <3>1, <3>2
    <3> QED BY <3>3 DEF l
  <2>4. weight[j] \in Nat
    BY <1>1, <2>2
  <2>5. CASE j = k + 1
    BY <2>3, <2>5
  <2>6. CASE j # k + 1
    <3>1. weight[j] <= weight[k]
      BY <1>3, <2>1, <2>2, <2>6
    <3> QED BY <2>3, <2>4, <3>1
  <2> QED BY <2>5, <2>6
<1>4. S = Nat
  <2> HIDE DEF S
  <2>1. S \in SUBSET Nat
    BY DEF S
  <2> QED BY <1>2, <1>3, <2>1, CountingUp
<1> QED
  BY <1>1, <1>4

LEMMA OperatorsAt ==
  ASSUME NEW T, NEW tokens, NEW nodes, NEW f \in Calls, NEW D, NEW z \in Nat, NEW extra, NEW b \in Nat, NEW weight,
         CallAt(T, tokens, nodes, f, D, z, extra, b, weight)
  PROVE  /\ f.operators \in Seq(Nat) /\ f.at \in Nat /\ f.at < b /\ b <= z /\ b >= 1
         /\ \A k \in 1..Len(f.operators) : f.operators[k] \in b..(z - 1)
         /\ \A k, l \in 1..Len(f.operators) : k < l => f.operators[k] < f.operators[l]
<1> DEFINE ops == f.operators
<1>1. ops \in Seq(Nat) /\ f.at \in Nat /\ f.at < b /\ b <= z /\ b >= 1
  BY DEF Calls, CallAt, Inner
<1>2. ASSUME NEW k \in 1..Len(ops) PROVE ops[k] \in Nat /\ Start(ops, b, k - 1) <= ops[k] /\ ops[k] < z
  <2>1. ops[k] \in Nat
    BY <1>1
  <2>2. Waiting(T, tokens, nodes, f.arguments, ops, weight, D, b, z, k)
    BY DEF CallAt
  <2> HIDE DEF ops
  <2> QED BY <2>1, <2>2 DEF Waiting
<1> HIDE DEF ops
<1>3. \A k \in 1..Len(ops) : k - 1 # 0 => ops[k - 1] < ops[k]
  <2>1. ASSUME NEW k \in 1..Len(ops), k - 1 # 0 PROVE ops[k - 1] < ops[k]
    <3>1. Start(ops, b, k - 1) = ops[k - 1] + 1 /\ k - 1 \in 1..Len(ops)
      BY <2>1 DEF Start
    <3>2. ops[k - 1] \in Nat /\ ops[k] \in Nat /\ Start(ops, b, k - 1) <= ops[k]
      BY <1>2, <3>1
    <3> QED BY <3>1, <3>2
  <2> QED BY <2>1
<1> DEFINE S == {k \in Nat : k \in 1..Len(ops) => ops[k] >= b /\ \A j \in 1..(k - 1) : ops[j] < ops[k]}
<1>4. 0 \in S
  OBVIOUS
<1>5. ASSUME NEW k \in S PROVE k + 1 \in S
  <2>1. SUFFICES ASSUME k + 1 \in 1..Len(ops) PROVE ops[k + 1] >= b /\ \A j \in 1..k : ops[j] < ops[k + 1]
    <3>1. k \in Nat /\ (k + 1) - 1 = k
      BY <1>5
    <3> QED BY <2>1, <3>1
  <2>2. CASE k = 0
    <3>1. Start(ops, b, k) = b /\ (k + 1) - 1 = k
      BY <2>2 DEF Start
    <3> QED BY <1>2, <2>1, <2>2, <3>1
  <2>3. CASE k # 0
    <3>1. k \in 1..Len(ops) /\ (k + 1) - 1 = k
      BY <1>5, <2>1, <2>3
    <3>2. ops[k] < ops[k + 1] /\ ops[k] >= b /\ \A j \in 1..(k - 1) : ops[j] < ops[k]
      BY <1>3, <1>5, <2>1, <3>1
    <3>3. \A j \in 1..Len(ops) : ops[j] \in Nat
      BY <1>2
    <3>4. ASSUME NEW j \in 1..k PROVE ops[j] < ops[k + 1]
      <4>1. CASE j = k
        BY <3>2, <4>1
      <4>2. CASE j # k
        <5>1. j \in 1..(k - 1) /\ j \in 1..Len(ops)
          BY <3>1, <4>2
        <5> QED BY <2>1, <3>1, <3>2, <3>3, <5>1
      <4> QED BY <4>1, <4>2
    <3> QED BY <2>1, <3>1, <3>2, <3>3, <3>4
  <2> QED BY <2>2, <2>3
<1>6. S = Nat
  <2> HIDE DEF S
  <2>1. S \in SUBSET Nat
    BY DEF S
  <2> QED BY <1>4, <1>5, <2>1, CountingUp
<1>7. ASSUME NEW k \in 1..Len(ops) PROVE ops[k] \in b..(z - 1)
  <2>1. ops[k] >= b
    BY <1>6
  <2> QED BY <1>1, <1>2, <2>1
<1>8. ASSUME NEW k \in 1..Len(ops), NEW l \in 1..Len(ops), k < l PROVE ops[k] < ops[l]
  <2>1. l \in S /\ k \in 1..(l - 1)
    BY <1>6, <1>8
  <2> QED BY <2>1
<1> QED
  BY <1>1, <1>7, <1>8 DEF ops
(* Nothing that a call has is changed by what is read and built after it.      *)
LEMMA CallKept ==
  ASSUME NEW T, NEW tokens, NEW nodes, NEW f \in Calls, NEW D, NEW z \in Nat, NEW extra,
         CallFits(T, tokens, nodes, f, D, z, extra),
         NEW U, T \subseteq U, NEW more, \A i \in 1..(z - 1) : more[i] = tokens[i],
         NEW all, \A i \in 1..(z - 1) : all[i] = nodes[i]
  PROVE  CallFits(U, more, all, f, D, z, extra)
<1> DEFINE ops == f.operators
<1>1. PICK b \in Nat : \E weight : CallAt(T, tokens, nodes, f, D, z, extra, b, weight)
  BY DEF CallFits
<1>2. PICK weight : CallAt(T, tokens, nodes, f, D, z, extra, b, weight)
  BY <1>1
<1>3. /\ ops \in Seq(Nat) /\ f.at \in Nat /\ f.at < b /\ b <= z /\ b >= 1
      /\ \A k \in 1..Len(ops) : ops[k] \in b..(z - 1)
  BY <1>2, OperatorsAt
<1>4. \A k \in 1..Len(ops) : ops[k] \in 1..(z - 1)
  BY <1>3
<1>4a. /\ Weighs(tokens, ops, weight) /\ weight[0] = 0
       /\ Begins(T, tokens, nodes, f, D, b) /\ Inner(tokens, f, D, b, z)
       /\ \A k \in 1..Len(ops) : Waiting(T, tokens, nodes, f.arguments, ops, weight, D, b, z, k)
       /\ Last(T, f.arguments, ops, weight, b, z, Len(ops), extra)
       /\ LevelOperators(tokens, D, Start(ops, b, Len(ops)), z - 1) = {}
  BY <1>2 DEF CallAt
<1> HIDE DEF ops
<1>5. Weighs(more, ops, weight)
  <2>1. \A k \in 1..Len(ops) : more[ops[k]] = tokens[ops[k]]
    BY <1>4
  <2> QED BY <1>4a, <2>1 DEF Weighs
<1>6. Begins(U, more, all, f, D, b)
  <2>1. \A i \in 1..(b - 1) : more[i] = tokens[i]
    BY <1>3
  <2>2. f.context = "f(" => all[f.at] = nodes[f.at]
    BY <1>4a, <1>3 DEF Inner
  <2> QED BY <1>4a, <1>3, <2>1, <2>2, BeginsKept
<1>7. Inner(more, f, D, b, z)
  BY <1>4a, InnerKept
<1>8. ASSUME NEW k \in 1..Len(ops) PROVE Waiting(U, more, all, f.arguments, ops, weight, D, b, z, k)
  <2>1. /\ Waiting(T, tokens, nodes, f.arguments, ops, weight, D, b, z, k)
        /\ all[ops[k]] = nodes[ops[k]]
    BY <1>4a, <1>4
  <2> QED BY <1>3, <2>1, WaitingKept, SMTT(30)
<1>9. Last(U, f.arguments, ops, weight, b, z, Len(ops), extra)
  BY <1>4a, LastKept
<1>10. LevelOperators(more, D, Start(ops, b, Len(ops)), z - 1) = {}
  <2>1. Len(ops) \in 0..Len(ops) /\ z - 1 \in Int
    BY <1>3
  <2>2. Start(ops, b, Len(ops)) \in Nat /\ Start(ops, b, Len(ops)) >= 1
    BY <1>3, <2>1, StartsAt
  <2> QED BY <1>4a, <2>1, <2>2, LevelKept
<1> QED
  BY <1>4a, <1>5, <1>6, <1>7, <1>8, <1>9, <1>10, Zenon DEF CallFits, CallAt, ops

(* A part without operators or commas at the call's level. *)
Hidden(tokens, D, z, hi) ==
  /\ \A i \in z..hi : ~IsComma(tokens, D, i) /\ ~(tokens[i] \in Operators /\ Nested(tokens, i) = D)
  /\ \A i \in z..(hi + 1) : Nested(tokens, i) >= D
  /\ Nested(tokens, hi + 1) = D

(* A call that waits for an operand is given one, the tree of the tokens from z. *)
LEMMA OperandGiven ==
  ASSUME NEW T, NEW tokens, NEW nodes, NEW f \in Calls, NEW D, NEW z \in Nat, CallFits(T, tokens, nodes, f, D, z, 0),
         NEW hi \in Nat, hi >= z, Hidden(tokens, D, z, hi),
         NEW node \in Nat, <<node, z, hi>> \in T,
         NEW g, g.context = f.context, g.at = f.at, g.operators = f.operators, g.arguments = Append(f.arguments, node)
  PROVE  CallFits(T, tokens, nodes, g, D, hi + 1, 1)
<1> DEFINE ops == f.operators
           q == f.arguments
           r == Append(q, node)
           m == Len(ops)
<1>0. PICK b \in Nat : \E weight : CallAt(T, tokens, nodes, f, D, z, 0, b, weight)
  BY DEF CallFits
<1>1. PICK weight : CallAt(T, tokens, nodes, f, D, z, 0, b, weight)
  BY <1>0
<1>2. /\ ops \in Seq(Nat) /\ f.at \in Nat /\ f.at < b /\ b <= z /\ b >= 1
      /\ \A k \in 1..m : ops[k] \in b..(z - 1)
  BY <1>1, OperatorsAt
<1>3. /\ Weighs(tokens, ops, weight) /\ weight[0] = 0
      /\ Begins(T, tokens, nodes, f, D, b) /\ Inner(tokens, f, D, b, z)
      /\ \A k \in 1..m : Waiting(T, tokens, nodes, q, ops, weight, D, b, z, k)
      /\ Last(T, q, ops, weight, b, z, m, 0)
      /\ LevelOperators(tokens, D, Start(ops, b, m), z - 1) = {}
  BY <1>1 DEF CallAt
<1>4. q \in Seq(Nat) /\ m \in Nat /\ m \in 0..m
  BY <1>2 DEF Calls
<1>5. Len(q) = weight[m] /\ Start(ops, b, m) = z /\ weight[m] \in Nat
  <2>1. weight[m] \in Nat
    BY <1>2, <1>3, <1>4, WeightsGrow
  <2> QED BY <1>3, <2>1 DEF Last
<1> HIDE DEF ops, q, m
<1>6. Len(r) = weight[m] + 1 /\ r[weight[m] + 1] = node /\ \A i \in 1..weight[m] : r[i] = q[i]
  BY <1>4, <1>5
<1> HIDE DEF r
<1>7. ASSUME NEW lo \in Nat PROVE LevelOperators(tokens, D, lo, hi) = LevelOperators(tokens, D, lo, z - 1)
  <2>1. \A i \in lo..hi : tokens[i] \in Operators /\ Nested(tokens, i) = D => i \in lo..(z - 1)
    BY DEF Hidden
  <2>2. \A i \in lo..(z - 1) : i \in lo..hi
    OBVIOUS
  <2> QED BY <2>1, <2>2 DEF LevelOperators
<1>8. ASSUME NEW k \in 1..m PROVE Waiting(T, tokens, nodes, r, ops, weight, D, b, hi + 1, k)
  <2> DEFINE op == ops[k]
             s == Start(ops, b, k - 1)
  <2>1. /\ s <= op /\ op < z /\ Nested(tokens, op) = D /\ nodes[op] = <<>>
        /\ tokens[op] = "not" => op = s
        /\ tokens[op] # "not" => <<q[weight[k]], s, op - 1>> \in T
        /\ \A i \in LevelOperators(tokens, D, s, op - 1) : GoesFirst(tokens[i], tokens[op])
        /\ \A i \in LevelOperators(tokens, D, op + 1, z - 1) : ~GoesFirst(tokens[op], tokens[i])
    <3>1. Waiting(T, tokens, nodes, q, ops, weight, D, b, z, k)
      BY <1>3
    <3> QED BY <3>1, Zenon DEF Waiting
  <2>2. op \in Nat
    BY <1>2 DEF m
  <2> HIDE DEF op, s
  <2>3. op < hi + 1 /\ (hi + 1) - 1 = hi
    BY <2>1, <2>2
  <2>4. LevelOperators(tokens, D, op + 1, hi) = LevelOperators(tokens, D, op + 1, z - 1)
    BY <1>7, <2>2
  <2>5. ASSUME tokens[op] # "not" PROVE r[weight[k]] = q[weight[k]]
    <3>1. k \in 1..Len(ops) /\ k \in 0..m /\ k \in 0..Len(ops)
      BY <1>4 DEF m
    <3>1a. /\ weight[k - 1] \in Nat /\ weight[k] \in Nat
           /\ weight[k] = weight[k - 1] + (IF tokens[ops[k]] = "not" THEN 0 ELSE 1)
      BY <1>2, <1>3, <3>1, WeightAt
    <3>2. weight[k] = weight[k - 1] + 1 /\ weight[k - 1] \in Nat /\ weight[k] \in Nat
      BY <2>5, <3>1a DEF op
    <3>3. weight[k] <= weight[m]
      BY <1>2, <1>3, <1>4, <3>1, WeightsGrow DEF m
    <3>4. weight[k] \in 1..weight[m]
      BY <1>5, <3>2, <3>3
    <3> QED BY <1>6, <3>4
  <2> QED BY <2>1, <2>3, <2>4, <2>5 DEF Waiting, op, s
<1>9. Last(T, r, ops, weight, b, hi + 1, m, 1)
  <2>1. (hi + 1) - 1 = hi
    OBVIOUS
  <2> QED BY <1>5, <1>6, <2>1 DEF Last
<1>10. Inner(tokens, g, D, b, hi + 1)
  <2>1. ASSUME NEW i \in (f.at + 1)..(hi + 1) PROVE Nested(tokens, i) >= D
    <3>1. i \in (f.at + 1)..z \/ i \in z..(hi + 1)
      BY <1>2
    <3> QED BY <1>3, <3>1 DEF Inner, Hidden
  <2>2. ASSUME NEW i \in b..hi PROVE ~IsComma(tokens, D, i)
    <3>1. i \in b..(z - 1) \/ i \in z..hi
      BY <1>2
    <3> QED BY <1>3, <3>1 DEF Inner, Hidden
  <2>3. b <= hi + 1 /\ (hi + 1) - 1 = hi
    BY <1>2
  <2> QED BY <1>2, <1>3, <2>1, <2>2, <2>3 DEF Inner, Hidden
<1>11. Begins(T, tokens, nodes, g, D, b)
  BY <1>3 DEF Begins
<1>12. LevelOperators(tokens, D, Start(ops, b, m), (hi + 1) - 1) = {}
  <2>1. (hi + 1) - 1 = hi
    OBVIOUS
  <2> QED BY <1>3, <1>5, <1>7, <2>1
<1>13. CallAt(T, tokens, nodes, g, D, hi + 1, 1, b, weight)
  BY <1>3, <1>8, <1>9, <1>10, <1>11, <1>12 DEF CallAt, ops, q, r, m
<1> QED
  BY <1>13 DEF CallFits

-----------------------------------------------------------------------------
(* An operator takes its arguments. *)

LEMMA OperatorIsTree ==
  ASSUME NEW tokens, NEW all, NEW T, NEW D, NEW op \in Nat, NEW s \in Nat, NEW z \in Nat, s <= op, op < z,
         tokens[op] \in Operators, tokens[s] \in Tokens, Nested(tokens, op) = D, Nested(tokens, s) = D,
         tokens[op] = "not" => op = s /\ Len(all[op]) = 1 /\ <<all[op][1], op + 1, z - 1>> \in T,
         tokens[op] # "not" =>
           s < op /\ Len(all[op]) = 2 /\ <<all[op][1], s, op - 1>> \in T /\ <<all[op][2], op + 1, z - 1>> \in T,
         \A i \in LevelOperators(tokens, D, s, op - 1) : GoesFirst(tokens[i], tokens[op]),
         \A i \in LevelOperators(tokens, D, op + 1, z - 1) : ~GoesFirst(tokens[op], tokens[i])
  PROVE  IsTree(tokens, all, T, op, s, z - 1)
<1> DEFINE B == Between(tokens, s, z - 1)
<1>1. ASSUME NEW i \in B, i < op PROVE tokens[i] \in Operators /\ GoesFirst(tokens[i], tokens[op])
  <2>1. i \in LevelOperators(tokens, D, s, op - 1)
    BY <1>1 DEF Between, Binary, LevelOperators
  <2> QED BY <2>1 DEF LevelOperators
<1>2. ASSUME NEW i \in B, i > op PROVE tokens[i] \in Operators /\ ~GoesFirst(tokens[op], tokens[i])
  <2>1. i \in LevelOperators(tokens, D, op + 1, z - 1)
    BY <1>2 DEF Between, Binary, LevelOperators
  <2> QED BY <2>1 DEF LevelOperators
<1>3. \A i \in B : i \in Nat /\ i >= s /\ tokens[i] # "not"
  BY DEF Between, Binary
<1>4. CASE tokens[op] = "not"
  <2>1. ASSUME NEW i \in B PROVE precedence[tokens[i]] > precedence["not"]
    <3>1. i > op
      BY <1>3, <1>4
    <3>2. tokens[i] \in Operators /\ ~GoesFirst(tokens[op], tokens[i])
      BY <1>2, <3>1
    <3>3. precedence[tokens[op]] < precedence[tokens[i]] \/ (precedence[tokens[op]] = precedence[tokens[i]] /\ precedence[tokens[i]] = 5)
      BY <3>2, GoesFirstMeans
    <3> QED BY <1>4, <3>2, <3>3, Precedences
  <2>2. Negates(tokens, s, z - 1)
    BY <1>4, <2>1 DEF Negates
  <2> HIDE DEF B
  <2> QED BY <1>4, <2>2 DEF IsTree
<1>5. CASE tokens[op] # "not"
  <2>1. op \in B
    BY <1>5 DEF Between, Binary
  <2>2. ASSUME NEW i \in B \ {op} PROVE SplitsBefore(tokens, op, i)
    <3>1. CASE i < op
      <4>1. precedence[tokens[i]] > precedence[tokens[op]] \/ (precedence[tokens[i]] = precedence[tokens[op]] /\ precedence[tokens[op]] # 5)
        BY <1>1, <3>1, GoesFirstMeans
      <4>2. tokens[i] \in Operators /\ ~(op < i)
        BY <1>1, <1>3, <3>1
      <4> QED BY <3>1, <4>1, <4>2, Precedences DEF SplitsBefore
    <3>2. CASE i > op
      <4>1. precedence[tokens[op]] < precedence[tokens[i]] \/ (precedence[tokens[op]] = precedence[tokens[i]] /\ precedence[tokens[i]] = 5)
        BY <1>2, <3>2, GoesFirstMeans
      <4> QED BY <1>2, <3>2, <4>1, Precedences DEF SplitsBefore
    <3> QED BY <1>3, <3>1, <3>2
  <2>3. Splits(tokens, op, s, z - 1)
    BY <2>1, <2>2 DEF Splits
  <2>4. ASSUME Negates(tokens, s, z - 1) PROVE FALSE
    <3>1. tokens[s] = "not" /\ precedence[tokens[op]] > 4
      BY <2>1, <2>4, Precedences DEF Negates
    <3>2. s \in LevelOperators(tokens, D, s, op - 1)
      <4>1. tokens[s] \in Operators /\ s \in s..(op - 1)
        BY <1>5, <3>1 DEF Tokens
      <4> QED BY <4>1 DEF LevelOperators
    <3>3. GoesFirst(tokens[s], tokens[op])
      BY <3>2
    <3> QED BY <3>1, <3>2, <3>3, Precedences, GoesFirstMeans DEF LevelOperators
  <2> HIDE DEF B
  <2> QED BY <1>5, <2>3, <2>4 DEF IsTree
<1> QED
  BY <1>4, <1>5

TakesLast(q, w, n, op, now, taken) ==
  /\ Len(now) = w + 1 /\ now[w + 1] = op /\ \A i \in 1..w : now[i] = q[i]
  /\ taken \in Seq(Nat) /\ Len(taken) = n /\ \A i \in 1..n : taken[i] = q[w + i]

LEMMA LastTaken ==
  ASSUME NEW q \in Seq(Nat), NEW w \in Nat, NEW n \in 1..2, Len(q) = w + n, NEW op \in Nat
  PROVE  TakesLast(q, w, n, op, Append(SubSeq(q, 1, w), op), SubSeq(q, w + 1, w + n))
<1> DEFINE kept == SubSeq(q, 1, w)
           now == Append(kept, op)
           taken == SubSeq(q, w + 1, w + n)
<1>1. w \in 0..Len(q) /\ Len(q) - w = n
  OBVIOUS
<1>2. taken = SubSeq(q, w + 1, Len(q))
  OBVIOUS
<1> HIDE DEF kept, taken
<1>3. /\ kept \in Seq(Nat) /\ Len(kept) = w /\ \A i \in 1..w : kept[i] = q[i]
      /\ taken \in Seq(Nat) /\ Len(taken) = n /\ \A i \in 1..n : taken[i] = q[w + i]
  BY <1>1, <1>2, SplitValues, ZenonT(30) DEF kept
<1>4. Len(now) = Len(kept) + 1 /\ now[Len(kept) + 1] = op /\ \A i \in 1..Len(kept) : now[i] = kept[i]
  BY <1>3, AppendProperties
<1> HIDE DEF now
<1> QED
  BY <1>3, <1>4 DEF TakesLast, now, kept, taken

(* What add_operator makes of a stack that has enough arguments. *)
TakesArguments(s, t, op, n, w) ==
  /\ t \in Stacks /\ t.ok
  /\ Len(t.arguments) = w + 1 /\ t.arguments[w + 1] = op /\ \A i \in 1..w : t.arguments[i] = s.arguments[i]
  /\ Len(t.children) = Len(s.children) /\ \A i \in 1..Len(s.children) : i # op => t.children[i] = s.children[i]
  /\ Len(t.children[op]) = n /\ t.children[op] # <<>> /\ \A i \in 1..n : t.children[op][i] = s.arguments[w + i]

LEMMA OperatorTakes ==
  ASSUME NEW s \in Stacks, s.ok, NEW op \in 1..Len(s.children), s.children[op] = <<>>,
         NEW w \in Nat, Len(s.arguments) = w + number_args(words[op])
  PROVE  TakesArguments(s, add_operator(s, op), op, number_args(words[op]), w)
<1> DEFINE n == number_args(words[op])
           q == s.arguments
           t == add_operator(s, op)
           kept == SubSeq(q, 1, w)
           taken == SubSeq(q, w + 1, w + n)
<1>1. q \in Seq(Nat) /\ s.children \in Seq(Seq(Nat)) /\ Len(q) \in Nat /\ n \in 1..2 /\ op \in Nat
      /\ Len(q) = w + n
  BY Arities DEF Stacks
<1>2. t \in Stacks /\ t.ok /\ Len(t.children) = Len(s.children) /\ \A i \in 1..Len(s.children) : i # op => t.children[i] = s.children[i]
  <2>1. n <= Len(q)
    BY <1>1
  <2> HIDE DEF t
  <2> QED BY <2>1, OperatorAdded DEF t
<1>3. t = [ok |-> TRUE, arguments |-> Append(kept, op), children |-> [s.children EXCEPT ![op] = taken \o <<>>]]
  <2>1. Len(q) - n = w /\ ~(Len(q) - n < 0)
    <3> HIDE DEF n, q
    <3> QED BY <1>1
  <2> HIDE DEF n, q
  <2> QED BY <2>1 DEF add_operator, n, q
<1>4. TakesLast(q, w, n, op, Append(kept, op), taken)
  <2> HIDE DEF t, n, q
  <2> QED BY <1>1, LastTaken
<1> HIDE DEF t, n, q, kept, taken
<1>5. Len(taken) = n /\ taken \in Seq(Nat) /\ \A i \in 1..n : taken[i] = q[w + i]
  BY <1>4 DEF TakesLast
<1>6. /\ Len(Append(kept, op)) = w + 1 /\ Append(kept, op)[w + 1] = op
      /\ \A i \in 1..w : Append(kept, op)[i] = q[i]
  BY <1>4 DEF TakesLast
<1>7. taken \o <<>> = taken /\ taken # <<>>
  <2>1. Len(taken) # 0
    BY <1>1, <1>5
  <2> QED BY <1>5, <2>1, NotEmpty
<1>8. t.arguments = Append(kept, op) /\ t.children[op] = taken
  BY <1>1, <1>3, <1>7
<1> QED
  BY <1>2, <1>5, <1>6, <1>7, <1>8 DEF TakesArguments, t, n, q

(* The operators of a call that reads the tokens b..z-1 at level D. *)
Stacked(tokens, ops, weight, D, b, z) ==
  /\ tokens \in Seq(Tokens) /\ z \in Nat /\ z <= Len(tokens) + 1 /\ b \in Nat /\ b >= 1 /\ b <= z
  /\ Weighs(tokens, ops, weight) /\ weight[0] = 0
  /\ ops \in Seq(Nat)
  /\ \A k \in 1..Len(ops) : ops[k] \in b..(z - 1) /\ tokens[ops[k]] \in Operators /\ words[ops[k]] = tokens[ops[k]]
  /\ \A k, l \in 1..Len(ops) : k < l => ops[k] < ops[l]
  /\ Nested(tokens, b) = D /\ \A k \in 1..Len(ops) : Nested(tokens, ops[k]) = D

LEMMA NestedStart ==
  ASSUME NEW tokens, NEW ops, NEW weight, NEW D, NEW b, NEW z, Stacked(tokens, ops, weight, D, b, z),
         NEW k \in 0..Len(ops)
  PROVE  /\ Nested(tokens, Start(ops, b, k)) = D
         /\ Start(ops, b, k) \in b..z
<1>1. CASE k = 0
  BY <1>1 DEF Start, Stacked
<1>2. CASE k # 0
  <2>1. /\ ops[k] \in b..(z - 1) /\ tokens[ops[k]] \in Operators /\ Nested(tokens, ops[k]) = D
        /\ b \in Nat /\ z \in Nat /\ b >= 1
    <3>1. k \in 1..Len(ops)
      BY <1>2
    <3> QED BY <3>1 DEF Stacked
  <2> DEFINE op == ops[k]
  <2>2. Start(ops, b, k) = op + 1
    BY <1>2 DEF Start
  <2> HIDE DEF op
  <2>3. op \in Nat /\ op >= 1 /\ op + 1 \in b..z
    BY <2>1 DEF op
  <2>4. Deeper(tokens[op]) = 0
    BY <2>1, TokenKinds DEF Deeper, op
  <2>5. Nested(tokens, op + 1) = Nested(tokens, op) + Deeper(tokens[op]) /\ Nested(tokens, op) \in Int
    BY <2>3, NestedNext
  <2> QED BY <2>1, <2>2, <2>3, <2>4, <2>5 DEF op
<1> QED
  BY <1>1, <1>2

(* All but the first j operators have taken their arguments. *)
Reduced(T, tokens, s, ops, weight, D, b, z, j) ==
  /\ s \in Stacks /\ s.ok /\ Len(s.children) = Len(tokens)
  /\ Built(tokens, s.children, T)
  /\ \A k \in 1..j : Waiting(T, tokens, s.children, s.arguments, ops, weight, D, b, z, k)
  /\ Last(T, s.arguments, ops, weight, b, z, j, 1)

(* An operator more. *)
OneReduced(U, tokens, s, t, ops, weight, D, b, z, j) ==
  /\ Reduced(U, tokens, t, ops, weight, D, b, z, j - 1)
  /\ \A i \in 1..Len(tokens) : i # ops[j] => t.children[i] = s.children[i]

LEMMA ReduceOne ==
  ASSUME NEW tokens, NEW ops, NEW weight, NEW D, NEW b, NEW z, Stacked(tokens, ops, weight, D, b, z),
         NEW j \in 1..Len(ops), NEW T, NEW s, Reduced(T, tokens, s, ops, weight, D, b, z, j)
  PROVE  OneReduced(T \cup {<<ops[j], Start(ops, b, j - 1), z - 1>>}, tokens, s, add_operator(s, ops[j]),
                    ops, weight, D, b, z, j)
<1> DEFINE op == ops[j]
           lo == Start(ops, b, j - 1)
           w == weight[j - 1]
           n == number_args(words[op])
           t == add_operator(s, op)
           U == T \cup {<<op, lo, z - 1>>}
           q == s.arguments
<1>1. /\ tokens \in Seq(Tokens) /\ z \in Nat /\ z <= Len(tokens) + 1 /\ b \in Nat /\ b >= 1 /\ b <= z
      /\ Weighs(tokens, ops, weight) /\ weight[0] = 0 /\ ops \in Seq(Nat) /\ Len(tokens) \in Nat
      /\ Nested(tokens, b) = D /\ Len(ops) \in Nat
  BY DEF Stacked
<1>2. op \in b..(z - 1) /\ tokens[op] \in Operators /\ words[op] = tokens[op] /\ Nested(tokens, op) = D /\ op \in 1..Len(tokens) /\ op \in Nat
  <2>1. op \in b..(z - 1) /\ tokens[op] \in Operators /\ words[op] = tokens[op] /\ Nested(tokens, op) = D
    BY DEF Stacked
  <2> HIDE DEF op
  <2> QED BY <1>1, <2>1
<1>3. /\ w \in Nat /\ weight[j] \in Nat /\ weight[j] = w + (IF tokens[op] = "not" THEN 0 ELSE 1)
  BY <1>1, WeightAt
<1>4. j - 1 \in 0..Len(ops) /\ j # 0
  BY <1>1
<1>5. lo \in b..z /\ Nested(tokens, lo) = D
  BY <1>4, NestedStart
<1>6. /\ s \in Stacks /\ s.ok /\ Len(s.children) = Len(tokens) /\ Built(tokens, s.children, T)
      /\ \A k \in 1..j : Waiting(T, tokens, s.children, q, ops, weight, D, b, z, k)
  BY DEF Reduced
<1>7. Len(q) = weight[j] + 1 /\ <<q[weight[j] + 1], op + 1, z - 1>> \in T
  BY <1>4 DEF Reduced, Last, Start
<1>8. /\ lo <= op /\ op < z /\ s.children[op] = <<>>
      /\ tokens[op] = "not" => op = lo
      /\ tokens[op] # "not" => <<q[weight[j]], lo, op - 1>> \in T
      /\ \A i \in LevelOperators(tokens, D, lo, op - 1) : GoesFirst(tokens[i], tokens[op])
      /\ \A i \in LevelOperators(tokens, D, op + 1, z - 1) : ~GoesFirst(tokens[op], tokens[i])
  <2>1. Waiting(T, tokens, s.children, q, ops, weight, D, b, z, j)
    BY <1>6
  <2> QED BY <2>1, Zenon DEF Waiting
<1> HIDE DEF lo, w, n, q
<1>9. n = (IF tokens[op] = "not" THEN 1 ELSE 2)
  BY <1>2 DEF n, number_args
<1>10. Len(q) = w + n
  BY <1>3, <1>7, <1>9
<1>11. TakesArguments(s, t, op, n, w)
  <2>1. op \in 1..Len(s.children)
    BY <1>2, <1>6
  <2>2. Len(s.arguments) = w + number_args(words[op])
    BY <1>10 DEF n, q
  <2> HIDE DEF op
  <2> QED BY <1>3, <1>6, <1>8, <2>1, <2>2, OperatorTakes DEF n
<1> HIDE DEF t, op
<1>12. /\ t \in Stacks /\ t.ok
       /\ Len(t.arguments) = w + 1 /\ t.arguments[w + 1] = op /\ \A i \in 1..w : t.arguments[i] = q[i]
       /\ Len(t.children) = Len(tokens) /\ \A i \in 1..Len(tokens) : i # op => t.children[i] = s.children[i]
       /\ Len(t.children[op]) = n /\ t.children[op] # <<>> /\ \A i \in 1..n : t.children[op][i] = q[w + i]
  BY <1>6, <1>11 DEF TakesArguments, q
<1>13. IsTree(tokens, t.children, U, op, lo, z - 1)
  <2>1. lo \in Nat /\ lo \in 1..Len(tokens) /\ tokens[lo] \in Tokens
    <3>1. lo \in Nat /\ lo \in 1..Len(tokens)
      BY <1>1, <1>2, <1>5, <1>8
    <3> QED BY <1>1, <3>1
  <2>2. ASSUME tokens[op] = "not"
        PROVE  op = lo /\ Len(t.children[op]) = 1 /\ <<t.children[op][1], op + 1, z - 1>> \in U
    <3>1. n = 1 /\ weight[j] = w
      BY <1>3, <1>9, <2>2
    <3>2. t.children[op][1] = q[weight[j] + 1]
      BY <1>12, <3>1
    <3> QED BY <1>7, <1>8, <1>12, <2>2, <3>1, <3>2
  <2>3. ASSUME tokens[op] # "not"
        PROVE  /\ lo < op /\ Len(t.children[op]) = 2
               /\ <<t.children[op][1], lo, op - 1>> \in U /\ <<t.children[op][2], op + 1, z - 1>> \in U
    <3>1. n = 2 /\ weight[j] = w + 1
      BY <1>3, <1>9, <2>3
    <3>2. t.children[op][1] = q[weight[j]] /\ t.children[op][2] = q[weight[j] + 1]
      <4>1. w + 2 = weight[j] + 1 /\ 1 \in 1..n /\ 2 \in 1..n
        BY <1>3, <3>1
      <4> QED BY <1>12, <3>1, <4>1
    <3>3. <<q[weight[j]], lo, op - 1>> \in T
      BY <1>8, <2>3
    <3>4. lo \in 1..(op - 1)
      BY <1>6, <3>3 DEF Built
    <3> QED BY <1>2, <1>7, <1>12, <3>1, <3>2, <3>3, <3>4
  <2> HIDE DEF U
  <2> QED BY <1>1, <1>2, <1>5, <1>8, <2>1, <2>2, <2>3, OperatorIsTree
<1>14. Built(tokens, t.children, U)
  <2>1. ASSUME NEW i, NEW l, NEW h, <<i, l, h>> \in T PROVE t.children[i] = s.children[i]
    <3>1. i \in 1..Len(tokens) /\ Finished(tokens, s.children, i)
      BY <1>6, <2>1 DEF Built
    <3>2. i # op
      BY <1>2, <1>8, <3>1 DEF Finished
    <3> QED BY <1>12, <3>1, <3>2
  <2>2. ASSUME NEW i, NEW l, NEW h, <<i, l, h>> \in U, <<i, l, h>> \notin T
        PROVE  /\ i \in 1..Len(tokens) /\ h \in 1..Len(tokens) /\ l \in 1..h
               /\ IsTree(tokens, t.children, U, i, l, h)
               /\ Finished(tokens, t.children, i)
    <3>1. i = op /\ l = lo /\ h = z - 1
      BY <2>2
    <3>2. tokens[op] # "f("
      BY <1>2, TokenKinds
    <3>3. Finished(tokens, t.children, op)
      BY <1>12, <3>2 DEF Finished
    <3>4. op \in 1..Len(tokens) /\ z - 1 \in 1..Len(tokens) /\ lo \in 1..(z - 1)
      BY <1>1, <1>2, <1>5, <1>8
    <3> QED BY <1>13, <3>1, <3>3, <3>4
  <2>3. T \subseteq U
    OBVIOUS
  <2> HIDE DEF U
  <2>4. Len(tokens) >= Len(tokens)
    BY <1>1
  <2> QED BY <1>1, <1>6, <2>1, <2>2, <2>3, <2>4, BuiltMore, ZenonT(30)
<1>15. ASSUME NEW k \in 1..(j - 1) PROVE Waiting(U, tokens, t.children, t.arguments, ops, weight, D, b, z, k)
  <2>1. k \in 1..Len(ops) /\ k \in 1..j /\ k < j
    BY <1>1
  <2>2. ops[k] < op /\ ops[k] \in 1..Len(tokens)
    <3>1. ops[k] < ops[j] /\ ops[k] \in b..(z - 1)
      BY <2>1 DEF Stacked
    <3> QED BY <1>1, <3>1 DEF op
  <2>3. t.children[ops[k]] = s.children[ops[k]]
    BY <1>2, <1>12, <2>2
  <2>4. ASSUME tokens[ops[k]] # "not" PROVE t.arguments[weight[k]] = q[weight[k]]
    <3>1. weight[k - 1] \in Nat /\ weight[k] \in Nat /\ weight[k] = weight[k - 1] + (IF tokens[ops[k]] = "not" THEN 0 ELSE 1)
      BY <1>1, <2>1, WeightAt
    <3>2. weight[k] <= w
      <4>1. \A i \in 0..(j - 1) : weight[i] <= weight[j - 1]
        BY <1>1, <1>4, WeightsGrow
      <4>2. k \in 0..(j - 1)
        BY <1>1
      <4> QED BY <4>1, <4>2 DEF w
    <3>3. weight[k] \in 1..w
      BY <1>3, <2>4, <3>1, <3>2
    <3> QED BY <1>12, <3>3
  <2>5. Waiting(T, tokens, s.children, q, ops, weight, D, b, z, k) /\ T \subseteq U
    BY <1>6, <2>1
  <2> HIDE DEF U
  <2> QED BY <1>1, <2>1, <2>3, <2>4, <2>5, WaitingKept, ZenonT(30)
<1>16. Last(U, t.arguments, ops, weight, b, z, j - 1, 1)
  <2>1. <<op, Start(ops, b, j - 1), z - 1>> \in U
    BY DEF lo
  <2> HIDE DEF U
  <2> QED BY <1>12, <2>1 DEF Last, w
<1> HIDE DEF U
<1>17. Reduced(U, tokens, t, ops, weight, D, b, z, j - 1)
  BY <1>12, <1>14, <1>15, <1>16 DEF Reduced
<1> QED
  BY <1>12, <1>17 DEF OneReduced, U, t, op, lo

(* What is new in U, or changed, is a node of the tokens lo..hi. *)
NewNodes(T, U, lo, hi) == \A n, l, h : <<n, l, h>> \in U => <<n, l, h>> \in T \/ n \in lo..hi
Unchanged(nodes, all, lo, hi) == \A i \in 1..Len(nodes) : i \notin lo..hi => all[i] = nodes[i]

(* All but the first stay operators take their arguments, the last one first. *)
LEMMA ReduceMany ==
  ASSUME NEW tokens, NEW ops, NEW weight, NEW D, NEW b, NEW z, Stacked(tokens, ops, weight, D, b, z),
         NEW T, NEW s, Reduced(T, tokens, s, ops, weight, D, b, z, Len(ops)), NEW stay \in 0..Len(ops)
  PROVE  LET t == add_operators(s, SubSeq(ops, stay + 1, Len(ops)))
         IN  \E U : /\ T \subseteq U /\ Reduced(U, tokens, t, ops, weight, D, b, z, stay)
                   /\ Unchanged(s.children, t.children, b, z - 1) /\ NewNodes(T, U, b, z - 1)
<1> DEFINE L == Len(ops)
           rest == SubSeq(ops, stay + 1, L)
           More(x, n) == \E U : /\ T \subseteq U /\ Reduced(U, tokens, x, ops, weight, D, b, z, L - n)
                               /\ Unchanged(s.children, x.children, b, z - 1) /\ NewNodes(T, U, b, z - 1)
           P == [n \in 0..L |-> {x \in Stacks : More(x, n)}]
<1>1. ops \in Seq(Nat) /\ L \in Nat /\ stay \in Nat /\ stay <= L /\ \A k \in 1..L : ops[k] \in b..(z - 1)
  BY DEF Stacked
<1>2. Len(rest) = L - stay /\ \A i \in 1..(L - stay) : rest[i] = ops[stay + i]
  BY <1>1, SplitValues
<1>2a. s \in Stacks /\ Len(s.children) = Len(tokens)
  BY DEF Reduced
<1> HIDE DEF L, rest
<1>3. s \in P[0]
  <2>1. T \subseteq T /\ L - 0 = L /\ Unchanged(s.children, s.children, b, z - 1) /\ NewNodes(T, T, b, z - 1)
    BY <1>1 DEF Unchanged, NewNodes
  <2>2. More(s, 0)
    BY <2>1 DEF L
  <2> HIDE DEF More
  <2> QED BY <1>1, <1>2a, <2>2
<1>4. ASSUME NEW n \in 1..Len(rest), NEW x \in P[n - 1] PROVE add_operator(x, rest[Len(rest) - n + 1]) \in P[n]
  <2> DEFINE j == L - (n - 1)
             y == add_operator(x, ops[j])
  <2>1. n - 1 \in 0..L /\ n \in 0..L /\ j \in 1..Len(ops) /\ j - 1 = L - n
    BY <1>1, <1>2 DEF L
  <2>2. rest[Len(rest) - n + 1] = ops[j]
    <3>1. Len(rest) - n + 1 \in 1..(L - stay) /\ stay + (Len(rest) - n + 1) = j
      BY <1>1, <1>2
    <3> QED BY <1>2, <3>1
  <2>3. x \in Stacks /\ More(x, n - 1)
    <3> HIDE DEF More
    <3> QED BY <2>1
  <2>4. PICK U : /\ T \subseteq U /\ Reduced(U, tokens, x, ops, weight, D, b, z, j)
                 /\ Unchanged(s.children, x.children, b, z - 1) /\ NewNodes(T, U, b, z - 1)
    BY <2>3
  <2> HIDE DEF j
  <2> DEFINE V == U \cup {<<ops[j], Start(ops, b, j - 1), z - 1>>}
  <2>5. /\ Reduced(V, tokens, y, ops, weight, D, b, z, j - 1)
        /\ \A i \in 1..Len(tokens) : i # ops[j] => y.children[i] = x.children[i]
    <3>1. OneReduced(V, tokens, x, y, ops, weight, D, b, z, j)
      BY <2>1, <2>4, ReduceOne
    <3> HIDE DEF V, y
    <3> QED BY <3>1 DEF OneReduced
  <2>6. T \subseteq V
    BY <2>4
  <2>6a. NewNodes(T, V, b, z - 1)
    <3>1. ops[j] \in b..(z - 1)
      BY <1>1, <2>1 DEF L
    <3> QED BY <2>4, <3>1 DEF NewNodes
  <2> HIDE DEF V, y
  <2>7. Unchanged(s.children, y.children, b, z - 1)
    <3>1. ops[j] \in b..(z - 1)
      BY <1>1, <2>1 DEF L
    <3> QED BY <1>2a, <2>4, <2>5, <3>1 DEF Unchanged
  <2>8. More(y, n) /\ y \in Stacks
    BY <2>1, <2>5, <2>6, <2>6a, <2>7 DEF Reduced
  <2> HIDE DEF More
  <2>9. y \in P[n]
    BY <2>1, <2>8
  <2> QED BY <2>2, <2>9 DEF y
<1>5. L - (L - stay) = stay /\ L - stay \in 0..L /\ Len(rest) \in Nat
  BY <1>1, <1>2
<1>6. add_operators(s, rest) \in P[L - stay]
  <2> HIDE DEF P
  <2>1. add_operators(s, rest) \in P[Len(rest)]
    BY <1>3, <1>4, <1>5, AddOperatorsInduction
  <2> QED BY <1>2, <2>1
<1>7. More(add_operators(s, rest), L - stay)
  <2> HIDE DEF More
  <2> QED BY <1>5, <1>6
<1> QED
  BY <1>5, <1>7 DEF rest, L

(* The tokens read, with the nodes made, and what a call has stacked of them. *)
Stacking(tokens, nodes, f, z) ==
  /\ tokens \in Seq(Tokens) /\ nodes \in Seq(Seq(Nat)) /\ Len(nodes) = Len(tokens)
  /\ z \in Nat /\ z <= Len(tokens) + 1 /\ f \in Calls
  /\ \A k \in 1..Len(f.operators) :
       tokens[f.operators[k]] \in Operators /\ words[f.operators[k]] = tokens[f.operators[k]]

LEMMA CallStacks ==
  ASSUME NEW T, NEW tokens, NEW nodes, NEW f, NEW D, NEW z, NEW extra, NEW b \in Nat, NEW weight,
         CallAt(T, tokens, nodes, f, D, z, extra, b, weight), Stacking(tokens, nodes, f, z), Built(tokens, nodes, T)
  PROVE  /\ Stacked(tokens, f.operators, weight, D, b, z)
         /\ extra = 1 => Reduced(T, tokens, Stack(f, nodes), f.operators, weight, D, b, z, Len(f.operators))
<1> DEFINE ops == f.operators
<1>1. /\ tokens \in Seq(Tokens) /\ nodes \in Seq(Seq(Nat)) /\ Len(nodes) = Len(tokens)
      /\ z \in Nat /\ z <= Len(tokens) + 1 /\ f \in Calls
      /\ \A k \in 1..Len(ops) : tokens[ops[k]] \in Operators /\ words[ops[k]] = tokens[ops[k]]
  BY DEF Stacking
<1>2. /\ ops \in Seq(Nat) /\ f.at \in Nat /\ f.at < b /\ b <= z /\ b >= 1
      /\ \A k \in 1..Len(ops) : ops[k] \in b..(z - 1)
      /\ \A k, l \in 1..Len(ops) : k < l => ops[k] < ops[l]
  BY <1>1, OperatorsAt
<1>3. /\ Weighs(tokens, ops, weight) /\ weight[0] = 0 /\ Inner(tokens, f, D, b, z)
      /\ \A k \in 1..Len(ops) : Waiting(T, tokens, nodes, f.arguments, ops, weight, D, b, z, k)
      /\ Last(T, f.arguments, ops, weight, b, z, Len(ops), extra)
  BY DEF CallAt
<1>4. Nested(tokens, b) = D
  BY <1>3 DEF Inner
<1>5. Stack(f, nodes) \in Stacks /\ Stack(f, nodes).ok /\ Stack(f, nodes).arguments = f.arguments /\ Stack(f, nodes).children = nodes
  BY <1>1 DEF Stack, Stacks, Calls
<1> HIDE DEF ops
<1>6. \A k \in 1..Len(ops) : Nested(tokens, ops[k]) = D
  BY <1>3 DEF Waiting
<1>7. Stacked(tokens, ops, weight, D, b, z)
  BY <1>1, <1>2, <1>3, <1>4, <1>6 DEF Stacked
<1>8. ASSUME extra = 1 PROVE Reduced(T, tokens, Stack(f, nodes), ops, weight, D, b, z, Len(ops))
  BY <1>1, <1>3, <1>5, <1>8 DEF Reduced
<1> QED
  BY <1>7, <1>8 DEF ops

(* A call that ends after an operand returns the tree of all it has read. *)
Returns(T, U, tokens, nodes, all, f, D, b, z, node) ==
  /\ T \subseteq U /\ NewNodes(T, U, b, z - 1)
  /\ Built(tokens, all, U) /\ <<node, b, z - 1>> \in U
  /\ Begins(U, tokens, all, f, D, b) /\ Inner(tokens, f, D, b, z)
  /\ all \in Seq(Seq(Nat)) /\ Len(all) = Len(tokens)
  /\ Unchanged(nodes, all, b, z - 1)

LEMMA CallReturns ==
  ASSUME NEW T, NEW tokens, NEW nodes, NEW f, NEW D, NEW z, CallFits(T, tokens, nodes, f, D, z, 1),
         Stacking(tokens, nodes, f, z), Built(tokens, nodes, T)
  PROVE  LET expr == Finish(f, nodes)
         IN  \E U : \E b \in Nat : Returns(T, U, tokens, nodes, expr.children, f, D, b, z, expr.root)
<1> DEFINE expr == Finish(f, nodes)
           ops == f.operators
           s == Stack(f, nodes)
           t == add_operators(s, ops)
<1>1. PICK b \in Nat : \E weight : CallAt(T, tokens, nodes, f, D, z, 1, b, weight)
  BY DEF CallFits
<1>2. PICK weight : CallAt(T, tokens, nodes, f, D, z, 1, b, weight)
  BY <1>1
<1>3. Stacked(tokens, ops, weight, D, b, z) /\ Reduced(T, tokens, s, ops, weight, D, b, z, Len(ops))
  BY <1>2, CallStacks
<1>4. /\ tokens \in Seq(Tokens) /\ nodes \in Seq(Seq(Nat)) /\ Len(nodes) = Len(tokens) /\ z \in Nat /\ z <= Len(tokens) + 1 /\ f \in Calls
      /\ ops \in Seq(Nat) /\ f.at \in Nat /\ f.at < b /\ b <= z /\ b >= 1 /\ Len(tokens) \in Nat
  <2>1. tokens \in Seq(Tokens) /\ nodes \in Seq(Seq(Nat)) /\ Len(nodes) = Len(tokens) /\ z \in Nat /\ z <= Len(tokens) + 1 /\ f \in Calls
    BY DEF Stacking
  <2>2. ops \in Seq(Nat) /\ f.at \in Nat /\ f.at < b /\ b <= z /\ b >= 1
    <3> HIDE DEF expr, s, t
    <3> QED BY <1>2, <2>1, OperatorsAt
  <2>3. Len(tokens) \in Nat
    BY <2>1
  <2> QED BY <2>1, <2>2, <2>3
<1>5. SubSeq(ops, 0 + 1, Len(ops)) = ops /\ 0 \in 0..Len(ops)
  BY <1>4
<1>6. s.children = nodes
  BY DEF Stack
<1>7. expr = [ok |-> t.ok /\ Len(t.arguments) <= 1, children |-> t.children,
              root |-> IF t.arguments = <<>> THEN Null ELSE t.arguments[1]]
  BY DEF Finish
<1> HIDE DEF expr, ops, s, t
<1>8. PICK U : /\ T \subseteq U /\ Reduced(U, tokens, t, ops, weight, D, b, z, 0)
               /\ Unchanged(nodes, t.children, b, z - 1) /\ NewNodes(T, U, b, z - 1)
  <2>1. \E U : /\ T \subseteq U /\ Reduced(U, tokens, add_operators(s, SubSeq(ops, 0 + 1, Len(ops))), ops, weight, D, b, z, 0)
               /\ Unchanged(s.children, add_operators(s, SubSeq(ops, 0 + 1, Len(ops))).children, b, z - 1)
               /\ NewNodes(T, U, b, z - 1)
    BY <1>3, <1>5, ReduceMany
  <2> QED BY <1>5, <1>6, <2>1 DEF t
<1>9. /\ t \in Stacks /\ Len(t.children) = Len(tokens) /\ Built(tokens, t.children, U)
      /\ Len(t.arguments) = 1 /\ <<t.arguments[1], b, z - 1>> \in U
  <2>1. weight[0] = 0
    BY <1>3 DEF Stacked
  <2> QED BY <1>8, <2>1 DEF Reduced, Last, Start
<1>10. expr.root = t.arguments[1] /\ expr.children = t.children
  <2>1. t.arguments \in Seq(Nat)
    BY <1>9 DEF Stacks
  <2>2. t.arguments # <<>>
    BY <1>9, <2>1, NotEmpty
  <2> QED BY <1>7, <2>2
<1>11. Begins(U, tokens, t.children, f, D, b)
  <2>1. Begins(T, tokens, nodes, f, D, b)
    BY <1>2 DEF CallAt
  <2>2. f.context = "f(" => t.children[f.at] = nodes[f.at]
    <3>1. f.context = "f(" => f.at >= 1
      BY <1>2 DEF CallAt, Inner
    <3>2. f.at >= 1 => f.at \in 1..Len(nodes) /\ f.at \notin b..(z - 1)
      BY <1>4
    <3> QED BY <1>8, <3>1, <3>2 DEF Unchanged
  <2> QED BY <1>4, <1>8, <2>1, <2>2, BeginsKept
<1>12. Inner(tokens, f, D, b, z)
  BY <1>2 DEF CallAt
<1>13. Returns(T, U, tokens, nodes, expr.children, f, D, b, z, expr.root)
  <2>1. t.children \in Seq(Seq(Nat))
    BY <1>9 DEF Stacks
  <2> QED BY <1>8, <1>9, <1>10, <1>11, <1>12, <2>1 DEF Returns
<1> QED
  BY <1>13 DEF expr

-----------------------------------------------------------------------------
(* An operator is stacked. *)

(* All operators at the level of the call, of what follows the first stay of   *)
(* those on its stack, go before one that they all do.                         *)
LEMMA AllGoFirst ==
  ASSUME NEW T, NEW tokens, NEW nodes, NEW q, NEW ops, NEW weight, NEW D, NEW b, NEW z, Stacked(tokens, ops, weight, D, b, z),
         \A k \in 1..Len(ops) : Waiting(T, tokens, nodes, q, ops, weight, D, b, z, k),
         LevelOperators(tokens, D, Start(ops, b, Len(ops)), z - 1) = {},
         NEW stay \in 0..Len(ops), NEW op \in Operators, \A k \in (stay + 1)..Len(ops) : GoesFirst(tokens[ops[k]], op),
         NEW i \in LevelOperators(tokens, D, Start(ops, b, stay), z - 1)
  PROVE  GoesFirst(tokens[i], op)
<1> DEFINE L == Len(ops)
           After == {k \in (stay + 1)..L : i <= ops[k]}
<1>1. /\ ops \in Seq(Nat) /\ L \in Nat /\ b \in Nat /\ b >= 1 /\ z \in Nat
      /\ \A k \in 1..L : ops[k] \in b..(z - 1) /\ tokens[ops[k]] \in Operators
      /\ \A k, l \in 1..L : k < l => ops[k] < ops[l]
      /\ stay \in Nat /\ stay <= L
  BY DEF Stacked
<1>2. \A k \in 0..L : Start(ops, b, k) \in b..z
  BY NestedStart
<1> HIDE DEF L
<1>3. i \in Nat /\ i >= Start(ops, b, stay) /\ i <= z - 1 /\ tokens[i] \in Operators /\ Nested(tokens, i) = D
  <2>1. Start(ops, b, stay) \in Nat
    BY <1>1, <1>2
  <2> QED BY <1>1, <2>1 DEF LevelOperators
<1>4. After # {}
  <2>1. SUFFICES ASSUME After = {} PROVE FALSE
    OBVIOUS
  <2>2. L \in 0..L /\ Start(ops, b, L) \in Nat
    BY <1>1, <1>2
  <2>3. i >= Start(ops, b, L)
    <3>1. CASE L = stay
      BY <1>3, <3>1
    <3>2. CASE L # stay
      <4>1. L \in (stay + 1)..L /\ L \in 1..L /\ L # 0
        BY <1>1, <3>2
      <4>2. ~(i <= ops[L]) /\ ops[L] \in Nat
        <5>1. L \notin After
          BY <2>1
        <5> QED BY <1>1, <4>1, <5>1
      <4> QED BY <1>3, <4>1, <4>2 DEF Start
    <3> QED BY <3>1, <3>2
  <2>4. i \in LevelOperators(tokens, D, Start(ops, b, L), z - 1)
    BY <1>1, <1>3, <2>2, <2>3 DEF LevelOperators
  <2> QED BY <2>4 DEF L
<1>5. PICK k \in After : \A l \in After : k <= l
  <2>1. After \in SUBSET Nat
    BY <1>1
  <2> HIDE DEF After
  <2> QED BY <1>4, <2>1, LeastElement
<1>6. k \in 1..L /\ k \in (stay + 1)..L /\ i <= ops[k] /\ k - 1 \in 0..L /\ ops[k] \in Nat /\ tokens[ops[k]] \in Operators
  BY <1>1
<1>7. GoesFirst(tokens[ops[k]], op)
  BY <1>6 DEF L
<1>8. i >= Start(ops, b, k - 1)
  <2>1. CASE k - 1 = stay
    BY <1>3, <2>1
  <2>2. CASE k - 1 # stay
    <3>1. k - 1 \in (stay + 1)..L /\ k - 1 \in 1..L /\ k - 1 # 0 /\ ~(k <= k - 1)
      BY <1>1, <1>6, <2>2
    <3>2. ~(i <= ops[k - 1]) /\ ops[k - 1] \in Nat
      BY <1>1, <1>5, <3>1
    <3> QED BY <1>3, <3>1, <3>2 DEF Start
  <2> QED BY <2>1, <2>2
<1>9. CASE i = ops[k]
  BY <1>7, <1>9
<1>10. CASE i # ops[k]
  <2>1. Start(ops, b, k - 1) \in Nat
    BY <1>1, <1>2, <1>6, SMTT(30)
  <2>2. i \in LevelOperators(tokens, D, Start(ops, b, k - 1), ops[k] - 1)
    BY <1>3, <1>6, <1>8, <1>10, <2>1 DEF LevelOperators
  <2>3. \A j \in LevelOperators(tokens, D, Start(ops, b, k - 1), ops[k] - 1) : GoesFirst(tokens[j], tokens[ops[k]])
    <3>1. Waiting(T, tokens, nodes, q, ops, weight, D, b, z, k)
      BY <1>6 DEF L
    <3> QED BY <3>1, Zenon DEF Waiting
  <2>4. GoesFirst(tokens[i], tokens[ops[k]])
    BY <2>2, <2>3
  <2> QED BY <1>3, <1>6, <1>7, <2>4, GoesFirstTransitive
<1> QED
  BY <1>9, <1>10

(* Those on the stack do not go before one that the last of them does not.     *)
LEMMA NoneGoesFirst ==
  ASSUME NEW T, NEW tokens, NEW nodes, NEW q, NEW ops, NEW weight, NEW D, NEW b, NEW z, Stacked(tokens, ops, weight, D, b, z),
         NEW stay \in 1..Len(ops), NEW op \in Operators, ~GoesFirst(tokens[ops[stay]], op),
         NEW k \in 1..stay, Waiting(T, tokens, nodes, q, ops, weight, D, b, z, k)
  PROVE  ~GoesFirst(tokens[ops[k]], op)
<1>1. /\ ops \in Seq(Nat) /\ b \in Nat /\ z \in Nat
      /\ \A l \in 1..Len(ops) : ops[l] \in b..(z - 1) /\ tokens[ops[l]] \in Operators /\ Nested(tokens, ops[l]) = D
      /\ \A l, m \in 1..Len(ops) : l < m => ops[l] < ops[m]
  BY DEF Stacked
<1>2. CASE k = stay
  BY <1>2
<1>3. CASE k # stay
  <2>1. k \in 1..Len(ops) /\ ops[k] < ops[stay]
    BY <1>1, <1>3
  <2>2. ops[stay] \in LevelOperators(tokens, D, ops[k] + 1, z - 1)
    <3>1. ops[k] \in Nat /\ ops[stay] \in Nat /\ ops[stay] <= z - 1 /\ tokens[ops[stay]] \in Operators /\ Nested(tokens, ops[stay]) = D
      BY <1>1, <2>1
    <3> QED BY <1>1, <2>1, <3>1 DEF LevelOperators
  <2>3. \A i \in LevelOperators(tokens, D, ops[k] + 1, z - 1) : ~GoesFirst(tokens[ops[k]], tokens[i])
    BY Zenon DEF Waiting
  <2>4. ~GoesFirst(tokens[ops[k]], tokens[ops[stay]])
    BY <2>2, <2>3
  <2> QED BY <1>1, <2>1, <2>4, GoesFirstTransitive
<1> QED
  BY <1>2, <1>3

(* What is left on the stacks t by the operators that go before one at z. *)
ReducesTo(U, T, tokens, nodes, t, ops, weight, D, b, z, stay, extra) ==
  /\ T \subseteq U /\ Built(tokens, t.children, U)
  /\ t.children \in Seq(Seq(Nat)) /\ Len(t.children) = Len(tokens)
  /\ \A k \in 1..stay : Waiting(U, tokens, t.children, t.arguments, ops, weight, D, b, z, k)
  /\ Last(U, t.arguments, ops, weight, b, z, stay, extra)
  /\ Unchanged(nodes, t.children, b, z - 1)

Reduces(T, tokens, nodes, t, ops, weight, D, b, z, stay, extra) ==
  \E U : ReducesTo(U, T, tokens, nodes, t, ops, weight, D, b, z, stay, extra)

LEMMA OperatorReduces ==
  ASSUME NEW T, NEW tokens, NEW nodes, NEW f, NEW D, NEW z, NEW extra \in 0..1, NEW b \in Nat, NEW weight,
         CallAt(T, tokens, nodes, f, D, z, extra, b, weight), Stacking(tokens, nodes, f, z), Built(tokens, nodes, T),
         NEW stay \in 0..Len(f.operators), extra = 0 => stay = Len(f.operators)
  PROVE  Reduces(T, tokens, nodes, add_operators(Stack(f, nodes), SubSeq(f.operators, stay + 1, Len(f.operators))),
                 f.operators, weight, D, b, z, stay, extra)
<1> DEFINE ops == f.operators
           s == Stack(f, nodes)
           t == add_operators(s, SubSeq(ops, stay + 1, Len(ops)))
<1>1. s.children = nodes /\ s.arguments = f.arguments
  BY DEF Stack
<1>1a. nodes \in Seq(Seq(Nat)) /\ Len(nodes) = Len(tokens) /\ f \in Calls /\ ops \in Seq(Nat)
  BY DEF Stacking, Calls
<1>2. CASE extra = 1
  <2>1. Stacked(tokens, ops, weight, D, b, z) /\ Reduced(T, tokens, s, ops, weight, D, b, z, Len(ops))
    BY <1>2, CallStacks
  <2> HIDE DEF s, ops
  <2>2. \E U : /\ T \subseteq U /\ Reduced(U, tokens, t, ops, weight, D, b, z, stay)
               /\ Unchanged(s.children, t.children, b, z - 1)
    BY <2>1, ReduceMany DEF ops
  <2> HIDE DEF t
  <2>3. PICK U : /\ T \subseteq U /\ Reduced(U, tokens, t, ops, weight, D, b, z, stay)
                 /\ Unchanged(nodes, t.children, b, z - 1)
    BY <1>1, <2>2
  <2>4. /\ T \subseteq U /\ Built(tokens, t.children, U)
        /\ t.children \in Seq(Seq(Nat)) /\ Len(t.children) = Len(tokens)
        /\ \A k \in 1..stay : Waiting(U, tokens, t.children, t.arguments, ops, weight, D, b, z, k)
        /\ Last(U, t.arguments, ops, weight, b, z, stay, extra)
        /\ Unchanged(nodes, t.children, b, z - 1)
    BY <1>2, <2>3 DEF Reduced, Stacks
  <2>5. Reduces(T, tokens, nodes, t, ops, weight, D, b, z, stay, extra)
    BY <2>4, Zenon DEF Reduces, ReducesTo
  <2> QED BY <2>5 DEF t, s, ops
<1>3. CASE extra = 0
  <2>1. stay = Len(ops) /\ SubSeq(ops, stay + 1, Len(ops)) = <<>>
    <3>1. stay = Len(ops) /\ Len(ops) \in Nat
      BY <1>1a, <1>3
    <3>2. Len(SubSeq(ops, stay + 1, Len(ops))) = 0 /\ SubSeq(ops, stay + 1, Len(ops)) \in Seq(Nat)
      BY <1>1a, <3>1
    <3> HIDE DEF ops
    <3> QED BY <3>1, <3>2, NotEmpty
  <2> HIDE DEF s
  <2>2. t = s
    BY <2>1, NoOperators
  <2>3. /\ \A k \in 1..Len(ops) : Waiting(T, tokens, nodes, f.arguments, ops, weight, D, b, z, k)
        /\ Last(T, f.arguments, ops, weight, b, z, Len(ops), extra)
    BY DEF CallAt
  <2> HIDE DEF t, ops
  <2>4. /\ T \subseteq T /\ Built(tokens, t.children, T)
        /\ t.children \in Seq(Seq(Nat)) /\ Len(t.children) = Len(tokens)
        /\ \A k \in 1..stay : Waiting(T, tokens, t.children, t.arguments, ops, weight, D, b, z, k)
        /\ Last(T, t.arguments, ops, weight, b, z, stay, extra)
        /\ Unchanged(nodes, t.children, b, z - 1)
    BY <1>1, <1>1a, <2>1, <2>2, <2>3 DEF Unchanged
  <2>5. Reduces(T, tokens, nodes, t, ops, weight, D, b, z, stay, extra)
    BY <2>4, Zenon DEF Reduces, ReducesTo
  <2> QED BY <2>5 DEF t, s, ops
<1>4. extra = 1 \/ extra = 0
  OBVIOUS
<1> QED
  BY <1>2, <1>3, <1>4, Zenon

(* One more operator on those that stay, and what each then waits for. *)
OneMore(tokens, ops, weight, b, stay, z, others, v) ==
  /\ others \in Seq(Nat) /\ Len(others) = stay + 1 /\ others[stay + 1] = z
  /\ Weighs(tokens, others, v)
  /\ \A k \in 0..stay : v[k] = weight[k]
  /\ v[stay + 1] = weight[stay] + number_args(tokens[z]) - 1
  /\ \A k \in 1..stay : others[k] = ops[k]
  /\ \A k \in 0..stay : Start(others, b, k) = Start(ops, b, k)

LEMMA OneMoreStacked ==
  ASSUME NEW tokens, NEW ops \in Seq(Nat), NEW weight, Weighs(tokens, ops, weight), NEW b,
         NEW stay \in 0..Len(ops), NEW z \in Nat
  PROVE  \E v : OneMore(tokens, ops, weight, b, stay, z, Append(SubSeq(ops, 1, stay), z), v)
<1> DEFINE kept == SubSeq(ops, 1, stay)
           others == Append(kept, z)
           v == [k \in 0..(stay + 1) |-> IF k <= stay THEN weight[k] ELSE weight[stay] + number_args(tokens[z]) - 1]
<1>1. stay \in Nat /\ stay <= Len(ops) /\ Len(ops) \in Nat
  OBVIOUS
<1>2. kept \in Seq(Nat) /\ Len(kept) = stay /\ \A k \in 1..stay : kept[k] = ops[k]
  BY SplitValues
<1> HIDE DEF kept
<1>3. others \in Seq(Nat) /\ Len(others) = stay + 1 /\ others[stay + 1] = z /\ \A k \in 1..stay : others[k] = kept[k]
  BY <1>1, <1>2, AppendProperties
<1> HIDE DEF others
<1>4. \A k \in 1..stay : others[k] = ops[k]
  BY <1>2, <1>3
<1>5. /\ \A k \in 0..Len(ops) : weight[k] \in Nat
      /\ \A k \in 1..Len(ops) : weight[k] = weight[k - 1] + number_args(tokens[ops[k]]) - 1
  BY DEF Weighs
<1>6. number_args(tokens[z]) \in 1..2 /\ weight[stay] \in Nat
  BY <1>5, Arities
<1>7. v \in [0..(stay + 1) -> Nat]
  <2>1. ASSUME NEW k \in 0..(stay + 1) PROVE v[k] \in Nat
    BY <1>1, <1>5, <1>6
  <2> QED BY <2>1
<1>8. /\ \A k \in 0..stay : v[k] = weight[k]
      /\ v[stay + 1] = weight[stay] + number_args(tokens[z]) - 1
  BY <1>1
<1> HIDE DEF v
<1>9. ASSUME NEW k \in 1..(stay + 1) PROVE v[k] = v[k - 1] + number_args(tokens[others[k]]) - 1
  <2>1. CASE k = stay + 1
    <3>1. k - 1 = stay /\ stay \in 0..stay
      BY <1>1, <2>1
    <3> QED BY <1>3, <1>8, <2>1, <3>1
  <2>2. CASE k # stay + 1
    <3>1. k \in 1..stay /\ k \in 0..stay /\ k - 1 \in 0..stay /\ k \in 1..Len(ops)
      BY <1>1, <2>2
    <3> QED BY <1>4, <1>5, <1>8, <3>1
  <2> QED BY <2>1, <2>2
<1>10. Weighs(tokens, others, v)
  BY <1>3, <1>7, <1>9 DEF Weighs
<1>11. \A k \in 0..stay : Start(others, b, k) = Start(ops, b, k)
  BY <1>1, <1>4 DEF Start
<1>12. OneMore(tokens, ops, weight, b, stay, z, others, v)
  BY <1>3, <1>4, <1>8, <1>10, <1>11 DEF OneMore
<1> QED
  BY <1>12 DEF others, kept

(* The call g that f has become waits for the operand of its operator at z. *)
FitsOn(U, T, tokens, nodes, all, f, g, D, z) ==
  /\ T \subseteq U /\ Built(tokens, all, U) /\ CallFits(U, tokens, all, g, D, z + 1, 0)
  /\ \A i \in 1..f.at : all[i] = nodes[i]

LEMMA OperatorFits ==
  ASSUME NEW T, NEW tokens, NEW nodes, NEW f, NEW D, NEW z, NEW extra \in 0..1, CallFits(T, tokens, nodes, f, D, z, extra),
         Stacking(tokens, nodes, f, z), Built(tokens, nodes, T),
         z \in 1..Len(tokens), tokens[z] \in Operators, nodes[z] = <<>>, extra = number_args(tokens[z]) - 1,
         NEW stay \in 0..Len(f.operators), extra = 0 => stay = Len(f.operators),
         stay > 0 => ~GoesFirst(tokens[f.operators[stay]], tokens[z]),
         \A k \in (stay + 1)..Len(f.operators) : GoesFirst(tokens[f.operators[k]], tokens[z]),
         NEW t, t = add_operators(Stack(f, nodes), SubSeq(f.operators, stay + 1, Len(f.operators))),
         NEW g, g.context = f.context, g.at = f.at, g.arguments = t.arguments,
         g.operators = Append(SubSeq(f.operators, 1, stay), z)
  PROVE  \E U : FitsOn(U, T, tokens, nodes, t.children, f, g, D, z)
<1> DEFINE ops == f.operators
           op == tokens[z]
           all == t.children
           q == t.arguments
           others == g.operators
<1>1. PICK b \in Nat : \E weight : CallAt(T, tokens, nodes, f, D, z, extra, b, weight)
  BY DEF CallFits
<1>2. PICK weight : CallAt(T, tokens, nodes, f, D, z, extra, b, weight)
  BY <1>1
<1>3. /\ Stacked(tokens, ops, weight, D, b, z)
      /\ Weighs(tokens, ops, weight) /\ weight[0] = 0
      /\ Begins(T, tokens, nodes, f, D, b) /\ Inner(tokens, f, D, b, z)
      /\ \A k \in 1..Len(ops) : Waiting(T, tokens, nodes, f.arguments, ops, weight, D, b, z, k)
      /\ LevelOperators(tokens, D, Start(ops, b, Len(ops)), z - 1) = {}
  <2>1. Stacked(tokens, ops, weight, D, b, z)
    BY <1>2, CallStacks
  <2> QED BY <1>2, <2>1 DEF CallAt
<1>4. /\ tokens \in Seq(Tokens) /\ z \in Nat /\ z >= 1 /\ f \in Calls /\ f.at \in Nat /\ Len(nodes) = Len(tokens) /\ Len(tokens) \in Nat
      /\ ops \in Seq(Nat) /\ b >= 1 /\ b <= z /\ stay \in Nat /\ stay <= Len(ops) /\ Len(ops) \in Nat
      /\ \A k \in 1..Len(ops) : ops[k] \in b..(z - 1) /\ tokens[ops[k]] \in Operators
      /\ f.at < b
  <2>1. /\ tokens \in Seq(Tokens) /\ z \in Nat /\ f \in Calls /\ Len(nodes) = Len(tokens)
    BY DEF Stacking
  <2>2. f.at \in Nat /\ f.at < b
    BY <1>3, <2>1 DEF Calls, Inner
  <2>3. /\ ops \in Seq(Nat) /\ b >= 1 /\ b <= z
        /\ \A k \in 1..Len(ops) : ops[k] \in b..(z - 1) /\ tokens[ops[k]] \in Operators
    BY <1>3, Zenon DEF Stacked
  <2>4. Len(tokens) \in Nat /\ Len(ops) \in Nat /\ z >= 1 /\ stay \in Nat /\ stay <= Len(ops)
    <3>1. Len(tokens) \in Nat /\ Len(ops) \in Nat
      BY <2>1, <2>3
    <3> QED BY <3>1
  <2> HIDE DEF ops
  <2> QED BY <2>1, <2>2, <2>3, <2>4, Zenon
<1>5. Reduces(T, tokens, nodes, t, ops, weight, D, b, z, stay, extra)
  BY <1>2, OperatorReduces
<1>5a. PICK U : ReducesTo(U, T, tokens, nodes, t, ops, weight, D, b, z, stay, extra)
  BY <1>5 DEF Reduces
<1>6. /\ T \subseteq U /\ Built(tokens, all, U)
      /\ all \in Seq(Seq(Nat)) /\ Len(all) = Len(tokens)
      /\ \A k \in 1..stay : Waiting(U, tokens, all, q, ops, weight, D, b, z, k)
      /\ Last(U, q, ops, weight, b, z, stay, extra)
      /\ Unchanged(nodes, all, b, z - 1)
  BY <1>5a DEF ReducesTo
<1>7. PICK v : OneMore(tokens, ops, weight, b, stay, z, others, v)
  <2>1. others = Append(SubSeq(ops, 1, stay), z)
    OBVIOUS
  <2>2. ops \in Seq(Nat) /\ stay \in 0..Len(ops) /\ z \in Nat
    BY <1>4
  <2> HIDE DEF ops, others, all, q
  <2>3. \E v : OneMore(tokens, ops, weight, b, stay, z, Append(SubSeq(ops, 1, stay), z), v)
    BY <1>3, <2>2, OneMoreStacked
  <2> QED BY <2>1, <2>3
<1>8. /\ others \in Seq(Nat) /\ Len(others) = stay + 1 /\ others[stay + 1] = z
      /\ Weighs(tokens, others, v)
      /\ \A k \in 0..stay : v[k] = weight[k]
      /\ v[stay + 1] = weight[stay] + extra
      /\ \A k \in 1..stay : others[k] = ops[k]
      /\ \A k \in 0..stay : Start(others, b, k) = Start(ops, b, k)
  <2>1. weight[stay] + number_args(tokens[z]) - 1 = weight[stay] + extra
    <3>1. weight[stay] \in Nat
      BY <1>3, <1>4, WeightsGrow
    <3>2. number_args(tokens[z]) \in Nat
      BY Arities
    <3> QED BY <3>1, <3>2
  <2> HIDE DEF ops, others
  <2> QED BY <1>7, <2>1 DEF OneMore
<1> DEFINE lo == Start(ops, b, stay)
<1> HIDE DEF ops, all, q, others, lo
<1>8a. /\ z \in Nat /\ z >= 1 /\ b \in Nat /\ b >= 1 /\ b <= z /\ stay \in Nat /\ stay <= Len(ops) /\ Len(ops) \in Nat
       /\ f.at \in Nat /\ f.at < b /\ z <= Len(tokens) /\ Len(nodes) = Len(tokens) /\ Len(tokens) \in Nat
  BY <1>4
<1>9. lo \in b..z /\ lo \in Nat /\ Start(others, b, (stay + 1) - 1) = lo
  <2>1. lo \in b..z
    BY <1>3, <1>4, NestedStart DEF lo, ops
  <2>2. (stay + 1) - 1 = stay /\ stay \in 0..stay /\ lo \in Nat
    BY <1>8a, <2>1, SMTT(30)
  <2> QED BY <1>8, <2>1, <2>2 DEF lo
<1>10. /\ Nested(tokens, z) = D /\ Nested(tokens, z + 1) = D /\ ~IsComma(tokens, D, z) /\ tokens[z] \in Operators
  <2>1. Nested(tokens, z) = D
    BY <1>3 DEF Inner
  <2>2. Deeper(tokens[z]) = 0 /\ tokens[z] # ","
    BY TokenKinds DEF Deeper
  <2>3. Nested(tokens, z) \in Int /\ Nested(tokens, z + 1) = Nested(tokens, z) + Deeper(tokens[z])
    BY <1>4, NestedNext
  <2>4. Nested(tokens, z + 1) = D
    <3>1. D \in Int
      BY <2>1, <2>3
    <3>2. Nested(tokens, z + 1) = D + 0
      BY <2>1, <2>2, <2>3
    <3> QED BY <3>1, <3>2
  <2> QED BY <2>1, <2>2, <2>4 DEF IsComma
<1>11. ASSUME NEW k \in 1..stay PROVE Waiting(U, tokens, all, q, others, v, D, b, z + 1, k)
  <2> DEFINE at == ops[k]
             s == Start(ops, b, k - 1)
  <2>1. k \in 1..Len(ops) /\ k \in 0..stay /\ k - 1 \in 0..stay
    BY <1>8a
  <2>2. at \in b..(z - 1) /\ at \in Nat /\ at < z /\ tokens[at] \in Operators
    <3>1. at \in b..(z - 1) /\ tokens[at] \in Operators
      BY <1>4, <2>1
    <3> HIDE DEF at
    <3> QED BY <1>8a, <3>1
  <2>3. others[k] = at /\ Start(others, b, k - 1) = s /\ v[k] = weight[k]
    BY <1>8, <2>1
  <2>4. Waiting(U, tokens, all, q, ops, weight, D, b, z, k)
    BY <1>6
  <2>5. /\ s <= at /\ at < z /\ Nested(tokens, at) = D /\ all[at] = <<>>
        /\ tokens[at] = "not" => at = s
        /\ tokens[at] # "not" => <<q[weight[k]], s, at - 1>> \in U
        /\ \A i \in LevelOperators(tokens, D, s, at - 1) : GoesFirst(tokens[i], tokens[at])
        /\ \A i \in LevelOperators(tokens, D, at + 1, z - 1) : ~GoesFirst(tokens[at], tokens[i])
    BY <2>4, Zenon DEF Waiting
  <2>6. ~GoesFirst(tokens[at], tokens[z])
    <3>1. stay \in 1..Len(ops) /\ stay > 0
      BY <1>4
    <3>2. ~GoesFirst(tokens[ops[stay]], tokens[z])
      BY <3>1 DEF ops
    <3> QED BY <1>3, <2>4, <3>1, <3>2, NoneGoesFirst
  <2> HIDE DEF at, s
  <2>7. \A i \in LevelOperators(tokens, D, at + 1, (z + 1) - 1) : ~GoesFirst(tokens[at], tokens[i])
    <3>1. ASSUME NEW i \in LevelOperators(tokens, D, at + 1, (z + 1) - 1), i # z
          PROVE  i \in LevelOperators(tokens, D, at + 1, z - 1)
      BY <1>4, <2>2, <3>1 DEF LevelOperators
    <3> QED BY <2>5, <2>6, <3>1
  <2>8. at < z + 1
    BY <1>4, <2>2
  <2> QED BY <2>3, <2>5, <2>7, <2>8, Zenon DEF Waiting
<1>12. Last(U, q, ops, weight, b, z, stay, extra)
  BY <1>6
<1>13. Waiting(U, tokens, all, q, others, v, D, b, z + 1, stay + 1)
  <2>1. lo <= z /\ z < z + 1
    BY <1>4, <1>9
  <2>2. all[z] = <<>>
    <3>1. z \in 1..Len(nodes) /\ z \notin b..(z - 1)
      BY <1>8a
    <3> QED BY <1>6, <3>1 DEF Unchanged
  <2>3. tokens[z] = "not" => z = lo
    BY <1>12 DEF Last, lo, number_args
  <2>4. tokens[z] # "not" => <<q[v[stay + 1]], lo, z - 1>> \in U
    BY <1>8, <1>12 DEF Last, lo, number_args
  <2>5. ASSUME NEW i \in LevelOperators(tokens, D, lo, z - 1) PROVE GoesFirst(tokens[i], tokens[z])
    <3>1. stay \in 0..Len(ops) /\ \A k \in (stay + 1)..Len(ops) : GoesFirst(tokens[ops[k]], tokens[z])
      BY DEF ops
    <3>2. i \in LevelOperators(tokens, D, Start(ops, b, stay), z - 1)
      BY <2>5 DEF lo
    <3> QED BY <1>3, <3>1, <3>2, AllGoFirst
  <2>6. LevelOperators(tokens, D, z + 1, (z + 1) - 1) = {}
    BY <1>4 DEF LevelOperators
  <2> QED BY <1>8, <1>9, <1>10, <2>1, <2>2, <2>3, <2>4, <2>5, <2>6 DEF Waiting
<1>14. Last(U, q, others, v, b, z + 1, stay + 1, 0)
  <2>1. Len(q) = v[stay + 1] + 0
    <3>1. weight[stay] \in Nat
      BY <1>3, <1>4, WeightsGrow, SMTT(30)
    <3> QED BY <1>8, <1>12, <3>1 DEF Last
  <2>2. Start(others, b, stay + 1) = z + 1
    BY <1>4, <1>8 DEF Start
  <2> QED BY <2>1, <2>2 DEF Last
<1>15. Inner(tokens, g, D, b, z + 1)
  <2>1. ASSUME NEW i \in (f.at + 1)..(z + 1) PROVE Nested(tokens, i) >= D
    <3>1. i \in (f.at + 1)..z \/ i = z + 1
      BY <1>4
    <3>2. D \in Int
      BY <1>4, <1>10, NestedNext
    <3> QED BY <1>3, <1>10, <3>1, <3>2 DEF Inner
  <2>2. ASSUME NEW i \in b..((z + 1) - 1) PROVE ~IsComma(tokens, D, i)
    <3>1. i \in b..(z - 1) \/ i = z
      BY <1>4
    <3> QED BY <1>3, <1>10, <3>1 DEF Inner
  <2>3. b <= z + 1
    BY <1>4
  <2> QED BY <1>3, <1>10, <2>1, <2>2, <2>3 DEF Inner
<1>16. \A i \in 1..f.at : all[i] = nodes[i]
  <2>1. ASSUME NEW i \in 1..f.at PROVE i \in 1..Len(nodes) /\ i \notin b..(z - 1)
    BY <1>4, SMTT(30)
  <2> QED BY <1>6, <2>1 DEF Unchanged
<1>17. Begins(U, tokens, all, g, D, b)
  <2>1. f.context = "f(" => all[f.at] = nodes[f.at]
    <3>1. f.context = "f(" => f.at >= 1
      BY <1>3 DEF Inner
    <3>2. f.at >= 1 => f.at \in 1..f.at
      BY <1>8a
    <3> QED BY <1>16, <3>1, <3>2
  <2>2. Begins(U, tokens, all, f, D, b)
    BY <1>3, <1>4, <1>6, <2>1, BeginsKept
  <2> QED BY <2>2 DEF Begins
<1>18. LevelOperators(tokens, D, Start(others, b, stay + 1), (z + 1) - 1) = {}
  <2>1. Start(others, b, stay + 1) = z + 1
    BY <1>4, <1>8 DEF Start
  <2> QED BY <1>4, <2>1 DEF LevelOperators
<1>19. CallAt(U, tokens, all, g, D, z + 1, 0, b, v)
  <2>1. \A k \in 1..Len(others) : Waiting(U, tokens, all, q, others, v, D, b, z + 1, k)
    <3>1. \A k \in 1..(stay + 1) : k = stay + 1 \/ k \in 1..stay
      BY <1>4
    <3> QED BY <1>8, <1>11, <1>13, <3>1
  <2>2. v[0] = 0
    <3>1. 0 \in 0..stay
      BY <1>8a
    <3> QED BY <1>3, <1>8, <3>1
  <2> QED BY <1>8, <1>14, <1>15, <1>17, <1>18, <2>1, <2>2 DEF CallAt, others, q
<1> QED
  BY <1>6, <1>16, <1>19 DEF CallFits, FitsOn, all

-----------------------------------------------------------------------------
(* What is built is what the grammar gives. *)

LEMMA TreeOfShorter ==
  ASSUME NEW tokens, NEW nodes, NEW T, NEW V, NEW n, NEW hi \in Nat, NEW lo \in 1..hi, IsTree(tokens, nodes, T, n, lo, hi),
         \A m, l, h : <<m, l, h>> \in T /\ h < l + (hi - lo) => <<m, l, h>> \in V
  PROVE  IsTree(tokens, nodes, V, n, lo, hi)
<1> DEFINE arguments == nodes[n]
           whole == Between(tokens, lo, hi) = {}
           Divided(W) == \E cut \in [0..Len(arguments) -> lo..hi] :
                           /\ cut[0] = lo /\ cut[Len(arguments)] = hi
                           /\ {cut[k] : k \in 1..(Len(arguments) - 1)} = Commas(tokens, lo, hi)
                           /\ \A k \in 1..Len(arguments) : <<arguments[k], cut[k - 1] + 1, cut[k] - 1>> \in W
<1>1. \/ /\ Splits(tokens, n, lo, hi) /\ ~Negates(tokens, lo, hi)
         /\ Len(arguments) = 2 /\ <<arguments[1], lo, n - 1>> \in T /\ <<arguments[2], n + 1, hi>> \in T
      \/ /\ Negates(tokens, lo, hi) /\ n = lo
         /\ Len(arguments) = 1 /\ <<arguments[1], lo + 1, hi>> \in T
      \/ /\ whole /\ tokens[lo] = "(" /\ tokens[hi] = ")"
         /\ <<n, lo + 1, hi - 1>> \in T
      \/ whole /\ tokens[lo] = "f(" /\ tokens[hi] = ")" /\ n = lo /\ Divided(T)
      \/ tokens[lo] = "operand" /\ lo = hi /\ n = lo /\ arguments = <<>>
  BY Zenon DEF IsTree
<1> HIDE DEF arguments, whole
<1>2. CASE /\ Splits(tokens, n, lo, hi) /\ ~Negates(tokens, lo, hi)
           /\ Len(arguments) = 2 /\ <<arguments[1], lo, n - 1>> \in T /\ <<arguments[2], n + 1, hi>> \in T
  <2>1. n \in lo..hi
    BY <1>2 DEF Splits, Between
  <2>2. n - 1 < lo + (hi - lo) /\ hi < (n + 1) + (hi - lo)
    BY <2>1
  <2>3. <<arguments[1], lo, n - 1>> \in V /\ <<arguments[2], n + 1, hi>> \in V
    BY <1>2, <2>2
  <2> QED BY <1>2, <2>3 DEF IsTree, arguments
<1>3. CASE /\ Negates(tokens, lo, hi) /\ n = lo
           /\ Len(arguments) = 1 /\ <<arguments[1], lo + 1, hi>> \in T
  <2>1. hi < (lo + 1) + (hi - lo)
    OBVIOUS
  <2>2. <<arguments[1], lo + 1, hi>> \in V
    BY <1>3, <2>1
  <2> QED BY <1>3, <2>2 DEF IsTree, arguments
<1>4. CASE /\ whole /\ tokens[lo] = "(" /\ tokens[hi] = ")"
           /\ <<n, lo + 1, hi - 1>> \in T
  <2>1. hi - 1 < (lo + 1) + (hi - lo)
    OBVIOUS
  <2>2. <<n, lo + 1, hi - 1>> \in V
    BY <1>4, <2>1
  <2> QED BY <1>4, <2>2 DEF IsTree, whole
<1>5. CASE whole /\ tokens[lo] = "f(" /\ tokens[hi] = ")" /\ n = lo /\ Divided(T)
  <2>1. PICK cut \in [0..Len(arguments) -> lo..hi] :
          /\ cut[0] = lo /\ cut[Len(arguments)] = hi
          /\ {cut[k] : k \in 1..(Len(arguments) - 1)} = Commas(tokens, lo, hi)
          /\ \A k \in 1..Len(arguments) : <<arguments[k], cut[k - 1] + 1, cut[k] - 1>> \in T
    BY <1>5
  <2>2. ASSUME NEW k \in 1..Len(arguments) PROVE <<arguments[k], cut[k - 1] + 1, cut[k] - 1>> \in V
    <3>1. k - 1 \in 0..Len(arguments) /\ k \in 0..Len(arguments)
      OBVIOUS
    <3>2. cut[k - 1] \in lo..hi /\ cut[k] \in lo..hi
      BY <2>1, <3>1
    <3> DEFINE l == cut[k - 1] + 1
               h == cut[k] - 1
    <3>3. h < l + (hi - lo)
      BY <3>2
    <3>4. <<arguments[k], l, h>> \in T
      BY <2>1
    <3> HIDE DEF l, h
    <3>5. <<arguments[k], l, h>> \in V
      BY <3>3, <3>4
    <3> QED BY <3>5 DEF l, h
  <2>3. Divided(V)
    BY <2>1, <2>2
  <2> QED BY <1>5, <2>3, Zenon DEF IsTree, arguments, whole
<1>6. CASE tokens[lo] = "operand" /\ lo = hi /\ n = lo /\ arguments = <<>>
  BY <1>6 DEF IsTree, arguments
<1> HIDE DEF Divided
<1> QED
  BY <1>1, <1>2, <1>3, <1>4, <1>5, <1>6

Shorter(tokens, nodes, T, k) ==
  {t \in (1..Len(tokens)) \X (1..Len(tokens)) \X (1..Len(tokens)) :
     t[2] <= t[3] /\ t[3] < t[2] + k /\ IsTree(tokens, nodes, T, t[1], t[2], t[3])}

IsUpTo(tokens, nodes, n, f) == f = [k \in 0..n |-> IF k = 0 THEN {} ELSE Shorter(tokens, nodes, f[k - 1], k)]

LEMMA UpToExists ==
  ASSUME NEW tokens, NEW nodes, NEW n \in Nat
  PROVE  \E f : IsUpTo(tokens, nodes, n, f)
<1> DEFINE S == {m \in Nat : \E f : IsUpTo(tokens, nodes, m, f)}
<1>1. 0 \in S
  <2>1. IsUpTo(tokens, nodes, 0, [m \in 0..0 |-> {}])
    BY DEF IsUpTo
  <2> QED BY <2>1
<1>2. ASSUME NEW m \in S PROVE m + 1 \in S
  <2>1. PICK f : IsUpTo(tokens, nodes, m, f)
    BY <1>2
  <2> DEFINE g == [i \in 0..(m + 1) |-> IF i = m + 1 THEN Shorter(tokens, nodes, f[m], m + 1) ELSE f[i]]
  <2>2. ASSUME NEW i \in 0..(m + 1)
        PROVE  g[i] = IF i = 0 THEN {} ELSE Shorter(tokens, nodes, g[i - 1], i)
    <3>1. m \in Nat /\ f = [k \in 0..m |-> IF k = 0 THEN {} ELSE Shorter(tokens, nodes, f[k - 1], k)]
      BY <1>2, <2>1 DEF IsUpTo
    <3>2. CASE i = m + 1
      <4>1. i - 1 = m /\ m \in 0..(m + 1) /\ m # m + 1 /\ i # 0
        BY <3>1, <3>2
      <4>2. g[i] = Shorter(tokens, nodes, f[m], i) /\ g[i - 1] = f[m]
        BY <3>2, <4>1
      <4> QED BY <4>1, <4>2
    <3>3. CASE i # m + 1
      <4>1. i \in 0..m /\ g[i] = f[i]
        BY <3>1, <3>3
      <4>2. i # 0 => i - 1 \in 0..(m + 1) /\ i - 1 # m + 1
        BY <3>1, <4>1
      <4>3. i # 0 => g[i - 1] = f[i - 1]
        BY <4>2
      <4>4. f[i] = IF i = 0 THEN {} ELSE Shorter(tokens, nodes, f[i - 1], i)
        BY <3>1, <4>1
      <4> HIDE DEF g
      <4> QED BY <4>1, <4>3, <4>4
    <3> QED BY <3>2, <3>3
  <2>3. IsUpTo(tokens, nodes, m + 1, g)
    BY <2>2 DEF IsUpTo
  <2> QED BY <1>2, <2>3
<1> QED
  BY <1>1, <1>2, CountingUp

LEMMA BuiltAreTrees ==
  ASSUME NEW tokens, NEW nodes, NEW T, Built(tokens, nodes, T), Len(tokens) \in Nat,
         NEW n, NEW lo, NEW hi, <<n, lo, hi>> \in T
  PROVE  <<n, lo, hi>> \in Trees(tokens, nodes)
<1> DEFINE N == Len(tokens)
           f == CHOOSE f : IsUpTo(tokens, nodes, N, f)
<1>1. Trees(tokens, nodes) = f[N]
  BY DEF Trees, IsUpTo, Shorter
<1>2. IsUpTo(tokens, nodes, N, f)
  BY UpToExists
<1> HIDE DEF f
<1> DEFINE S == {k \in Nat : k <= N => \A m, l, h : <<m, l, h>> \in T /\ h < l + k => <<m, l, h>> \in f[k]}
<1>3. 0 \in S
  <2>1. ASSUME NEW m, NEW l, NEW h, <<m, l, h>> \in T, h < l + 0 PROVE FALSE
    <3>1. h \in 1..N /\ l \in 1..h
      BY <2>1 DEF Built
    <3> QED BY <2>1, <3>1
  <2> QED BY <2>1
<1>4. ASSUME NEW k \in S PROVE k + 1 \in S
  <2>1. SUFFICES ASSUME k + 1 <= N, NEW m, NEW l, NEW h, <<m, l, h>> \in T, h < l + (k + 1)
                 PROVE  <<m, l, h>> \in f[k + 1]
    BY <1>4
  <2>2. /\ m \in 1..N /\ h \in 1..N /\ l \in 1..h /\ IsTree(tokens, nodes, T, m, l, h)
    BY <2>1 DEF Built
  <2>3. k \in Nat /\ k + 1 \in 0..N /\ (k + 1) - 1 = k /\ k + 1 # 0 /\ k <= N
    BY <1>4, <2>1
  <2>4. ASSUME NEW m2, NEW l2, NEW h2, <<m2, l2, h2>> \in T, h2 < l2 + (h - l) PROVE <<m2, l2, h2>> \in f[k]
    <3>1. h2 \in 1..N /\ l2 \in 1..h2
      BY <2>4 DEF Built
    <3>2. h2 < l2 + k
      BY <2>1, <2>2, <2>3, <2>4, <3>1, SMTT(30)
    <3> QED BY <1>4, <2>3, <2>4, <3>2
  <2>5. IsTree(tokens, nodes, f[k], m, l, h)
    <3>1. h \in Nat
      BY <2>2
    <3> QED BY <2>2, <2>4, <3>1, TreeOfShorter
  <2>6. f[k + 1] = Shorter(tokens, nodes, f[k], k + 1)
    BY <1>2, <2>3 DEF IsUpTo
  <2>7. <<m, l, h>> \in Shorter(tokens, nodes, f[k], k + 1)
    <3>1. l \in 1..N /\ l <= h
      BY <2>2
    <3> QED BY <2>1, <2>2, <2>5, <3>1 DEF Shorter
  <2> QED BY <2>6, <2>7
<1>5. S = Nat
  <2> HIDE DEF S
  <2>1. S \in SUBSET Nat
    BY DEF S
  <2> QED BY <1>3, <1>4, <2>1, CountingUp
<1>6. hi < lo + N
  <2>1. hi \in 1..N /\ lo \in 1..hi
    BY DEF Built
  <2> QED BY <2>1
<1> QED
  BY <1>1, <1>5, <1>6

-----------------------------------------------------------------------------
(* The calls under way. *)

LEMMA CallsAt ==
  ASSUME NEW T, NEW tokens, NEW nodes, NEW calls \in Seq(Calls), Len(calls) >= 1, NEW z \in Nat, NEW due,
         Parses(T, tokens, nodes, calls, z, due)
  PROVE  /\ Len(calls) \in Nat /\ calls[Len(calls)].at < z
         /\ \A d \in 1..Len(calls) : calls[d] \in Calls /\ calls[d].at \in Nat /\ calls[d].at <= calls[Len(calls)].at
<1> DEFINE L == Len(calls)
<1>1. L \in Nat /\ L \in 1..L /\ \A d \in 1..L : calls[d] \in Calls
  OBVIOUS
<1>2. \A d \in 1..L : calls[d].at \in Nat
  BY <1>1 DEF Calls
<1> DEFINE extra == IF due THEN 0 ELSE 1
<1> HIDE DEF L, extra
<1>3. CallFits(T, tokens, nodes, calls[L], L - 1, z, extra) /\ \A d, e \in 1..L : d < e => calls[d].at < calls[e].at
  BY DEF Parses, L, extra
<1>4. PICK b \in Nat : \E weight : CallAt(T, tokens, nodes, calls[L], L - 1, z, extra, b, weight)
  BY <1>3 DEF CallFits
<1>5. calls[L].at < b /\ b <= z
  BY <1>4 DEF CallAt, Inner
<1>6. calls[L].at < z
  BY <1>1, <1>2, <1>5
<1>7. ASSUME NEW d \in 1..L PROVE calls[d].at <= calls[L].at
  <2>1. d < L => calls[d].at < calls[L].at
    BY <1>1, <1>3
  <2>2. d < L \/ d = L
    BY <1>1
  <2> QED BY <1>1, <1>2, <2>1, <2>2
<1> QED
  BY <1>1, <1>2, <1>6, <1>7 DEF L

OuterFit(T, tokens, nodes, calls) ==
  \A d \in 1..(Len(calls) - 1) : CallFits(T, tokens, nodes, calls[d], d - 1, calls[d + 1].at, 0)

(* The calls but the innermost keep what they have, whatever that one does.    *)
LEMMA OuterKept ==
  ASSUME NEW T, NEW tokens, NEW nodes, NEW calls \in Seq(Calls), Len(calls) >= 1, NEW z \in Nat, NEW due,
         Parses(T, tokens, nodes, calls, z, due),
         NEW U, T \subseteq U,
         NEW more, \A i \in 1..(calls[Len(calls)].at - 1) : more[i] = tokens[i],
         NEW all, \A i \in 1..(calls[Len(calls)].at - 1) : all[i] = nodes[i]
  PROVE  OuterFit(U, more, all, calls)
<1>0. SUFFICES ASSUME NEW d \in 1..(Len(calls) - 1) PROVE CallFits(U, more, all, calls[d], d - 1, calls[d + 1].at, 0)
  BY DEF OuterFit
<1>1. /\ Len(calls) \in Nat
      /\ \A e \in 1..Len(calls) : calls[e] \in Calls /\ calls[e].at \in Nat /\ calls[e].at <= calls[Len(calls)].at
  BY CallsAt
<1>2. d \in 1..Len(calls) /\ d + 1 \in 1..Len(calls)
  BY <1>1
<1> DEFINE y == calls[d + 1].at
           last == calls[Len(calls)].at
<1>3. y \in Nat /\ y <= last /\ last \in Nat
  BY <1>1, <1>2
<1>4. CallFits(T, tokens, nodes, calls[d], d - 1, y, 0)
  BY DEF Parses
<1> HIDE DEF y
<1>5. (\A i \in 1..(y - 1) : more[i] = tokens[i]) /\ (\A i \in 1..(y - 1) : all[i] = nodes[i])
  BY <1>3
<1>6. calls[d] \in Calls
  BY <1>1, <1>2
<1>7. CallFits(U, more, all, calls[d], d - 1, y, 0)
  BY <1>3, <1>4, <1>5, <1>6, CallKept
<1> QED
  BY <1>7 DEF y

(* All calls keep what they have when more is read and built. *)
LEMMA ParsesMore ==
  ASSUME NEW T, NEW tokens, NEW nodes, NEW calls \in Seq(Calls), Len(calls) >= 1, NEW z \in Nat, NEW due,
         Parses(T, tokens, nodes, calls, z, due),
         NEW more, \A i \in 1..(z - 1) : more[i] = tokens[i],
         NEW all, \A i \in 1..(z - 1) : all[i] = nodes[i],
         NEW U, T \subseteq U, Built(more, all, U)
  PROVE  Parses(U, more, all, calls, z, due)
<1> DEFINE L == Len(calls)
           extra == IF due THEN 0 ELSE 1
           last == calls[L].at
<1>1. L \in Nat /\ L \in 1..L /\ calls[L] \in Calls
  OBVIOUS
<1> HIDE DEF extra, last
<1>2. CallFits(T, tokens, nodes, calls[L], L - 1, z, extra) /\ \A d, e \in 1..L : d < e => calls[d].at < calls[e].at
  BY DEF Parses, extra
<1>2a. last \in Nat /\ last < z
  BY <1>1, CallsAt DEF last
<1>2b. (\A i \in 1..(last - 1) : more[i] = tokens[i]) /\ (\A i \in 1..(last - 1) : all[i] = nodes[i])
  BY <1>2a
<1>3. OuterFit(U, more, all, calls)
  <2>1. /\ \A i \in 1..(calls[Len(calls)].at - 1) : more[i] = tokens[i]
        /\ \A i \in 1..(calls[Len(calls)].at - 1) : all[i] = nodes[i]
    BY <1>2b DEF last
  <2> HIDE DEF L
  <2> QED BY <2>1, OuterKept
<1>4. CallFits(U, more, all, calls[L], L - 1, z, extra)
  <2> DEFINE f == calls[L]
             D == L - 1
  <2> HIDE DEF f, D
  <2>1. f \in Calls /\ CallFits(T, tokens, nodes, f, D, z, extra)
    BY <1>1, <1>2 DEF f, D
  <2>2. CallFits(U, more, all, f, D, z, extra)
    BY <2>1, CallKept
  <2> QED BY <2>2 DEF f, D
<1> QED
  BY <1>2, <1>3, <1>4 DEF Parses, OuterFit, extra

(* The innermost call is given the operand that it waits for. *)
LEMMA ResumedParses ==
  ASSUME NEW T, NEW tokens, NEW nodes, NEW calls \in Seq(Calls), Len(calls) >= 1, NEW z \in Nat,
         Parses(T, tokens, nodes, calls, z, TRUE),
         NEW hi \in Nat, hi >= z, Hidden(tokens, Len(calls) - 1, z, hi),
         NEW node \in Nat, <<node, z, hi>> \in T
  PROVE  Parses(T, tokens, nodes, Resumed(calls, node), hi + 1, FALSE)
<1> DEFINE L == Len(calls)
           now == Resumed(calls, node)
           f == calls[L]
           g == now[L]
<1>1. L \in Nat /\ L \in 1..L /\ f \in Calls
  OBVIOUS
<1>2. HasResumed(calls, node, now)
  BY ResumedFacts
<1>3. g.arguments = Append(f.arguments, node)
  <2> DEFINE r == [f EXCEPT !.arguments = Append(@, node)]
  <2>1. now = [calls EXCEPT ![L] = r]
    BY DEF Resumed
  <2>2. r.arguments = Append(f.arguments, node)
    BY <1>1 DEF Calls
  <2> HIDE DEF r
  <2>3. g = r
    BY <1>1, <2>1
  <2> QED BY <2>2, <2>3
<1> HIDE DEF L, now, f, g
<1>4. /\ Len(now) = L /\ \A d \in 1..L : d # L => now[d] = calls[d]
      /\ g.context = f.context /\ g.at = f.at /\ g.operators = f.operators
  BY <1>2, Zenon DEF HasResumed, L, f, g
<1>5. /\ Built(tokens, nodes, T)
      /\ \A d \in 1..(L - 1) : CallFits(T, tokens, nodes, calls[d], d - 1, calls[d + 1].at, 0)
      /\ CallFits(T, tokens, nodes, f, L - 1, z, 0)
      /\ \A d, e \in 1..L : d < e => calls[d].at < calls[e].at
  BY DEF Parses, L, f
<1>6. CallFits(T, tokens, nodes, g, L - 1, hi + 1, 1)
  <2>1. Hidden(tokens, L - 1, z, hi)
    BY DEF L
  <2> QED BY <1>1, <1>3, <1>4, <1>5, <2>1, OperandGiven
<1>7. \A d \in 1..L : now[d].at = calls[d].at
  BY <1>4 DEF f, g
<1>8. \A d \in 1..(L - 1) : now[d] = calls[d] /\ now[d + 1].at = calls[d + 1].at
  BY <1>1, <1>4, <1>7
<1>9. \A d \in 1..(L - 1) : CallFits(T, tokens, nodes, now[d], d - 1, now[d + 1].at, 0)
  BY <1>5, <1>8
<1>10. \A d, e \in 1..L : d < e => now[d].at < now[e].at
  BY <1>5, <1>7
<1>11. Parses(T, tokens, nodes, now, hi + 1, FALSE)
  BY <1>4, <1>5, <1>6, <1>9, <1>10 DEF Parses, g
<1> QED
  BY <1>11 DEF now

(* A call that begins. *)
LEMMA CallBegins ==
  ASSUME NEW T, NEW tokens, NEW nodes, NEW context, NEW at \in Nat, NEW D, NEW b \in Nat, b >= 1,
         Begins(T, tokens, nodes, Frame(context, at), D, b), Inner(tokens, Frame(context, at), D, b, b)
  PROVE  CallFits(T, tokens, nodes, Frame(context, at), D, b, 0)
<1> DEFINE f == Frame(context, at)
           weight == [k \in 0..0 |-> 0]
<1>1. f.arguments = <<>> /\ f.operators = <<>>
  BY DEF Frame
<1> HIDE DEF f
<1>2. Weighs(tokens, <<>>, weight) /\ weight[0] = 0
  BY DEF Weighs
<1> HIDE DEF weight
<1>3. Last(T, <<>>, <<>>, weight, b, b, Len(<<>>), 0)
  BY <1>2 DEF Last, Start
<1>4. LevelOperators(tokens, D, Start(<<>>, b, Len(<<>>)), b - 1) = {}
  BY DEF LevelOperators, Start
<1>5. \A k \in 1..Len(<<>>) : Waiting(T, tokens, nodes, <<>>, <<>>, weight, D, b, b, k)
  OBVIOUS
<1>6. CallAt(T, tokens, nodes, f, D, b, 0, b, weight)
  BY <1>1, <1>2, <1>3, <1>4, <1>5 DEF CallAt, f
<1> QED
  BY <1>6 DEF CallFits, f

(* A parenthesis hides all that is in it from the call around it.              *)
LEMMA Enclosed ==
  ASSUME NEW tokens, NEW f \in Calls, f.context \in {"(", "f("}, NEW D, NEW b \in Nat, NEW z \in Nat,
         Inner(tokens, f, D, b, z), tokens[z] = ")"
  PROVE  /\ f.at \in Nat /\ f.at >= 1 /\ f.at < b /\ b <= z /\ tokens[f.at] = f.context
         /\ Between(tokens, f.at, z) = {} /\ Hidden(tokens, D - 1, f.at, z) /\ D \in Int
<1> DEFINE at == f.at
<1>1. /\ at \in Nat /\ at >= 1 /\ at < b /\ b <= z /\ tokens[at] = f.context
      /\ Nested(tokens, at) = D - 1 /\ Nested(tokens, z) = D
      /\ \A i \in (at + 1)..z : Nested(tokens, i) >= D
  BY DEF Inner, Calls
<1> HIDE DEF at
<1>2. D \in Int /\ \A i \in Nat : i >= 1 => Nested(tokens, i) \in Int
  BY <1>1, NestedNext
<1>3. tokens[at] # "," /\ tokens[at] \notin Operators
  BY <1>1, TokenKinds
<1>4. \A i \in at..z : i = at \/ Nested(tokens, i) > D - 1
  <2>1. ASSUME NEW i \in at..z, i # at PROVE Nested(tokens, i) > D - 1
    <3>1. i \in (at + 1)..z /\ i \in Nat /\ i >= 1
      BY <1>1, <2>1
    <3> DEFINE m == Nested(tokens, i)
    <3>2. m \in Int /\ m >= D
      BY <1>1, <1>2, <3>1
    <3> HIDE DEF m
    <3>3. m > D - 1
      BY <1>2, <3>2
    <3> QED BY <3>3 DEF m
  <2> QED BY <2>1
<1>5. Nested(tokens, z + 1) = D - 1
  <2>1. Deeper(tokens[z]) = -1 /\ z >= 1
    BY <1>1 DEF Deeper
  <2>2. Nested(tokens, z + 1) = Nested(tokens, z) + Deeper(tokens[z])
    BY <2>1, NestedNext
  <2> QED BY <1>1, <1>2, <2>1, <2>2
<1>6. \A i \in at..z : i # at => Nested(tokens, i) # D - 1
  <2>1. ASSUME NEW i \in at..z, i # at PROVE Nested(tokens, i) # D - 1
    <3>1. Nested(tokens, i) > D - 1 /\ Nested(tokens, i) \in Int
      BY <1>1, <1>2, <1>4, <2>1
    <3> QED BY <1>2, <3>1
  <2> QED BY <2>1
<1>7. Between(tokens, at, z) = {}
  BY <1>1, <1>3, <1>6 DEF Between, Binary
<1>8. Hidden(tokens, D - 1, at, z)
  <2>1. \A i \in at..z : ~IsComma(tokens, D - 1, i) /\ ~(tokens[i] \in Operators /\ Nested(tokens, i) = D - 1)
    BY <1>3, <1>6 DEF IsComma
  <2>2. ASSUME NEW i \in at..(z + 1) PROVE Nested(tokens, i) >= D - 1
    <3>1. i = at \/ i = z + 1 \/ (i \in at..z /\ i # at /\ i \in Nat /\ i >= 1)
      BY <1>1
    <3>2. CASE i = at \/ i = z + 1
      BY <1>1, <1>2, <1>5, <3>2
    <3>3. CASE i \in at..z /\ i # at /\ i \in Nat /\ i >= 1
      <4>1. Nested(tokens, i) > D - 1 /\ Nested(tokens, i) \in Int
        BY <1>2, <1>4, <3>3
      <4> QED BY <1>2, <4>1
    <3> QED BY <3>1, <3>2, <3>3
  <2> QED BY <1>5, <2>1, <2>2 DEF Hidden
<1> QED
  BY <1>1, <1>2, <1>7, <1>8 DEF at

-----------------------------------------------------------------------------
(* The steps of the parser. *)

(* The inductive invariant: what has been read is in trees, which the calls hold *)
(* as their operators need them; and the whole expression is one in the end.   *)
GrammarIInv ==
  /\ outcome = "parsing" /\ Shape.ok => \E T : Parses(T, words, children, frames, Here, Shape.due)
  /\ outcome = "parsed" /\ Shape.ok /\ ~Shape.due /\ Shape.open = <<>> =>
       \E T : Built(words, children, T) /\ <<root, 1, Len(words)>> \in T

(* A function whose arguments are read is in no tree yet. *)
NoTreeAt(T, f) == f.context = "f(" => \A lo, hi : <<f.at, lo, hi>> \notin T

LEMMA ReadKept ==
  ASSUME ExprIInv, GrammarIInv, NEW token \in Tokens, Reading(token), Shape.ok
  PROVE  \E T : Parses(T, words', Nodes, frames, Here, Shape.due) /\ NoTreeAt(T, Current)
<1>1. /\ outcome = "parsing" /\ words' \in Seq(Tokens) /\ Len(words') = Here /\ words'[Here] = token /\ Here \in Nat
      /\ \A i \in 1..Len(words) : words'[i] = words[i]
      /\ Structure(words', Nodes, frames)
  BY AfterReading
<1>2. Structure(words, children, frames)
  BY <1>1 DEF ExprIInv
<1>3. /\ Level \in Nat /\ Level >= 1 /\ Level = Len(frames) /\ frames \in Seq(Calls)
      /\ Current = frames[Level] /\ Current \in Calls
      /\ children \in Seq(Seq(Nat)) /\ Len(children) = Len(words) /\ Len(words) \in Nat
  BY <1>2, CurrentIs
<1>4. Here = Len(words) + 1
  BY DEF Here
<1>5. \A i \in 1..Len(words) : Nodes[i] = children[i]
  BY <1>3 DEF Nodes
<1>6. PICK T : Parses(T, words, children, frames, Here, Shape.due)
  BY <1>1 DEF GrammarIInv
<1> DEFINE D == Level - 1
           extra == IF Shape.due THEN 0 ELSE 1
<1> HIDE DEF extra
<1>7. /\ Built(words, children, T) /\ CallFits(T, words, children, Current, D, Here, extra)
      /\ \A d, e \in 1..Level : d < e => frames[d].at < frames[e].at
  BY <1>3, <1>6 DEF Parses, extra
<1>8. Built(words', Nodes, T)
  <2>1. ASSUME NEW n, NEW lo, NEW hi, <<n, lo, hi>> \in T PROVE Nodes[n] = children[n]
    BY <1>5, <1>7, <2>1 DEF Built
  <2>2. Len(words') \in Nat /\ Len(words') >= Len(words)
    BY <1>1, <1>3, <1>4
  <2> QED BY <1>1, <1>3, <1>7, <2>1, <2>2, BuiltMore
<1>9. (\A i \in 1..(Here - 1) : words'[i] = words[i]) /\ (\A i \in 1..(Here - 1) : Nodes[i] = children[i])
  BY <1>1, <1>3, <1>4, <1>5
<1>10. Len(frames) >= 1 /\ T \subseteq T
  BY <1>3
<1>11. Parses(T, words', Nodes, frames, Here, Shape.due)
  <2> HIDE DEF D
  <2>1. frames \in Seq(Calls) /\ Here \in Nat
    BY <1>1, <1>3
  <2> QED BY <1>6, <1>8, <1>9, <1>10, <2>1, ParsesMore
<1>12. ASSUME Current.context = "f(", NEW lo, NEW hi, <<Current.at, lo, hi>> \in T PROVE FALSE
  <2>1. PICK b \in Nat : \E weight : CallAt(T, words, children, Current, D, Here, extra, b, weight)
    BY <1>7 DEF CallFits
  <2>2. Inner(words, Current, D, b, Here)
    BY <2>1 DEF CallAt
  <2> DEFINE at == Current.at
  <2> HIDE DEF D
  <2>3. /\ at \in Nat /\ at >= 1 /\ words[at] = "f(" /\ Nested(words, at) = D - 1
        /\ \A i \in (at + 1)..Here : Nested(words, i) >= D
    BY <1>3, <1>12, <2>2 DEF Inner, Calls
  <2>4. Finished(words, children, at)
    BY <1>7, <1>12 DEF Built
  <2> HIDE DEF at
  <2>5. PICK i \in (at + 1)..Here : Nested(words, i) <= Nested(words, at)
    BY <1>4, <2>3, <2>4 DEF Finished
  <2>6. Nested(words, i) >= D /\ Nested(words, i) <= D - 1 /\ D \in Int
    <3>1. D \in Int
      BY <1>3 DEF D
    <3> QED BY <2>3, <2>5, <3>1
  <2>7. Nested(words, i) \in Int
    <3>1. i \in Nat /\ i >= 1
      BY <1>1, <2>3
    <3> QED BY <3>1, NestedNext
  <2> QED BY <2>6, <2>7
<1>13. NoTreeAt(T, Current)
  BY <1>12 DEF NoTreeAt
<1> QED
  BY <1>11, <1>13

LEMMA GrammarContinues ==
  ASSUME ExprIInv, NEW token \in Tokens, Reading(token), outcome' = outcome,
         Read(Shape, token).ok => \E T : Parses(T, words', children', frames', Here + 1, Read(Shape, token).due)
  PROVE  GrammarIInv'
<1>1. /\ outcome = "parsing" /\ words' = Append(words, token) /\ Len(words') = Here
      /\ Structure(words, children, frames)
  BY AfterReading DEF ExprIInv
<1>2. Shape' = Read(Shape, token)
  BY <1>1, ShapeRead
<1>3. Here' = Here + 1
  BY <1>1 DEF Here
<1> QED
  BY <1>1, <1>2, <1>3 DEF GrammarIInv

LEMMA OperandParsed ==
  ASSUME ExprIInv, GrammarIInv, Operand
  PROVE  GrammarIInv'
<1> DEFINE token == "operand"
           s == Read(Shape, token)
<1>1. token \in Tokens /\ Reading(token) /\ outcome' = outcome
  BY DEF Operand, Tokens, Resume
<1>2. children' = Nodes /\ frames' = Resumed(frames, Here)
  BY DEF Operand, Resume, Resumed
<1>3. /\ Structure(words', Nodes, frames) /\ Here \in Nat /\ Len(words') = Here /\ words'[Here] = token
      /\ words' \in Seq(Tokens)
  BY <1>1, AfterReading
<1>4. /\ Level \in Nat /\ Level >= 1 /\ Level = Len(frames) /\ frames \in Seq(Calls)
      /\ Current = frames[Level] /\ Current \in Calls /\ Len(children) = Len(words) /\ Len(words) \in Nat
      /\ children \in Seq(Seq(Nat))
  BY <1>1, CurrentIs, AfterReading DEF ExprIInv
<1>5. Nodes[Here] = <<>> /\ Here >= 1
  BY <1>4 DEF Nodes, Here
<1>6. ASSUME s.ok PROVE \E T : Parses(T, words', children', frames', Here + 1, s.due)
  <2>1. Shape.ok /\ Shape.due /\ ~s.due
    <3>1. s = [ok |-> Shape.ok /\ Shape.due, due |-> FALSE, tight |-> FALSE, open |-> Shape.open]
      BY ReadOperand
    <3> HIDE DEF s
    <3> QED BY <1>6, <3>1
  <2>2. PICK T : Parses(T, words', Nodes, frames, Here, TRUE)
    <3>1. PICK T : Parses(T, words', Nodes, frames, Here, Shape.due)
      BY <1>1, <2>1, ReadKept
    <3>2. Parses(T, words', Nodes, frames, Here, TRUE)
      BY <2>1, <3>1 DEF Parses
    <3> QED BY <3>2
  <2> DEFINE U == T \cup {<<Here, Here, Here>>}
             D == Level - 1
  <2> HIDE DEF s
  <2>3. Built(words', Nodes, U)
    <3>1. Built(words', Nodes, T)
      BY <2>2 DEF Parses
    <3>2. IsTree(words', Nodes, U, Here, Here, Here)
      BY <1>3, <1>5 DEF IsTree
    <3>3. Finished(words', Nodes, Here)
      BY <1>3, TokenKinds DEF Finished
    <3>4. Here \in 1..Len(words') /\ Here \in 1..Here /\ Len(words') \in Nat /\ Len(words') >= Len(words')
      BY <1>3, <1>5
    <3>5. \A n, lo, hi : <<n, lo, hi>> \in U /\ <<n, lo, hi>> \notin T => n = Here /\ lo = Here /\ hi = Here
      OBVIOUS
    <3>6. T \subseteq U
      OBVIOUS
    <3> HIDE DEF U
    <3>7. \A n, lo, hi : <<n, lo, hi>> \in U /\ <<n, lo, hi>> \notin T =>
            /\ n \in 1..Len(words') /\ hi \in 1..Len(words') /\ lo \in 1..hi
            /\ IsTree(words', Nodes, U, n, lo, hi) /\ Finished(words', Nodes, n)
      BY <3>2, <3>3, <3>4, <3>5
    <3> QED BY <3>1, <3>4, <3>6, <3>7, BuiltMore
  <2>4. Parses(U, words', Nodes, frames, Here, TRUE)
    <3>1. T \subseteq U
      OBVIOUS
    <3> HIDE DEF U
    <3> QED BY <1>3, <1>4, <2>2, <2>3, <3>1, ParsesMore
  <2>5. Hidden(words', D, Here, Here)
    <3>1. CallFits(U, words', Nodes, Current, D, Here, 0)
      BY <1>4, <2>4 DEF Parses
    <3>2. PICK b \in Nat : \E weight : CallAt(U, words', Nodes, Current, D, Here, 0, b, weight)
      BY <3>1 DEF CallFits
    <3>3. Nested(words', Here) = D /\ D \in Int
      BY <1>4, <3>2 DEF CallAt, Inner
    <3>4. Deeper(words'[Here]) = 0
      BY <1>3 DEF Deeper
    <3>5. Nested(words', Here + 1) = Nested(words', Here) + Deeper(words'[Here])
      BY <1>3, <1>5, NestedNext
    <3>6. Nested(words', Here + 1) = D
      BY <3>3, <3>4, <3>5
    <3>7. words'[Here] # "," /\ words'[Here] \notin Operators
      BY <1>3, TokenKinds
    <3> HIDE DEF D
    <3>8. \A i \in Here..Here : i = Here
      BY <1>3
    <3>9. \A i \in Here..(Here + 1) : i = Here \/ i = Here + 1
      BY <1>3
    <3>10. Nested(words', Here) >= D /\ Nested(words', Here + 1) >= D
      BY <3>3, <3>6
    <3>11. \A i \in Here..(Here + 1) : Nested(words', i) >= D
      BY <3>9, <3>10
    <3> QED BY <3>6, <3>7, <3>8, <3>11 DEF Hidden, IsComma
  <2>6. Parses(U, words', Nodes, Resumed(frames, Here), Here + 1, FALSE)
    <3>1. <<Here, Here, Here>> \in U /\ Len(frames) - 1 = D /\ Here >= Here
      BY <1>3, <1>4
    <3> HIDE DEF U, D
    <3> QED BY <1>3, <1>4, <2>4, <2>5, <3>1, ResumedParses
  <2>7. Parses(U, words', children', frames', Here + 1, s.due)
    BY <1>2, <2>1, <2>6 DEF Parses
  <2> QED BY <2>7
<1> QED
  BY <1>1, <1>6, GrammarContinues

(* The calls but the innermost are kept. *)
OuterCalls(T, tokens, nodes, calls) ==
  OuterFit(T, tokens, nodes, calls) /\ \A d, e \in 1..Len(calls) : d < e => calls[d].at < calls[e].at

SameBelow(nodes, all, at) == \A i \in 1..(at - 1) : all[i] = nodes[i]

LEMMA OuterStay ==
  ASSUME NEW T, NEW tokens, NEW nodes, NEW calls \in Seq(Calls), Len(calls) >= 1, NEW z \in Nat, NEW due,
         Parses(T, tokens, nodes, calls, z, due),
         NEW U, T \subseteq U,
         NEW all, SameBelow(nodes, all, calls[Len(calls)].at)
  PROVE  OuterCalls(U, tokens, all, calls)
<1>1. OuterFit(U, tokens, all, calls)
  <2>1. \A i \in 1..(calls[Len(calls)].at - 1) : tokens[i] = tokens[i] /\ all[i] = nodes[i]
    BY DEF SameBelow
  <2> QED BY <2>1, OuterKept
<1> QED
  BY <1>1 DEF OuterCalls, Parses

(* The innermost call goes on, or another begins in its place. *)
LEMMA TopParses ==
  ASSUME NEW U, NEW tokens, NEW all, NEW calls \in Seq(Calls), OuterCalls(U, tokens, all, calls), Len(calls) >= 1,
         Built(tokens, all, U), NEW g, g.at = calls[Len(calls)].at,
         NEW y, CallFits(U, tokens, all, g, Len(calls) - 1, y, 0),
         NEW now, IsReplaced(calls, g, now)
  PROVE  Parses(U, tokens, all, now, y, TRUE)
<1> DEFINE L == Len(calls)
<1>1. L \in Nat /\ L >= 1
  OBVIOUS
<1>3. \A d, e \in 1..L : d < e => calls[d].at < calls[e].at
  BY DEF OuterCalls
<1>4. \A d \in 1..(L - 1) : CallFits(U, tokens, all, calls[d], d - 1, calls[d + 1].at, 0)
  BY DEF OuterFit, OuterCalls
<1>5. Len(now) = L /\ now[L] = g /\ g.at = calls[L].at /\ \A d \in 1..L : d # L => now[d] = calls[d]
  BY DEF IsReplaced
<1>6. CallFits(U, tokens, all, g, L - 1, y, 0)
  OBVIOUS
<1> HIDE DEF L
<1>7. \A d \in 1..L : now[d].at = calls[d].at
  BY <1>5
<1>8. \A d \in 1..(L - 1) : d \in 1..L /\ d # L /\ d + 1 \in 1..L
  BY <1>1
<1>9. \A d \in 1..(L - 1) : CallFits(U, tokens, all, now[d], d - 1, now[d + 1].at, 0)
  BY <1>4, <1>5, <1>7, <1>8
<1>10. \A d, e \in 1..L : d < e => now[d].at < now[e].at
  BY <1>3, <1>7
<1> QED
  BY <1>5, <1>6, <1>9, <1>10 DEF Parses

(* What a call has on its stacks is of tokens that have been read. *)
LEMMA StacksWords ==
  ASSUME ExprIInv, NEW token \in Tokens, Reading(token)
  PROVE  /\ Stacking(words', Nodes, Current, Here)
         /\ \A k \in 1..Len(Current.operators) : words'[Current.operators[k]] = words[Current.operators[k]]
<1>1. /\ words' \in Seq(Tokens) /\ Len(words') = Here /\ Here \in Nat
      /\ \A i \in 1..Len(words) : words'[i] = words[i]
      /\ Structure(words', Nodes, frames)
  BY AfterReading
<1>2. Structure(words, children, frames)
  BY DEF ExprIInv
<1>3. Current \in Calls /\ Nodes \in Seq(Seq(Nat)) /\ Len(Nodes) = Here
  BY <1>1, CurrentIs
<1>4. Elements(Current.operators) \subseteq {i \in 1..Len(words) : words[i] \in Operators}
  BY <1>2, CurrentIs
<1> DEFINE ops == Current.operators
<1>5. ops \in Seq(Nat)
  BY <1>3 DEF Calls
<1>6. \A k \in 1..Len(ops) : ops[k] \in Elements(ops)
  <2> HIDE DEF ops
  <2> QED BY <1>5, ValueAt
<1> HIDE DEF ops
<1>7. \A k \in 1..Len(ops) : words'[ops[k]] \in Operators /\ words[ops[k]] = words'[ops[k]]
  BY <1>1, <1>4, <1>6 DEF ops
<1>8. Here <= Len(words') + 1
  BY <1>1
<1>9. \A k \in 1..Len(ops) : words'[ops[k]] = words[ops[k]]
  BY <1>7
<1> QED
  BY <1>1, <1>3, <1>7, <1>8, <1>9 DEF Stacking, ops

(* A token that has just been read has no arguments yet. *)
LEMMA NewNode ==
  ASSUME NEW token \in Tokens, ExprIInv, Reading(token)
  PROVE  Here \in 1..Here /\ Here >= 1 /\ Here \in Nat /\ Nodes[Here] = <<>> /\ Here = Len(words) + 1 /\ Len(words) \in Nat
<1>1. Structure(words, children, frames)
  BY DEF ExprIInv
<1>2. Len(children) = Len(words) /\ Len(words) \in Nat /\ children \in Seq(Seq(Nat))
  BY <1>1, CurrentIs
<1> QED
  BY <1>2 DEF Nodes, Here

LEMMA OperatorParses ==
  ASSUME ExprIInv, GrammarIInv, NEW op \in Operators, Reading(op), outcome' = outcome,
         NEW stay \in 0..Len(Current.operators),
         stay > 0 => ~GoesFirst(words[Current.operators[stay]], op),
         \A i \in (stay + 1)..Len(Current.operators) : GoesFirst(words[Current.operators[i]], op),
         NEW t, t = add_operators(Stack(Current, Nodes), SubSeq(Current.operators, stay + 1, Len(Current.operators))),
         NEW g, g.context = Current.context, g.at = Current.at, g.arguments = t.arguments,
         g.operators = Append(SubSeq(Current.operators, 1, stay), Here),
         IsReplaced(frames, g, frames'), children' = t.children
  PROVE  GrammarIInv'
<1> DEFINE ops == Current.operators
           new == Append(SubSeq(ops, 1, stay), Here)
           s == Read(Shape, op)
<1>1. op \in Tokens
  BY DEF Tokens
<1>2. /\ Structure(words', Nodes, frames) /\ Here \in Nat /\ Len(words') = Here /\ words'[Here] = op
      /\ Shape.ok => Fits(Shape, words', Nodes, frames)
      /\ words' \in Seq(Tokens)
  BY <1>1, AfterReading
<1>3. /\ Level \in Nat /\ Level >= 1 /\ Level = Len(frames) /\ frames \in Seq(Calls) /\ Current = frames[Level] /\ Current \in Calls
      /\ Len(Nodes) = Here /\ Nodes \in Seq(Seq(Nat))
  BY <1>2, CurrentIs
<1>4. /\ Stacking(words', Nodes, Current, Here)
      /\ \A k \in 1..Len(ops) : words'[ops[k]] = words[ops[k]]
  BY <1>1, StacksWords
<1>5. /\ g.context = Current.context /\ g.at = Current.at /\ g.arguments = t.arguments /\ g.operators = new
      /\ IsReplaced(frames, g, frames')
  OBVIOUS
<1>6. ASSUME s.ok PROVE \E T : Parses(T, words', children', frames', Here + 1, s.due)
  <2> DEFINE D == Level - 1
             extra == number_args(op) - 1
             due == op = "not"
  <2>1. /\ Shape.ok /\ s.due /\ (Shape.due <=> due) /\ (due => ~Shape.tight)
    <3>1. s = IF op = "not" THEN [ok |-> Shape.ok /\ Shape.due /\ ~Shape.tight, due |-> TRUE, tight |-> TRUE, open |-> Shape.open]
              ELSE [ok |-> Shape.ok /\ ~Shape.due, due |-> TRUE, tight |-> precedence[op] >= precedence["not"], open |-> Shape.open]
      BY ReadOperator
    <3> HIDE DEF s
    <3> QED BY <1>6, <3>1
  <2> HIDE DEF s, D
  <2>2. extra \in 0..1 /\ (extra = IF due THEN 0 ELSE 1)
    BY DEF number_args
  <2>3. PICK T : Parses(T, words', Nodes, frames, Here, due)
    <3>1. PICK T : Parses(T, words', Nodes, frames, Here, Shape.due)
      BY <1>1, <2>1, ReadKept
    <3> QED BY <2>1, <3>1 DEF Parses
  <2>4. Built(words', Nodes, T) /\ CallFits(T, words', Nodes, Current, D, Here, extra)
    BY <1>3, <2>2, <2>3 DEF Parses, D
  <2>5. extra = 0 => stay = Len(ops)
    <3>1. SUFFICES ASSUME op = "not", stay # Len(ops) PROVE FALSE
      BY <2>2
    <3>2. LooseLast(words', ops)
      BY <1>2, <1>3, <2>1, <3>1 DEF Fits
    <3>3. Len(ops) \in Nat /\ Len(ops) \in (stay + 1)..Len(ops) /\ ops # <<>> /\ ops \in Seq(Nat) /\ Len(ops) \in 1..Len(ops)
      <4>1. ops \in Seq(Nat)
        BY <1>3 DEF Calls
      <4> HIDE DEF ops
      <4>2. stay \in 0..Len(ops)
        BY DEF ops
      <4> QED BY <3>1, <4>1, <4>2
    <3> DEFINE a == words'[ops[Len(ops)]]
    <3>4. a = words[ops[Len(ops)]] /\ a \in Operators
      BY <1>4, <3>3 DEF Stacking
    <3>5. GoesFirst(a, "not")
      BY <3>1, <3>3, <3>4
    <3>6. precedence[a] < precedence["not"]
      BY <3>2, <3>3 DEF LooseLast
    <3> HIDE DEF a
    <3> QED BY <3>1, <3>4, <3>5, <3>6, GoesFirstMeans, Precedences
  <2>6. stay > 0 => ~GoesFirst(words'[ops[stay]], words'[Here])
    BY <1>2, <1>4
  <2>7. \A k \in (stay + 1)..Len(ops) : GoesFirst(words'[ops[k]], words'[Here])
    BY <1>2, <1>4
  <2>8. Here \in 1..Len(words') /\ Nodes[Here] = <<>>
    BY <1>1, <1>2, NewNode
  <2>9. extra = number_args(words'[Here]) - 1 /\ words'[Here] \in Operators
    BY <1>2
  <2> HIDE DEF extra, new, ops, due
  <2>10. PICK U : FitsOn(U, T, words', Nodes, t.children, Current, g, D, Here)
    BY <1>4, <1>5, <2>2, <2>4, <2>5, <2>6, <2>7, <2>8, <2>9, OperatorFits DEF ops, new
  <2>10a. /\ T \subseteq U /\ Built(words', t.children, U) /\ CallFits(U, words', t.children, g, D, Here + 1, 0)
          /\ \A i \in 1..Current.at : t.children[i] = Nodes[i]
    BY <2>10 DEF FitsOn
  <2>11. Parses(U, words', children', frames', Here + 1, TRUE)
    <3>1. g.at = frames[Len(frames)].at /\ Len(frames) >= 1 /\ Current.at = frames[Len(frames)].at /\ Current.at \in Nat
      BY <1>3, <1>5 DEF Calls
    <3>2. \A i \in 1..(Current.at - 1) : i \in 1..Current.at
      BY <3>1
    <3>3. SameBelow(Nodes, children', frames[Len(frames)].at)
      BY <2>10a, <3>1, <3>2 DEF SameBelow
    <3>4. CallFits(U, words', children', g, Len(frames) - 1, Here + 1, 0)
      BY <1>3, <2>10a DEF D
    <3>5. frames \in Seq(Calls) /\ Here \in Nat /\ T \subseteq U /\ Built(words', children', U) /\ IsReplaced(frames, g, frames')
      BY <1>2, <1>3, <2>10a
    <3>6. OuterCalls(U, words', children', frames)
      BY <2>3, <3>1, <3>3, <3>5, OuterStay
    <3> QED BY <3>1, <3>4, <3>5, <3>6, TopParses
  <2>12. Parses(U, words', children', frames', Here + 1, s.due)
    BY <2>1, <2>11 DEF Parses
  <2> QED BY <2>12
<1> QED
  BY <1>1, <1>6, GrammarContinues

LEMMA TopChanged ==
  ASSUME NEW calls \in Seq(Calls), Len(calls) >= 1, NEW g, NEW now \in Seq(Calls), now = [calls EXCEPT ![Len(calls)] = g]
  PROVE  IsReplaced(calls, g, now)
<1>1. DOMAIN now = DOMAIN calls
  OBVIOUS
<1>2. Len(now) = Len(calls) /\ Len(calls) \in 1..Len(calls)
  BY <1>1
<1>3. now[Len(calls)] = g
  BY <1>2
<1>4. ASSUME NEW d \in 1..Len(calls), d # Len(calls) PROVE now[d] = calls[d]
  BY <1>4
<1> QED
  BY <1>2, <1>3, <1>4 DEF IsReplaced

LEMMA OperatorParsed ==
  ASSUME ExprIInv, GrammarIInv, NEW op \in Operators, Operator(op)
  PROVE  GrammarIInv'
<1> DEFINE ops == Current.operators
<1>1. Reading(op) /\ op \in Tokens
  BY DEF Operator, Tokens
<1>2. PICK stay \in 0..Len(ops) :
        LET stack == add_operators(Stack(Current, Nodes), SubSeq(ops, stay + 1, Len(ops)))
        IN  /\ stay > 0 => ~GoesFirst(words[ops[stay]], op)
            /\ \A i \in (stay + 1)..Len(ops) : GoesFirst(words[ops[i]], op)
            /\ IF ~stack.ok THEN Refuse
               ELSE /\ frames' = [frames EXCEPT ![Level].arguments = stack.arguments,
                                                ![Level].operators = Append(SubSeq(ops, 1, stay), Here)]
                    /\ children' = stack.children
                    /\ UNCHANGED <<outcome, root>>
  BY DEF Operator
<1> DEFINE t == add_operators(Stack(Current, Nodes), SubSeq(ops, stay + 1, Len(ops)))
           new == Append(SubSeq(ops, 1, stay), Here)
           g == [Current EXCEPT !.arguments = t.arguments, !.operators = new]
<1>3. CASE t.ok
  <2>1. /\ frames' = [frames EXCEPT ![Level].arguments = t.arguments, ![Level].operators = new]
        /\ children' = t.children /\ outcome' = outcome
    BY <1>2, <1>3
  <2>2. /\ stay > 0 => ~GoesFirst(words[ops[stay]], op)
        /\ \A i \in (stay + 1)..Len(ops) : GoesFirst(words[ops[i]], op)
    BY <1>2
  <2>3. /\ Level \in Nat /\ Level >= 1 /\ Level = Len(frames) /\ frames \in Seq(Calls) /\ Current = frames[Level] /\ Current \in Calls
    <3>1. Structure(words, children, frames)
      BY DEF ExprIInv
    <3> QED BY <3>1, CurrentIs
  <2>4. frames' \in Seq(Calls)
    <3>1. ExprIInv'
      BY OperatorStep
    <3> QED BY <3>1 DEF ExprIInv, Structure
  <2>5. g.context = Current.context /\ g.at = Current.at /\ g.arguments = t.arguments /\ g.operators = new
    <3> HIDE DEF t, new
    <3> QED BY <2>3 DEF Calls
  <2>6. frames' = [frames EXCEPT ![Level] = g]
    <3> HIDE DEF t, new
    <3> QED BY <2>1, <2>3 DEF Current
  <2>7. t = add_operators(Stack(Current, Nodes), SubSeq(ops, stay + 1, Len(ops))) /\ new = Append(SubSeq(ops, 1, stay), Here)
    OBVIOUS
  <2> HIDE DEF g, t, new
  <2>8. IsReplaced(frames, g, frames')
    <3>1. frames' = [frames EXCEPT ![Len(frames)] = g] /\ Len(frames) >= 1
      BY <2>3, <2>6
    <3> QED BY <2>3, <2>4, <3>1, TopChanged
  <2> QED BY <1>1, <2>1, <2>2, <2>5, <2>7, <2>8, OperatorParses
<1>4. CASE ~t.ok
  <2>1. Refuse
    BY <1>2, <1>4
  <2> QED BY <2>1 DEF Refuse, GrammarIInv
<1> QED
  BY <1>3, <1>4

(* A parenthesis begins a call; the one around it waits for what it returns. *)
LEMMA CallPushed ==
  ASSUME NEW T, NEW tokens, NEW nodes, NEW calls \in Seq(Calls), Len(calls) >= 1, NEW z \in Nat, z >= 1,
         Parses(T, tokens, nodes, calls, z, TRUE),
         NEW context, context \in {"(", "f("}, tokens[z] = context, nodes[z] = <<>>
  PROVE  Parses(T, tokens, nodes, Append(calls, Frame(context, z)), z + 1, TRUE)
<1> DEFINE L == Len(calls)
           g == Frame(context, z)
           now == Append(calls, g)
<1>1. L \in Nat /\ L >= 1 /\ calls[L] \in Calls
  OBVIOUS
<1>2. g \in Calls /\ g.context = context /\ g.at = z
  <2>1. context \in {"top", "(", "f("}
    OBVIOUS
  <2> QED BY <2>1 DEF Frame, Calls
<1>3. Len(now) = L + 1 /\ now[L + 1] = g /\ \A d \in 1..L : now[d] = calls[d]
  <2> HIDE DEF g
  <2> QED BY <1>2, PushedFacts
<1> HIDE DEF L, g, now
<1>4. /\ Built(tokens, nodes, T)
      /\ \A d \in 1..(L - 1) : CallFits(T, tokens, nodes, calls[d], d - 1, calls[d + 1].at, 0)
      /\ CallFits(T, tokens, nodes, calls[L], L - 1, z, 0)
      /\ \A d, e \in 1..L : d < e => calls[d].at < calls[e].at
  BY DEF Parses, L
<1>5. Nested(tokens, z) = L - 1 /\ Nested(tokens, z + 1) = L
  <2>1. PICK b \in Nat : \E weight : CallAt(T, tokens, nodes, calls[L], L - 1, z, 0, b, weight)
    BY <1>4 DEF CallFits
  <2>2. Nested(tokens, z) = L - 1
    BY <2>1 DEF CallAt, Inner
  <2>3. Deeper(tokens[z]) = 1
    BY DEF Deeper
  <2>4. Nested(tokens, z + 1) = Nested(tokens, z) + Deeper(tokens[z])
    BY NestedNext
  <2>5. Nested(tokens, z + 1) = L
    BY <1>1, <2>2, <2>3, <2>4
  <2> QED BY <2>2, <2>5
<1>6. Begins(T, tokens, nodes, g, L, z + 1)
  <2>1. ASSUME context = "f("
        PROVE  \E cut \in [0..Len(nodes[z]) -> Nat] :
                 /\ cut[0] = z /\ z + 1 = cut[Len(nodes[z])] + 1
                 /\ {cut[k] : k \in 1..Len(nodes[z])} = {i \in (z + 1)..((z + 1) - 1) : IsComma(tokens, L, i)}
                 /\ \A k \in 1..Len(nodes[z]) : <<nodes[z][k], cut[k - 1] + 1, cut[k] - 1>> \in T
    <3> DEFINE cut == [k \in 0..0 |-> z]
    <3>1. Len(nodes[z]) = 0
      OBVIOUS
    <3>2. cut \in [0..Len(nodes[z]) -> Nat] /\ cut[0] = z /\ cut[Len(nodes[z])] = z
      BY <3>1
    <3> HIDE DEF cut
    <3>3. \A k : k \notin 1..Len(nodes[z])
      BY <3>1
    <3>4. {cut[k] : k \in 1..Len(nodes[z])} = {}
      BY <3>3
    <3>5. {i \in (z + 1)..((z + 1) - 1) : IsComma(tokens, L, i)} = {}
      OBVIOUS
    <3> QED BY <3>2, <3>3, <3>4, <3>5
  <2> QED BY <1>2, <2>1 DEF Begins
<1>7. Inner(tokens, g, L, z + 1, z + 1)
  <2>1. /\ \A i \in (z + 1)..(z + 1) : i = z + 1
        /\ \A i : i \notin (z + 1)..((z + 1) - 1)
    OBVIOUS
  <2>2. \A i \in (z + 1)..(z + 1) : Nested(tokens, i) >= L
    BY <1>1, <1>5, <2>1
  <2> QED BY <1>1, <1>2, <1>5, <2>1, <2>2 DEF Inner
<1>8. CallFits(T, tokens, nodes, g, L, z + 1, 0)
  <2>1. z + 1 \in Nat /\ z + 1 >= 1
    OBVIOUS
  <2> QED BY <1>6, <1>7, <2>1, CallBegins DEF g
<1>9. \A d \in 1..L : calls[d].at <= calls[L].at /\ calls[L].at < z /\ calls[d].at \in Nat /\ calls[L].at \in Nat
  <2>1. L \in 1..L
    BY <1>1
  <2> QED BY <2>1, CallsAt DEF L
<1>10. ASSUME NEW d \in 1..L PROVE CallFits(T, tokens, nodes, now[d], d - 1, now[d + 1].at, 0)
  <2>1. CASE d = L
    BY <1>1, <1>2, <1>3, <1>4, <2>1
  <2>2. CASE d # L
    <3>1. d \in 1..(L - 1) /\ d + 1 \in 1..L
      BY <1>1, <2>2
    <3> QED BY <1>3, <1>4, <3>1
  <2> QED BY <2>1, <2>2
<1>11. ASSUME NEW d \in 1..(L + 1), NEW e \in 1..(L + 1), d < e PROVE now[d].at < now[e].at
  <2>1. d \in 1..L /\ (e \in 1..L \/ e = L + 1)
    BY <1>1, <1>11
  <2>2. CASE e \in 1..L
    BY <1>3, <1>4, <1>11, <2>1, <2>2
  <2>3. CASE e = L + 1
    BY <1>2, <1>3, <1>9, <2>1, <2>3
  <2> QED BY <2>1, <2>2, <2>3
<1>12. (L + 1) - 1 = L
  BY <1>1
<1>13. Parses(T, tokens, nodes, now, z + 1, TRUE)
  BY <1>3, <1>4, <1>8, <1>10, <1>11, <1>12 DEF Parses
<1> QED
  BY <1>13 DEF now, g

LEMMA LeftParenParsed ==
  ASSUME ExprIInv, GrammarIInv, NEW token, token \in {"(", "f("}, LeftParen(token)
  PROVE  GrammarIInv'
<1> DEFINE s == Read(Shape, token)
           g == Frame(token, Here)
<1>1. token \in Tokens /\ Reading(token) /\ outcome' = outcome /\ children' = Nodes /\ frames' = Append(frames, g)
  BY DEF LeftParen, Tokens
<1>2. words' \in Seq(Tokens) /\ Len(words') = Here /\ words'[Here] = token /\ Structure(words', Nodes, frames)
  BY <1>1, AfterReading
<1>3. frames \in Seq(Calls) /\ Len(frames) >= 1
  BY <1>2, CurrentIs
<1>4. Here \in Nat /\ Here >= 1 /\ Nodes[Here] = <<>>
  BY <1>1, NewNode
<1>5. ASSUME s.ok PROVE \E T : Parses(T, words', children', frames', Here + 1, s.due)
  <2> DEFINE n == IF token = "(" THEN 0 ELSE 1
  <2>1. Shape.ok /\ Shape.due /\ s.due
    <3>1. s = [ok |-> Shape.ok /\ Shape.due, due |-> TRUE, tight |-> FALSE, open |-> Append(Shape.open, n)]
      BY ReadParenthesis
    <3> HIDE DEF s, n
    <3> QED BY <1>5, <3>1
  <2> HIDE DEF s
  <2>2. PICK T : Parses(T, words', Nodes, frames, Here, Shape.due)
    BY <1>1, <2>1, ReadKept
  <2>3. Parses(T, words', Nodes, frames, Here, TRUE)
    BY <2>1, <2>2 DEF Parses
  <2>4. Parses(T, words', children', frames', Here + 1, TRUE)
    BY <1>1, <1>2, <1>3, <1>4, <2>3, CallPushed
  <2> QED BY <2>1, <2>4 DEF Parses
<1> QED
  BY <1>1, <1>5, GrammarContinues

(* The arguments of the function at, between the commas up to z. *)
Arguments(T, tokens, at, args, D, z, cut) ==
  /\ cut \in [0..Len(args) -> at..z] /\ cut[0] = at /\ cut[Len(args)] = z
  /\ {cut[k] : k \in 1..(Len(args) - 1)} = {i \in (at + 1)..(z - 1) : IsComma(tokens, D, i)}
  /\ \A k \in 1..Len(args) : <<args[k], cut[k - 1] + 1, cut[k] - 1>> \in T

AddedTo(nodes, at, node, now) ==
  now[at] = Append(nodes[at], node) /\ \A i \in 1..Len(nodes) : i # at => now[i] = nodes[i]

HasArguments(T, tokens, nodes, at, D, z) ==
  /\ nodes[at] \in Seq(Nat) /\ Len(nodes[at]) >= 1
  /\ \E cut : Arguments(T, tokens, at, nodes[at], D, z, cut)

(* A call that reads an argument of a function gives it to the function's node. *)
LEMMA ArgumentRead ==
  ASSUME NEW T, NEW U, NEW tokens \in Seq(Tokens), NEW nodes, NEW all, NEW f \in Calls, f.context = "f(", NEW D,
         NEW b \in Nat, NEW z \in Nat, NEW node \in Nat, Returns(T, U, tokens, nodes, all, f, D, b, z, node),
         NoTreeAt(T, f), f.at \in 1..Len(tokens),
         NEW now, AddedTo(all, f.at, node, now)
  PROVE  Built(tokens, now, U) /\ HasArguments(U, tokens, now, f.at, D, z)
<1> DEFINE at == f.at
           q == all[at]
           m == Len(q)
           r == Append(q, node)
<1>1. /\ T \subseteq U /\ NewNodes(T, U, b, z - 1) /\ Built(tokens, all, U) /\ <<node, b, z - 1>> \in U
      /\ Begins(U, tokens, all, f, D, b) /\ Inner(tokens, f, D, b, z)
      /\ all \in Seq(Seq(Nat)) /\ Len(all) = Len(tokens)
  BY DEF Returns
<1>2. at \in Nat /\ at >= 1 /\ at < b /\ b <= z /\ at \in 1..Len(all)
  BY <1>1 DEF Calls, Inner
<1>3. q \in Seq(Nat) /\ m \in Nat /\ r \in Seq(Nat) /\ Len(r) = m + 1 /\ r[m + 1] = node /\ \A k \in 1..m : r[k] = q[k]
  <2>1. q \in Seq(Nat)
    BY <1>1, <1>2
  <2> HIDE DEF q
  <2> QED BY <2>1
<1>4. now[at] = r /\ \A i \in 1..Len(all) : i # at => now[i] = all[i]
  BY DEF AddedTo
<1> HIDE DEF r, m, q, at
<1>5. PICK cut \in [0..m -> Nat] :
        /\ cut[0] = at /\ b = cut[m] + 1
        /\ {cut[k] : k \in 1..m} = {i \in (at + 1)..(b - 1) : IsComma(tokens, D, i)}
        /\ \A k \in 1..m : <<q[k], cut[k - 1] + 1, cut[k] - 1>> \in U
  BY <1>1, Zenon DEF Begins, at, q, m
<1>6. ASSUME NEW n, NEW lo, NEW hi, <<n, lo, hi>> \in U PROVE n # at
  <2>1. <<n, lo, hi>> \in T \/ n \in b..(z - 1)
    BY <1>1, <1>6, Zenon DEF NewNodes
  <2>2. <<n, lo, hi>> \in T => n # at
    BY DEF NoTreeAt, at
  <2>3. n \in b..(z - 1) => n # at
    BY <1>2
  <2> QED BY <2>1, <2>2, <2>3
<1>7. Built(tokens, now, U)
  <2>1. \A n, lo, hi : <<n, lo, hi>> \in U => now[n] = all[n]
    BY <1>1, <1>4, <1>6 DEF Built
  <2>2. Len(tokens) \in Nat /\ Len(tokens) >= Len(tokens) /\ U \subseteq U
    OBVIOUS
  <2> QED BY <1>1, <2>1, <2>2, BuiltMore
<1> DEFINE cuts == [k \in 0..(m + 1) |-> IF k = m + 1 THEN z ELSE cut[k]]
<1>8. /\ \A k \in 0..m : cuts[k] = cut[k] /\ cut[k] \in Nat
      /\ cuts[m + 1] = z
  BY <1>3
<1>9. \A k \in 1..m : cut[k] \in (at + 1)..(b - 1)
  BY <1>5
<1>10. cuts \in [0..(m + 1) -> at..z]
  <2>1. ASSUME NEW k \in 0..(m + 1) PROVE cuts[k] \in at..z
    <3>1. k = 0 \/ k \in 1..m \/ k = m + 1
      BY <1>3
    <3>2. CASE k = 0
      <4>1. cuts[0] = at
        BY <1>3, <1>5, <1>8
      <4> QED BY <1>2, <3>2, <4>1
    <3>3. CASE k \in 1..m
      <4>1. cuts[k] \in (at + 1)..(b - 1)
        <5>1. k \in 0..m
          BY <1>3, <3>3
        <5>2. cuts[k] = cut[k]
          BY <1>8, <5>1
        <5>3. cut[k] \in (at + 1)..(b - 1)
          BY <1>9, <3>3
        <5> QED BY <5>2, <5>3
      <4> DEFINE x == cuts[k]
      <4> HIDE DEF x
      <4>2. x \in at..z
        BY <1>2, <4>1 DEF x
      <4> QED BY <4>2 DEF x
    <3>4. CASE k = m + 1
      BY <1>2, <1>8, <3>4
    <3> QED BY <3>1, <3>2, <3>3, <3>4
  <2> QED BY <2>1
<1> HIDE DEF cuts
<1>11. {cuts[k] : k \in 1..((m + 1) - 1)} = {i \in (at + 1)..(z - 1) : IsComma(tokens, D, i)}
  <2>1. {cuts[k] : k \in 1..((m + 1) - 1)} = {cut[k] : k \in 1..m}
    <3>1. (m + 1) - 1 = m /\ \A k \in 1..m : k \in 0..m
      BY <1>3
    <3>2. \A k \in 1..m : cuts[k] = cut[k]
      BY <1>8, <3>1
    <3> QED BY <3>1, <3>2
  <2>2. \A i \in (at + 1)..(z - 1) : IsComma(tokens, D, i) => i \in (at + 1)..(b - 1)
    <3>1. ASSUME NEW i \in (at + 1)..(z - 1), IsComma(tokens, D, i), i \notin (at + 1)..(b - 1) PROVE FALSE
      <4>1. i \in b..(z - 1)
        BY <1>2, <3>1
      <4> QED BY <1>1, <3>1, <4>1 DEF Inner
    <3> QED BY <3>1
  <2>3. \A i \in (at + 1)..(b - 1) : i \in (at + 1)..(z - 1)
    BY <1>2
  <2>4. {i \in (at + 1)..(z - 1) : IsComma(tokens, D, i)} = {i \in (at + 1)..(b - 1) : IsComma(tokens, D, i)}
    BY <2>2, <2>3
  <2> QED BY <1>5, <2>1, <2>4
<1>12. \A k \in 1..(m + 1) : <<r[k], cuts[k - 1] + 1, cuts[k] - 1>> \in U
  <2>1. ASSUME NEW k \in 1..m PROVE <<r[k], cuts[k - 1] + 1, cuts[k] - 1>> \in U
    <3>1. k - 1 \in 0..m /\ k \in 0..m
      BY <1>3
    <3>2. cuts[k - 1] = cut[k - 1] /\ cuts[k] = cut[k] /\ r[k] = q[k]
      BY <1>3, <1>8, <3>1
    <3> QED BY <1>5, <3>2
  <2>2. cuts[(m + 1) - 1] + 1 = b /\ cuts[m + 1] - 1 = z - 1
    <3>1. (m + 1) - 1 = m /\ m \in 0..m
      BY <1>3
    <3> QED BY <1>5, <1>8, <3>1
  <2>3. <<r[m + 1], cuts[(m + 1) - 1] + 1, cuts[m + 1] - 1>> \in U
    BY <1>1, <1>3, <2>2
  <2>4. \A k \in 1..(m + 1) : k = m + 1 \/ k \in 1..m
    BY <1>3
  <2> QED BY <2>1, <2>3, <2>4
<1>13. cuts[0] = at
  <2>1. 0 \in 0..m
    BY <1>3
  <2> QED BY <1>5, <1>8, <2>1
<1>14. Arguments(U, tokens, at, now[at], D, z, cuts)
  BY <1>3, <1>4, <1>8, <1>10, <1>11, <1>12, <1>13 DEF Arguments
<1>15. HasArguments(U, tokens, now, f.at, D, z)
  <2>1. now[at] \in Seq(Nat) /\ Len(now[at]) >= 1
    <3>1. m + 1 >= 1
      BY <1>3
    <3> QED BY <1>3, <1>4, <3>1
  <2> QED BY <1>14, <2>1 DEF HasArguments, at
<1> QED
  BY <1>7, <1>15

(* What comes before the call is as it was. *)
LEMMA ReturnedSame ==
  ASSUME NEW T, NEW U, NEW tokens \in Seq(Tokens), NEW nodes, Len(nodes) = Len(tokens), NEW all, NEW f \in Calls, NEW D,
         NEW b \in Nat, NEW z \in Nat, z <= Len(tokens), NEW node, Returns(T, U, tokens, nodes, all, f, D, b, z, node),
         NEW now, now = all \/ AddedTo(all, f.at, node, now)
  PROVE  SameBelow(nodes, now, f.at)
<1> DEFINE at == f.at
<1>1. /\ Inner(tokens, f, D, b, z) /\ Len(all) = Len(tokens) /\ Unchanged(nodes, all, b, z - 1)
  BY DEF Returns
<1>2. at \in Nat /\ at < b /\ b <= z /\ Len(tokens) \in Nat
  BY <1>1 DEF Calls, Inner
<1> HIDE DEF at
<1>3. \A i \in 1..(at - 1) : i \in 1..Len(nodes) /\ i \notin b..(z - 1) /\ i # at
  BY <1>2
<1>4. \A i \in 1..(at - 1) : all[i] = nodes[i]
  BY <1>1, <1>3 DEF Unchanged
<1>5. AddedTo(all, f.at, node, now) => \A i \in 1..(at - 1) : now[i] = all[i]
  BY <1>1, <1>3 DEF AddedTo, at
<1> QED
  BY <1>4, <1>5 DEF SameBelow, at

LEMMA CommasAreFlat == \A tokens, D, i : IsComma(tokens, D, i) => Deeper(tokens[i]) = 0
BY DEF IsComma, Deeper

(* The call for the next argument begins after the comma. *)
LEMMA NextArgument ==
  ASSUME NEW U, NEW tokens, NEW nodes, NEW f \in Calls, f.context = "f(", NEW D, NEW b \in Nat, NEW z \in Nat,
         Inner(tokens, f, D, b, z), IsComma(tokens, D, z), HasArguments(U, tokens, nodes, f.at, D, z)
  PROVE  CallFits(U, tokens, nodes, Frame("f(", f.at), D, z + 1, 0)
<1> DEFINE at == f.at
           g == Frame("f(", at)
           q == nodes[at]
           m == Len(q)
<1>1. /\ at \in Nat /\ at >= 1 /\ at < b /\ b <= z /\ Nested(tokens, z) = D
      /\ tokens[at] = "f(" /\ Nested(tokens, at) = D - 1
      /\ \A i \in (at + 1)..z : Nested(tokens, i) >= D
  BY DEF Calls, Inner
<1>2. m \in Nat /\ m >= 1
  <2>1. q \in Seq(Nat) /\ Len(q) >= 1
    BY DEF HasArguments
  <2> HIDE DEF q
  <2> QED BY <2>1
<1>3. g.context = "f(" /\ g.at = at
  BY DEF Frame
<1>4. Nested(tokens, z + 1) = D /\ IsComma(tokens, D, z) /\ D \in Int
  <2>1. Deeper(tokens[z]) = 0 /\ z >= 1
    BY <1>1, CommasAreFlat
  <2>2. Nested(tokens, z + 1) = Nested(tokens, z) + Deeper(tokens[z]) /\ Nested(tokens, z) \in Int
    BY <2>1, NestedNext
  <2>3. IsComma(tokens, D, z) /\ D \in Int
    BY <1>1, <2>2 DEF IsComma
  <2> QED BY <1>1, <2>1, <2>2, <2>3
<1> HIDE DEF at, g, m, q
<1>5. PICK cut : Arguments(U, tokens, at, q, D, z, cut)
  BY Zenon DEF HasArguments, at, q
<1>6. /\ cut \in [0..m -> at..z] /\ cut[0] = at /\ cut[m] = z
      /\ {cut[k] : k \in 1..(m - 1)} = {i \in (at + 1)..(z - 1) : IsComma(tokens, D, i)}
      /\ \A k \in 1..m : <<q[k], cut[k - 1] + 1, cut[k] - 1>> \in U
  BY <1>5, Zenon DEF Arguments, m
<1>7. {cut[k] : k \in 1..m} = {i \in (at + 1)..((z + 1) - 1) : IsComma(tokens, D, i)}
  <2>1. \A k \in 1..m : k \in 1..(m - 1) \/ k = m
    BY <1>2
  <2>2. \A k \in 1..(m - 1) : k \in 1..m
    BY <1>2
  <2>3. m \in 1..m
    BY <1>2
  <2>4. \A i : i \in (at + 1)..((z + 1) - 1) <=> i \in (at + 1)..(z - 1) \/ i = z
    BY <1>1
  <2>5. {cut[k] : k \in 1..m} = {cut[k] : k \in 1..(m - 1)} \cup {z}
    BY <1>6, <2>1, <2>2, <2>3
  <2>6. {i \in (at + 1)..((z + 1) - 1) : IsComma(tokens, D, i)} = {i \in (at + 1)..(z - 1) : IsComma(tokens, D, i)} \cup {z}
    BY <1>4, <2>4
  <2> QED BY <1>6, <2>5, <2>6
<1>8. Begins(U, tokens, nodes, g, D, z + 1)
  <2>1. cut \in [0..m -> Nat]
    <3>1. \A i \in at..z : i \in Nat
      BY <1>1
    <3> QED BY <1>6, <3>1
  <2>2. \E c \in [0..m -> Nat] :
          /\ c[0] = at /\ z + 1 = c[m] + 1
          /\ {c[k] : k \in 1..m} = {i \in (at + 1)..((z + 1) - 1) : IsComma(tokens, D, i)}
          /\ \A k \in 1..m : <<q[k], c[k - 1] + 1, c[k] - 1>> \in U
    BY <1>6, <1>7, <2>1
  <2>3. nodes[g.at] = q
    BY <1>3 DEF q
  <2>4. g.context # "top" /\ g.context # "("
    BY <1>3
  <2> QED BY <1>3, <2>2, <2>3, <2>4, Zenon DEF Begins, m
<1>9. Inner(tokens, g, D, z + 1, z + 1)
  <2>1. at < z + 1 /\ z + 1 <= z + 1
    BY <1>1
  <2>2. \A i \in (at + 1)..(z + 1) : i \in (at + 1)..z \/ i = z + 1
    BY <1>1
  <2>3. \A i \in (at + 1)..(z + 1) : Nested(tokens, i) >= D
    BY <1>1, <1>4, <2>2
  <2>4. \A i : i \notin (z + 1)..((z + 1) - 1)
    OBVIOUS
  <2> QED BY <1>1, <1>3, <1>4, <2>1, <2>3, <2>4 DEF Inner
<1>10. CallFits(U, tokens, nodes, g, D, z + 1, 0)
  <2>1. z + 1 \in Nat /\ z + 1 >= 1
    OBVIOUS
  <2> QED BY <1>1, <1>8, <1>9, <2>1, CallBegins DEF g
<1> QED
  BY <1>10 DEF g, at

(* How a call that ends before the token just read returns. *)
LEMMA CallEnding ==
  ASSUME ExprIInv, GrammarIInv, NEW token \in Tokens, Reading(token), Shape.ok, ~Shape.due,
         NEW expr, expr = Finish(Current, Nodes)
  PROVE  \E T : /\ Parses(T, words', Nodes, frames, Here, FALSE) /\ NoTreeAt(T, Current)
                /\ \E U : \E b \in Nat :
                     Returns(T, U, words', Nodes, expr.children, Current, Level - 1, b, Here, expr.root)
<1>1. PICK T : Parses(T, words', Nodes, frames, Here, Shape.due) /\ NoTreeAt(T, Current)
  BY ReadKept
<1>2. Parses(T, words', Nodes, frames, Here, FALSE)
  BY <1>1 DEF Parses
<1>3. Structure(words', Nodes, frames)
  BY AfterReading
<1>4. Level = Len(frames) /\ Current = frames[Level]
  BY <1>3, CurrentIs
<1>5. Built(words', Nodes, T) /\ CallFits(T, words', Nodes, Current, Level - 1, Here, 1)
  BY <1>2, <1>4 DEF Parses
<1>6. Stacking(words', Nodes, Current, Here)
  BY StacksWords
<1>7. \E U : \E b \in Nat :
        Returns(T, U, words', Nodes, Finish(Current, Nodes).children, Current, Level - 1, b, Here, Finish(Current, Nodes).root)
  BY <1>5, <1>6, CallReturns
<1> QED
  BY <1>1, <1>2, <1>7

LEMMA CommaParsed ==
  ASSUME ExprIInv, GrammarIInv, Comma
  PROVE  GrammarIInv'
<1> DEFINE token == ","
           expr == Finish(Current, Nodes)
           at == Current.at
           g == Frame("f(", at)
           s == Read(Shape, token)
           D == Level - 1
<1>1. token \in Tokens /\ token \notin Named /\ Reading(token)
  BY TokenKinds DEF Comma, Tokens, Named
<1>2. CASE ~expr.ok \/ Current.context # "f(" \/ expr.root = Null
  <2>1. Refuse
    BY <1>2 DEF Comma
  <2> QED BY <2>1 DEF Refuse, GrammarIInv
<1>3. CASE expr.ok /\ Current.context = "f(" /\ expr.root # Null
  <2>1. /\ frames' = Append(Callers, g) /\ outcome' = outcome
        /\ children' = [expr.children EXCEPT ![at] = Append(expr.children[at], expr.root)]
    BY <1>3 DEF Comma
  <2>2. /\ Structure(words', Nodes, frames) /\ Len(words') = Here /\ words' \in Seq(Tokens) /\ Here \in Nat
    BY <1>1, AfterReading
  <2>2a. words'[Here] = token
    BY <1>1, AfterReading
  <2>3. /\ IsFrame(Current, words') /\ Level \in Nat /\ Level >= 1 /\ Level = Len(frames) /\ Current = frames[Level]
        /\ frames[1].context = "top" /\ frames \in Seq(Calls) /\ Current \in Calls /\ Len(Nodes) = Here
    BY <2>2, CurrentIs DEF Structure
  <2>4. Level > 1
    BY <1>3, <2>3
  <2>5. at \in 1..Len(words') /\ at \in Nat /\ g.at = at
    BY <1>3, <2>2, <2>3 DEF IsFrame, Frame
  <2>6. IsReplaced(frames, g, frames')
    <3>1. /\ Callers \in Seq(Calls) /\ Len(Callers) = Level - 1
          /\ \A d \in 1..(Level - 1) : Callers[d] = frames[d]
      BY <2>2, <2>4, OuterIs
    <3>2. g \in Calls
      BY <2>5 DEF Frame, Calls
    <3> HIDE DEF g
    <3>3. /\ frames' \in Seq(Calls) /\ Len(frames') = (Level - 1) + 1 /\ frames'[(Level - 1) + 1] = g
          /\ \A d \in 1..(Level - 1) : frames'[d] = Callers[d]
      BY <2>1, <3>1, <3>2
    <3>4. (Level - 1) + 1 = Level /\ \A d \in 1..Level : d # Level => d \in 1..(Level - 1)
      BY <2>3
    <3> QED BY <2>3, <3>1, <3>3, <3>4 DEF IsReplaced
  <2> HIDE DEF expr, D
  <2>7. ASSUME s.ok PROVE \E T : Parses(T, words', children', frames', Here + 1, s.due)
    <3>1. Shape.ok /\ ~Shape.due /\ s.due
      BY <2>7, ReadComma
    <3> HIDE DEF s
    <3>2. PICK T : /\ Parses(T, words', Nodes, frames, Here, FALSE) /\ NoTreeAt(T, Current)
                   /\ \E U : \E b \in Nat :
                        Returns(T, U, words', Nodes, expr.children, Current, Level - 1, b, Here, expr.root)
      BY <1>1, <3>1, CallEnding DEF expr
    <3>3. PICK U : \E b \in Nat : Returns(T, U, words', Nodes, expr.children, Current, D, b, Here, expr.root)
      BY <3>2 DEF D
    <3>4. PICK b \in Nat : Returns(T, U, words', Nodes, expr.children, Current, D, b, Here, expr.root)
      BY <3>3
    <3>5. T \subseteq U /\ Inner(words', Current, D, b, Here) /\ expr.children \in Seq(Seq(Nat)) /\ Len(expr.children) = Len(words')
      BY <3>4 DEF Returns
    <3>6. AddedTo(expr.children, at, expr.root, children')
      <4> HIDE DEF at
      <4>1. at \in 1..Len(expr.children)
        BY <2>5, <3>5
      <4> QED BY <2>1, <3>5, <4>1, SMTT(30) DEF AddedTo
    <3>7. expr.root \in Nat
      <4>1. Ended(words', Nodes, expr)
        BY <1>3, <2>2, CallEnds DEF expr
      <4> QED BY <1>3, <4>1 DEF Ended, NamedTokens
    <3>8. Built(words', children', U) /\ HasArguments(U, words', children', Current.at, D, Here)
      BY <1>3, <2>2, <2>3, <2>5, <3>2, <3>4, <3>6, <3>7, ArgumentRead
    <3>9. CallFits(U, words', children', g, D, Here + 1, 0)
      <4>1. IsComma(words', D, Here)
        BY <2>2a, <3>5 DEF IsComma, Inner
      <4> QED BY <1>3, <2>2, <2>3, <3>5, <3>8, <4>1, NextArgument
    <3> HIDE DEF g
    <3>10. SameBelow(Nodes, children', Current.at)
      <4>1. Here <= Len(words') /\ Len(Nodes) = Len(words')
        BY <2>2, <2>3
      <4> QED BY <2>2, <2>3, <3>4, <3>6, <4>1, ReturnedSame
    <3>11. /\ Len(frames) >= 1 /\ g.at = frames[Len(frames)].at /\ SameBelow(Nodes, children', frames[Len(frames)].at)
           /\ CallFits(U, words', children', g, Len(frames) - 1, Here + 1, 0)
      BY <2>3, <2>5, <3>9, <3>10 DEF D
    <3>12. OuterCalls(U, words', children', frames)
      BY <2>2, <2>3, <3>2, <3>5, <3>11, OuterStay
    <3>13. Parses(U, words', children', frames', Here + 1, TRUE)
      BY <2>3, <2>6, <3>8, <3>11, <3>12, TopParses
    <3> QED BY <3>1, <3>13 DEF Parses
  <2> QED BY <1>1, <2>1, <2>7, GrammarContinues
<1> QED
  BY <1>2, <1>3

(* A tree more, of a part whose parts are trees. *)
LEMMA OneTreeMore ==
  ASSUME NEW tokens \in Seq(Tokens), NEW nodes, NEW U, Built(tokens, nodes, U),
         NEW n \in 1..Len(tokens), NEW hi \in 1..Len(tokens), NEW lo \in 1..hi,
         IsTree(tokens, nodes, U, n, lo, hi), Finished(tokens, nodes, n)
  PROVE  Built(tokens, nodes, U \cup {<<n, lo, hi>>})
<1> DEFINE V == U \cup {<<n, lo, hi>>}
<1>1. \A i, j, k : <<i, j, k>> \in V /\ <<i, j, k>> \notin U => i = n /\ j = lo /\ k = hi
  OBVIOUS
<1>2. U \subseteq V /\ Len(tokens) \in Nat /\ Len(tokens) >= Len(tokens)
  OBVIOUS
<1> HIDE DEF V
<1>3. IsTree(tokens, nodes, V, n, lo, hi)
  <2>1. hi \in Nat
    OBVIOUS
  <2> QED BY <1>2, <2>1, TreeKept
<1>4. \A i, j, k : <<i, j, k>> \in V /\ <<i, j, k>> \notin U =>
        /\ i \in 1..Len(tokens) /\ k \in 1..Len(tokens) /\ j \in 1..k
        /\ IsTree(tokens, nodes, V, i, j, k) /\ Finished(tokens, nodes, i)
  BY <1>1, <1>3
<1>5. Built(tokens, nodes, V)
  BY <1>2, <1>4, BuiltMore
<1> QED
  BY <1>5 DEF V

Parenthesised(U, tokens, nodes, n, lo, hi) ==
  /\ Built(tokens, nodes, U \cup {<<n, lo, hi>>}) /\ lo \in Nat /\ hi >= lo

(* An expression in parentheses. *)
LEMMA AloneIsTree ==
  ASSUME NEW T, NEW U, NEW tokens \in Seq(Tokens), NEW nodes, NEW all, NEW f \in Calls, f.context = "(", NEW D,
         NEW b \in Nat, NEW z \in 1..Len(tokens), tokens[z] = ")", NEW node, Returns(T, U, tokens, nodes, all, f, D, b, z, node)
  PROVE  Parenthesised(U, tokens, all, node, f.at, z) /\ Hidden(tokens, D - 1, f.at, z)
<1> DEFINE at == f.at
<1>1. /\ Built(tokens, all, U) /\ <<node, b, z - 1>> \in U /\ Begins(U, tokens, all, f, D, b) /\ Inner(tokens, f, D, b, z)
  BY DEF Returns
<1>2. /\ at \in Nat /\ at >= 1 /\ at < b /\ b <= z /\ tokens[at] = "(" /\ z \in Nat
      /\ Between(tokens, at, z) = {} /\ Hidden(tokens, D - 1, at, z)
  <2>1. z \in Nat
    OBVIOUS
  <2>2. f.context \in {"(", "f("}
    OBVIOUS
  <2> QED BY <1>1, <2>1, <2>2, Enclosed
<1>3. b = at + 1
  BY <1>1 DEF Begins
<1> HIDE DEF at
<1>4. node \in 1..Len(tokens) /\ Finished(tokens, all, node)
  BY <1>1, Zenon DEF Built
<1>5. IsTree(tokens, all, U, node, at, z)
  BY <1>1, <1>2, <1>3 DEF IsTree
<1>6. at \in 1..z
  BY <1>2
<1>7. Built(tokens, all, U \cup {<<node, at, z>>})
  BY <1>1, <1>4, <1>5, <1>6, OneTreeMore
<1>8. z >= at
  BY <1>2
<1> QED
  BY <1>2, <1>7, <1>8 DEF Parenthesised, at

(* A function with its arguments. *)
LEMMA CalledIsTree ==
  ASSUME NEW U, NEW tokens \in Seq(Tokens), NEW nodes, NEW f \in Calls, f.context = "f(", NEW D,
         NEW b \in Nat, NEW z \in 1..Len(tokens), tokens[z] = ")", Inner(tokens, f, D, b, z),
         Built(tokens, nodes, U), HasArguments(U, tokens, nodes, f.at, D, z)
  PROVE  Parenthesised(U, tokens, nodes, f.at, f.at, z) /\ Hidden(tokens, D - 1, f.at, z)
<1> DEFINE at == f.at
           q == nodes[at]
           m == Len(q)
<1>1. /\ at \in Nat /\ at >= 1 /\ at < b /\ b <= z /\ tokens[at] = "f(" /\ z \in Nat
      /\ Between(tokens, at, z) = {} /\ Hidden(tokens, D - 1, at, z) /\ D \in Int
  <2>1. z \in Nat
    OBVIOUS
  <2>2. f.context \in {"(", "f("}
    OBVIOUS
  <2> QED BY <2>1, <2>2, Enclosed
<1>2. Nested(tokens, at) = D - 1
  BY DEF Inner
<1> HIDE DEF at, q, m
<1>3. at \in 1..z /\ at \in 1..Len(tokens) /\ z + 1 \in (at + 1)..(Len(tokens) + 1) /\ z \in z..(z + 1) /\ z >= at
  BY <1>1
<1>4. PICK cut : Arguments(U, tokens, at, q, D, z, cut)
  BY Zenon DEF HasArguments, at, q
<1>5. /\ cut \in [0..m -> at..z] /\ cut[0] = at /\ cut[m] = z
      /\ {cut[k] : k \in 1..(m - 1)} = {i \in (at + 1)..(z - 1) : IsComma(tokens, D, i)}
      /\ \A k \in 1..m : <<q[k], cut[k - 1] + 1, cut[k] - 1>> \in U
  BY <1>4, Zenon DEF Arguments, m
<1>6. Commas(tokens, at, z) = {i \in (at + 1)..(z - 1) : IsComma(tokens, D, i)}
  <2>1. tokens[at] # "," /\ tokens[z] # ","
    BY <1>1
  <2>2. \A i \in at..z : i \in (at + 1)..(z - 1) \/ i = at \/ i = z
    BY <1>1
  <2>3. \A i \in (at + 1)..(z - 1) : i \in at..z
    BY <1>1
  <2>4. (D - 1) + 1 = D
    BY <1>1
  <2>5. Commas(tokens, at, z) = {i \in at..z : IsComma(tokens, D, i)}
    BY <1>2, <2>4 DEF Commas, IsComma
  <2>6. ~IsComma(tokens, D, at) /\ ~IsComma(tokens, D, z)
    BY <2>1 DEF IsComma
  <2> QED BY <2>2, <2>3, <2>5, <2>6
<1>7. IsTree(tokens, nodes, U, at, at, z)
  <2>1. /\ Between(tokens, at, z) = {} /\ tokens[at] = "f(" /\ tokens[z] = ")" /\ at = at
        /\ \E c \in [0..m -> at..z] :
              /\ c[0] = at /\ c[m] = z
              /\ {c[k] : k \in 1..(m - 1)} = Commas(tokens, at, z)
              /\ \A k \in 1..m : <<q[k], c[k - 1] + 1, c[k] - 1>> \in U
    BY <1>1, <1>5, <1>6
  <2> QED BY <2>1, Zenon DEF IsTree, m, q
<1>8. Finished(tokens, nodes, at)
  <2>1. Nested(tokens, z + 1) = D - 1
    BY <1>1 DEF Hidden
  <2>2. Nested(tokens, z + 1) <= Nested(tokens, at)
    BY <1>1, <1>2, <2>1
  <2>3. tokens[at] \notin Operators
    BY <1>1, TokenKinds
  <2> QED BY <1>3, <2>2, <2>3 DEF Finished
<1>9. Built(tokens, nodes, U \cup {<<at, at, z>>})
  BY <1>3, <1>7, <1>8, OneTreeMore
<1> QED
  BY <1>1, <1>3, <1>9 DEF Parenthesised, at

(* The callers wait for what the innermost call returns. *)
LEMMA CallersParse ==
  ASSUME NEW U, NEW tokens, NEW nodes, NEW calls \in Seq(Calls), Len(calls) > 1,
         OuterCalls(U, tokens, nodes, calls), Built(tokens, nodes, U),
         NEW outer \in Seq(Calls), Len(outer) = Len(calls) - 1, \A d \in 1..(Len(calls) - 1) : outer[d] = calls[d]
  PROVE  Parses(U, tokens, nodes, outer, calls[Len(calls)].at, TRUE)
<1> DEFINE L == Len(calls)
           M == Len(outer)
<1>1. L \in Nat /\ L > 1 /\ M = L - 1 /\ M \in Nat /\ M + 1 = L /\ M >= 1
  OBVIOUS
<1>2. /\ \A d \in 1..(L - 1) : CallFits(U, tokens, nodes, calls[d], d - 1, calls[d + 1].at, 0)
      /\ \A d, e \in 1..L : d < e => calls[d].at < calls[e].at
      /\ \A d \in 1..(L - 1) : outer[d] = calls[d]
  BY DEF OuterCalls, OuterFit
<1> HIDE DEF L, M
<1>3. \A d \in 1..(M - 1) : d \in 1..(L - 1) /\ d + 1 \in 1..(L - 1)
  BY <1>1
<1>4. \A d \in 1..(M - 1) : CallFits(U, tokens, nodes, outer[d], d - 1, outer[d + 1].at, 0)
  BY <1>2, <1>3
<1>5. CallFits(U, tokens, nodes, outer[M], M - 1, calls[L].at, 0)
  <2>1. M \in 1..(L - 1)
    BY <1>1
  <2> QED BY <1>1, <1>2, <2>1
<1>6. \A d, e \in 1..M : d < e => outer[d].at < outer[e].at
  BY <1>1, <1>2
<1> QED
  BY <1>4, <1>5, <1>6 DEF Parses, L, M

LEMMA CallReturned ==
  ASSUME ExprIInv, GrammarIInv, NEW token \in Tokens, token = ")", Reading(token), Shape.ok, ~Shape.due, Level > 1,
         NEW expr, expr = Finish(Current, Nodes), expr.ok, expr.root # Null,
         NEW node,
         \/ Current.context = "(" /\ children' = expr.children /\ node = expr.root
         \/ Current.context = "f(" /\ AddedTo(expr.children, Current.at, expr.root, children') /\ node = Current.at
  PROVE  \E T : Parses(T, words', children', Resumed(Callers, node), Here + 1, FALSE)
<1> DEFINE at == Current.at
           D == Level - 1
<1>1. /\ Structure(words', Nodes, frames) /\ Len(words') = Here /\ words' \in Seq(Tokens) /\ Here \in Nat /\ words'[Here] = ")"
  BY AfterReading
<1>2. /\ IsFrame(Current, words') /\ Level \in Nat /\ Level = Len(frames) /\ Current = frames[Level]
      /\ frames \in Seq(Calls) /\ Current \in Calls /\ Len(Nodes) = Here
  BY <1>1, CurrentIs
<1>3. /\ Callers \in Seq(Calls) /\ Len(Callers) = Level - 1 /\ Len(Callers) >= 1
      /\ \A d \in 1..(Level - 1) : Callers[d] = frames[d]
  BY <1>1, OuterIs
<1>4. Here \in 1..Len(words') /\ Here <= Len(words') /\ Len(Nodes) = Len(words')
  BY <1>1, <1>2, NewNode
<1>5. expr.root \in Nat
  <2>1. Ended(words', Nodes, expr)
    BY <1>1, CallEnds
  <2> QED BY <2>1 DEF Ended, NamedTokens
<1>6. PICK T : /\ Parses(T, words', Nodes, frames, Here, FALSE) /\ NoTreeAt(T, Current)
               /\ \E U : \E b \in Nat :
                    Returns(T, U, words', Nodes, expr.children, Current, Level - 1, b, Here, expr.root)
  BY CallEnding
<1> HIDE DEF at, D
<1>7. PICK U : \E b \in Nat : Returns(T, U, words', Nodes, expr.children, Current, D, b, Here, expr.root)
  BY <1>6 DEF D
<1>8. PICK b \in Nat : Returns(T, U, words', Nodes, expr.children, Current, D, b, Here, expr.root)
  BY <1>7
<1>9. T \subseteq U /\ Inner(words', Current, D, b, Here) /\ Built(words', expr.children, U)
  BY <1>8 DEF Returns
<1> DEFINE V == U \cup {<<node, at, Here>>}
<1>10. Parenthesised(U, words', children', node, at, Here) /\ Hidden(words', D - 1, at, Here)
  <2>1. CASE Current.context = "(" /\ children' = expr.children /\ node = expr.root
    BY <1>1, <1>2, <1>4, <1>8, <2>1, AloneIsTree DEF at
  <2>2. CASE Current.context = "f(" /\ AddedTo(expr.children, Current.at, expr.root, children') /\ node = Current.at
    <3>1. Current.at \in 1..Len(words')
      BY <1>2, <2>2 DEF IsFrame
    <3>2. Built(words', children', U) /\ HasArguments(U, words', children', Current.at, D, Here)
      BY <1>1, <1>2, <1>5, <1>6, <1>8, <2>2, <3>1, ArgumentRead
    <3>3. Parenthesised(U, words', children', Current.at, Current.at, Here) /\ Hidden(words', D - 1, Current.at, Here)
      BY <1>1, <1>2, <1>4, <1>9, <2>2, <3>2, CalledIsTree
    <3> QED BY <2>2, <3>3 DEF at
  <2> QED BY <2>1, <2>2
<1>11. Built(words', children', V) /\ at \in Nat /\ Here >= at /\ <<node, at, Here>> \in V /\ U \subseteq V
  BY <1>10 DEF Parenthesised
<1> HIDE DEF V
<1>12. T \subseteq V
  BY <1>9, <1>11
<1>13. SameBelow(Nodes, children', frames[Len(frames)].at)
  <2>1. children' = expr.children \/ AddedTo(expr.children, Current.at, expr.root, children')
    OBVIOUS
  <2>2. SameBelow(Nodes, children', Current.at)
    BY <1>1, <1>2, <1>4, <1>8, <2>1, ReturnedSame, ZenonT(30)
  <2> QED BY <1>2, <2>2
<1>14. OuterCalls(V, words', children', frames)
  <2>1. Len(frames) >= 1
    BY <1>2
  <2> QED BY <1>1, <1>2, <1>6, <1>12, <1>13, <2>1, OuterStay
<1>15. Parses(V, words', children', Callers, at, TRUE)
  <2>1. Len(frames) > 1 /\ Len(Callers) = Len(frames) - 1 /\ \A d \in 1..(Len(frames) - 1) : Callers[d] = frames[d]
    BY <1>2, <1>3
  <2>2. Parses(V, words', children', Callers, frames[Len(frames)].at, TRUE)
    BY <1>2, <1>3, <1>11, <1>14, <2>1, CallersParse
  <2> QED BY <1>2, <2>2 DEF at
<1>16. Parses(V, words', children', Resumed(Callers, node), Here + 1, FALSE)
  <2>1. Hidden(words', Len(Callers) - 1, at, Here)
    BY <1>2, <1>3, <1>10 DEF D
  <2>2. node \in Nat
    BY <1>5, <1>11 DEF at
  <2> QED BY <1>1, <1>3, <1>11, <1>15, <2>1, <2>2, ResumedParses
<1> QED
  BY <1>16

LEMMA RightParenParsed ==
  ASSUME ExprIInv, GrammarIInv, RightParen
  PROVE  GrammarIInv'
<1> DEFINE token == ")"
           expr == Finish(Current, Nodes)
           at == Current.at
           before == expr.children[at]
           arguments == IF expr.root = Null THEN before ELSE Append(before, expr.root)
           s == Read(Shape, token)
           open == Shape.open
           alone == Current.context = "(" /\ expr.root # Null
           called == Current.context = "f(" /\ Len(arguments) = CallArity
<1>1. token \in Tokens /\ token \notin Named /\ Reading(token)
  BY TokenKinds DEF RightParen, Tokens, Named
<1>2. ASSUME s.ok
      PROVE  Shape.ok /\ ~Shape.due /\ ~s.due /\ expr.ok /\ expr.root # Null /\ Level > 1
  <2>1. Shape.ok /\ ~Shape.due /\ ~s.due /\ open # <<>>
    BY <1>2, ReadClosed
  <2> HIDE DEF s, expr
  <2>2. expr.ok /\ expr.root # Null /\ Level > 1
    BY <1>1, <2>1, EndIsRead DEF expr
  <2> QED BY <2>1, <2>2
<1>3. ASSUME NEW node, outcome' = outcome, frames' = Resumed(Callers, node),
             \/ Current.context = "(" /\ children' = expr.children /\ node = expr.root
             \/ Current.context = "f(" /\ (expr.root # Null => AddedTo(expr.children, at, expr.root, children')) /\ node = at
      PROVE  GrammarIInv'
  <2>1. ASSUME s.ok PROVE \E T : Parses(T, words', children', frames', Here + 1, s.due)
    <3>1. Shape.ok /\ ~Shape.due /\ ~s.due /\ expr.ok /\ expr.root # Null /\ Level > 1
      BY <1>2, <2>1
    <3> HIDE DEF s, expr
    <3>2. \E T : Parses(T, words', children', Resumed(Callers, node), Here + 1, FALSE)
      BY <1>1, <1>3, <3>1, CallReturned DEF expr
    <3> QED BY <1>3, <3>1, <3>2 DEF Parses
  <2> QED BY <1>1, <1>3, <2>1, GrammarContinues
<1>4. CASE expr.ok /\ alone
  <2>1. Resume(Callers, expr.root) /\ children' = expr.children
    BY <1>4 DEF RightParen
  <2> HIDE DEF expr
  <2> QED BY <1>3, <1>4, <2>1 DEF Resume, Resumed
<1>5. CASE expr.ok /\ called
  <2>1. Resume(Callers, at) /\ children' = [expr.children EXCEPT ![at] = arguments]
    BY <1>5 DEF RightParen
  <2>2. Structure(words', Nodes, frames) /\ Len(words') = Here
    BY <1>1, AfterReading
  <2>3. expr.root # Null => AddedTo(expr.children, at, expr.root, children')
    <3> HIDE DEF expr
    <3>1. Ended(words', Nodes, expr)
      BY <1>5, <2>2, CallEnds DEF expr
    <3>2. expr.children \in Seq(Seq(Nat)) /\ Len(expr.children) = Here
      BY <2>2, <3>1 DEF Ended
    <3>3. at \in 1..Here
      BY <1>5, <2>2, CurrentIs DEF IsFrame
    <3> HIDE DEF at
    <3> QED BY <2>1, <3>2, <3>3 DEF AddedTo
  <2> HIDE DEF expr
  <2> QED BY <1>3, <1>5, <2>1, <2>3 DEF Resume, Resumed
<1>6. CASE ~expr.ok \/ (~alone /\ ~called)
  <2>1. Refuse
    BY <1>6 DEF RightParen
  <2> QED BY <2>1 DEF Refuse, GrammarIInv
<1> HIDE DEF alone, called, expr
<1> QED
  BY <1>4, <1>5, <1>6

LEMMA ClosingParsed ==
  ASSUME ExprIInv, GrammarIInv, Closing
  PROVE  GrammarIInv'
<1> DEFINE expr == Finish(Current, children)
<1>1. /\ outcome = "parsing" /\ words' = words /\ Structure(words, children, frames)
  BY DEF Closing, ExprIInv
<1>2. Shape' = Shape
  BY <1>1 DEF Shape, ShapeOf
<1>3. /\ Level \in Nat /\ Level >= 1 /\ Level = Len(frames) /\ Current = frames[Level] /\ Current \in Calls
      /\ children \in Seq(Seq(Nat)) /\ Len(children) = Len(words) /\ Len(words) \in Nat /\ words \in Seq(Tokens)
      /\ frames[1].context = "top"
  BY <1>1, CurrentIs DEF Structure
<1>4. CASE Level > 1 \/ ~expr.ok
  <2>1. outcome' = "error_at_end"
    BY <1>4 DEF Closing
  <2> QED BY <2>1 DEF GrammarIInv
<1>5. CASE Level = 1 /\ expr.ok
  <2>1. outcome' = "parsed" /\ root' = expr.root /\ children' = expr.children
    <3>1. ~(Level > 1)
      BY <1>5
    <3> QED BY <1>5, <3>1 DEF Closing
  <2> HIDE DEF expr
  <2>2. ASSUME Shape.ok, ~Shape.due
        PROVE  \E T : Built(words', children', T) /\ <<root', 1, Len(words')>> \in T
    <3>1. PICK T : Parses(T, words, children, frames, Here, Shape.due)
      BY <1>1, <2>2 DEF GrammarIInv
    <3>2. Built(words, children, T) /\ CallFits(T, words, children, Current, Level - 1, Here, 1)
      BY <1>3, <2>2, <3>1 DEF Parses
    <3>3. Here = Len(words) + 1 /\ Here \in Nat
      BY <1>3 DEF Here
    <3>4. Stacking(words, children, Current, Here)
      <4> DEFINE ops == Current.operators
      <4>1. ops \in Seq(Nat)
        BY <1>3 DEF Calls
      <4>2. \A k \in 1..Len(ops) : ops[k] \in Elements(ops)
        <5> HIDE DEF ops
        <5> QED BY <4>1, ValueAt
      <4>3. Elements(Current.operators) \subseteq {i \in 1..Len(words) : words[i] \in Operators}
        BY <1>1, CurrentIs
      <4>4. \A k \in 1..Len(ops) : words[ops[k]] \in Operators
        BY <4>2, <4>3
      <4>5. Here <= Len(words) + 1
        BY <1>3, <3>3
      <4> QED BY <1>3, <3>3, <4>4, <4>5 DEF Stacking
    <3>5. PICK U : \E b \in Nat : Returns(T, U, words, children, expr.children, Current, Level - 1, b, Here, expr.root)
      BY <3>2, <3>4, CallReturns DEF expr
    <3>6. PICK b \in Nat : Returns(T, U, words, children, expr.children, Current, Level - 1, b, Here, expr.root)
      BY <3>5
    <3>7. Built(words, expr.children, U) /\ <<expr.root, b, Here - 1>> \in U /\ Begins(U, words, expr.children, Current, Level - 1, b)
      BY <3>6 DEF Returns
    <3>8. b = 1
      <4>1. Current.context = "top"
        BY <1>3, <1>5
      <4> QED BY <3>7, <4>1 DEF Begins
    <3>9. Here - 1 = Len(words)
      BY <1>3, <3>3
    <3> QED BY <1>1, <2>1, <3>7, <3>8, <3>9
  <2> QED BY <1>2, <2>1, <2>2 DEF GrammarIInv
<1> QED
  BY <1>3, <1>4, <1>5

LEMMA InitParses == ExprInit => GrammarIInv
<1> SUFFICES ASSUME ExprInit PROVE GrammarIInv
  OBVIOUS
<1> DEFINE f == Frame("top", 0)
<1>1. words = <<>> /\ children = <<>> /\ frames = <<f>> /\ outcome = "parsing"
  BY DEF ExprInit
<1>2. Shape = NoWords /\ NoWords.ok /\ NoWords.due
  BY <1>1, NoWordsShape DEF Shape, NoWords
<1>3. f.context = "top" /\ f.at = 0
  BY DEF Frame
<1>4. Nested(<<>>, 1) = 0
  BY NestedNext
<1>5. Begins({}, <<>>, <<>>, f, 0, 1)
  BY <1>3 DEF Begins
<1>6. Inner(<<>>, f, 0, 1, 1)
  <2>1. \A i \in (0 + 1)..1 : i = 1
    OBVIOUS
  <2>2. \A i : i \notin 1..(1 - 1)
    OBVIOUS
  <2> HIDE DEF f
  <2> QED BY <1>3, <1>4, <2>1, <2>2 DEF Inner
<1>7. CallFits({}, <<>>, <<>>, f, 0, 1, 0)
  BY <1>5, <1>6, CallBegins
<1> HIDE DEF f
<1>8. Len(<<f>>) = 1 /\ <<f>>[1] = f /\ 1 - 1 = 0
  OBVIOUS
<1>9. Built(<<>>, <<>>, {})
  BY DEF Built
<1>10. /\ \A d : d \notin 1..(1 - 1)
       /\ \A d, e \in 1..1 : ~(d < e)
  OBVIOUS
<1>11. Parses({}, <<>>, <<>>, <<f>>, 1, TRUE)
  BY <1>7, <1>8, <1>9, <1>10 DEF Parses
<1>12. Here = 1
  BY <1>1 DEF Here
<1>13. Parses({}, words, children, frames, Here, Shape.due)
  BY <1>1, <1>2, <1>11, <1>12 DEF Parses
<1> QED
  BY <1>1, <1>13 DEF GrammarIInv

LEMMA NextParses == ExprIInv /\ GrammarIInv /\ [ExprNext]_exprVars => GrammarIInv'
<1> SUFFICES ASSUME ExprIInv, GrammarIInv, [ExprNext]_exprVars PROVE GrammarIInv'
  OBVIOUS
<1>1. CASE Operand
  BY <1>1, OperandParsed
<1>2. CASE Comma
  BY <1>2, CommaParsed
<1>3. CASE RightParen
  BY <1>3, RightParenParsed
<1>4. CASE Closing
  BY <1>4, ClosingParsed
<1>5. ASSUME NEW op \in Operators, Operator(op) PROVE GrammarIInv'
  BY <1>5, OperatorParsed
<1>6. ASSUME NEW token, token \in {"(", "f("}, LeftParen(token) PROVE GrammarIInv'
  BY <1>6, LeftParenParsed
<1>7. CASE UNCHANGED exprVars
  BY <1>7 DEF exprVars, GrammarIInv, Shape, ShapeOf, Here
<1> QED
  BY <1>1, <1>2, <1>3, <1>4, <1>5, <1>6, <1>7 DEF ExprNext

(* What the parser has built at any time is trees of the grammar, and each call    *)
(* has on its stacks those that its operators wait for, in their places.           *)
THEOREM GrammarInvariant == ExprSpec => []GrammarIInv
BY ExprInvariant, InitParses, NextParses, PTL DEF ExprSpec

(* A well-formed expression of any length and depth, with any of the operators, is *)
(* parsed into the tree that the grammar gives it: operators bind by precedence    *)
(* and associativity, "not" takes what binds more tightly, parentheses hide what   *)
(* is in them, and each function has its arguments in order.                       *)
THEOREM ParsesByGrammar == ExprSpec => []ParsesAsGrammar
<1>1. ExprIInv /\ GrammarIInv => ParsesAsGrammar
  <2> SUFFICES ASSUME ExprIInv, GrammarIInv, outcome = "parsed", Shape.ok, ~Shape.due, Shape.open = <<>>
               PROVE  <<root, 1, Len(words)>> \in Trees(words, children)
    BY DEF ParsesAsGrammar
  <2>1. PICK T : Built(words, children, T) /\ <<root, 1, Len(words)>> \in T
    BY DEF GrammarIInv
  <2>2. words \in Seq(Tokens)
    BY DEF ExprIInv, Structure
  <2> QED BY <2>1, <2>2, BuiltAreTrees
<1> QED
  BY <1>1, ExprInvariant, GrammarInvariant, PTL

-----------------------------------------------------------------------------
(* The grammar is unambiguous: what is true of a tree fixes its root. *)

OneNodeEach(T) == \A n, m, lo, hi : <<n, lo, hi>> \in T /\ <<m, lo, hi>> \in T => n = m

LEMMA SplitsAtOne ==
  ASSUME NEW tokens, NEW lo, NEW hi, lo..hi \subseteq Nat, NEW n, NEW m, Splits(tokens, n, lo, hi), Splits(tokens, m, lo, hi)
  PROVE  n = m
<1>1. SUFFICES ASSUME n # m PROVE FALSE
  OBVIOUS
<1>2. /\ n \in Nat /\ tokens[n] \in Operators /\ m \in Nat /\ tokens[m] \in Operators
      /\ SplitsBefore(tokens, n, m) /\ SplitsBefore(tokens, m, n)
  BY <1>1 DEF Splits, Between, Binary
<1> DEFINE p == precedence[tokens[n]]
           q == precedence[tokens[m]]
<1>3. /\ p \in Nat /\ q \in Nat
      /\ (RightAssociative(tokens[n]) <=> p = 5) /\ (RightAssociative(tokens[m]) <=> q = 5)
  BY <1>2, Precedences
<1>4. /\ p < q \/ (p = q /\ IF p = 5 THEN n < m ELSE m < n)
      /\ q < p \/ (q = p /\ IF q = 5 THEN m < n ELSE n < m)
  BY <1>2, <1>3, Zenon DEF SplitsBefore
<1> QED
  <2> HIDE DEF p, q
  <2> QED BY <1>2, <1>3, <1>4

LEMMA RootIsOne ==
  ASSUME NEW tokens, NEW nodes, NEW T, OneNodeEach(T), NEW lo \in Nat, NEW hi \in Nat,
         NEW n, IsTree(tokens, nodes, T, n, lo, hi), NEW m, IsTree(tokens, nodes, T, m, lo, hi)
  PROVE  n = m
<1> DEFINE whole == Between(tokens, lo, hi) = {}
           Means(i) ==
             \/ Splits(tokens, i, lo, hi) /\ ~Negates(tokens, lo, hi)
             \/ Negates(tokens, lo, hi) /\ i = lo
             \/ whole /\ tokens[lo] = "(" /\ <<i, lo + 1, hi - 1>> \in T
             \/ whole /\ tokens[lo] = "f(" /\ i = lo
             \/ tokens[lo] = "operand" /\ lo = hi /\ i = lo
<1>1. Means(n) /\ Means(m)
  BY Zenon DEF IsTree
<1>2. \A i : Splits(tokens, i, lo, hi) => ~whole
  BY DEF Splits
<1>3. Negates(tokens, lo, hi) => tokens[lo] = "not"
  BY DEF Negates
<1>4. tokens[lo] = "operand" /\ lo = hi => whole
  BY OperatorsAssumption DEF Between, Binary
<1>5. \A i, j : Splits(tokens, i, lo, hi) /\ Splits(tokens, j, lo, hi) => i = j
  <2>1. lo..hi \subseteq Nat
    OBVIOUS
  <2> QED BY <2>1, SplitsAtOne
<1>6. \A i, j : <<i, lo + 1, hi - 1>> \in T /\ <<j, lo + 1, hi - 1>> \in T => i = j
  BY DEF OneNodeEach
<1> HIDE DEF whole
<1> QED
  BY <1>1, <1>2, <1>3, <1>4, <1>5, <1>6

(* The grammar gives a part of an expression at most one tree: that the parser's *)
(* is among those of the whole, as ParsesAsGrammar says, makes it the one.       *)
THEOREM GrammarIsUnambiguous ==
  ASSUME NEW tokens \in Seq(Tokens), NEW nodes
  PROVE  OneNodeEach(Trees(tokens, nodes))
<1> DEFINE N == Len(tokens)
           f == CHOOSE f : IsUpTo(tokens, nodes, N, f)
<1>1. N \in Nat
  OBVIOUS
<1>2. Trees(tokens, nodes) = f[N]
  BY DEF Trees, IsUpTo, Shorter
<1>3. IsUpTo(tokens, nodes, N, f)
  BY <1>1, UpToExists
<1> HIDE DEF f, N
<1> DEFINE S == {k \in Nat : k <= N => OneNodeEach(f[k])}
<1>4. 0 \in S
  <2>1. f[0] = {}
    BY <1>1, <1>3 DEF IsUpTo
  <2> QED BY <2>1 DEF OneNodeEach
<1>5. ASSUME NEW k \in S PROVE k + 1 \in S
  <2>1. SUFFICES ASSUME k + 1 <= N, NEW n, NEW m, NEW lo, NEW hi, <<n, lo, hi>> \in f[k + 1], <<m, lo, hi>> \in f[k + 1]
                 PROVE  n = m
    BY <1>5 DEF OneNodeEach
  <2>2. k \in Nat /\ k + 1 \in 0..N /\ (k + 1) - 1 = k /\ k + 1 # 0 /\ k <= N
    BY <1>1, <1>5, <2>1
  <2>3. f[k + 1] = Shorter(tokens, nodes, f[k], k + 1)
    BY <1>3, <2>2 DEF IsUpTo
  <2>4. /\ lo \in Nat /\ hi \in Nat
        /\ IsTree(tokens, nodes, f[k], n, lo, hi) /\ IsTree(tokens, nodes, f[k], m, lo, hi)
    BY <2>1, <2>3 DEF Shorter
  <2>5. OneNodeEach(f[k])
    BY <1>5, <2>2
  <2> QED BY <2>4, <2>5, RootIsOne
<1>6. S = Nat
  <2> HIDE DEF S
  <2>1. S \in SUBSET Nat
    BY DEF S
  <2> QED BY <1>4, <1>5, <2>1, CountingUp
<1> QED
  BY <1>1, <1>2, <1>6
=============================================================================
