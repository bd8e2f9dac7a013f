----------------------- MODULE JupbMessageLiteProofs -----------------------
(***************************************************************************)
(* Proofs about JupbMessageLite, for any message types (none nested in     *)
(* itself), any number of builders, arenas and calls.                      *)
(*                                                                         *)
(* The argument: what a call allocates is a new tree: fresh addresses, in  *)
(* one arena, that nothing but itself points into, and nothing points at   *)
(* its root.  IInv, which a new tree cannot disturb, is inductive.         *)
(*                                                                         *)
(* The values: a message's value is a function of the paths into it.  That *)
(* a clone has the value of its original is shown for a shortest path      *)
(* where the two would differ (ShortestSequence); that everybody else's    *)
(* values stay is the frame lemma SameValue, for a write goes to an        *)
(* address that nothing points at.                                         *)
(***************************************************************************)
EXTENDS MessageRefinement, WellFoundedInduction, SequenceTheorems, TLAPS

----------------------------------------------------------------------------
(* New trees.                                                              *)

NewTree(new, c, a, T) ==
  /\ WellTyped(new)
  /\ \A q \in DOMAIN new : q[1] = c /\ new[q].arena = a
  /\ Root(c) \in DOMAIN new /\ new[Root(c)].type = T
  /\ \A q \in DOMAIN new, f \in Subs : new[q].sub[f] # Root(c)

LEMMA RootFacts ==
  /\ \A T \in Types : Root(T) \in Ptr /\ Root(T)[1] = T
  /\ \A c \in Calls : Root(c) \in Ptr /\ Root(c)[1] = c
  /\ \A T \in Types, c \in Calls : Root(T) # Root(c)
  /\ Null \notin Ptr
<1>1. <<>> \in Seq(Subs)
  OBVIOUS
<1>2. \A x \in Types \cup Calls : Root(x) \in Ptr /\ Root(x)[1] = x
  BY <1>1 DEF Root, Ptr
<1>3. \A T \in Types, c \in Calls : T # c
  BY TypesAssumption
<1>4. Null \notin Ptr
  BY NullAssumption DEF Ptr
<1>5. \A T \in Types, c \in Calls : Root(T) # Root(c)
  BY <1>3 DEF Root
<1> QED
  BY <1>2, <1>4, <1>5

LEMMA AppendFacts ==
  ASSUME NEW S, NEW s \in Seq(S), NEW e \in S
  PROVE  /\ Append(s, e) \in Seq(S) /\ Append(s, e) # <<>>
         /\ Head(Append(s, e)) = IF s = <<>> THEN e ELSE Head(s)
<1>1. Append(s, e) \in Seq(S) /\ Len(Append(s, e)) = Len(s) + 1 /\ Len(s) \in Nat
  OBVIOUS
<1>2. Append(s, e) # <<>>
  <2>1. Len(<<>>) = 0
    OBVIOUS
  <2> QED
    BY <1>1, <2>1
<1>3. Head(Append(s, e)) = Append(s, e)[1]
  BY <1>1, <1>2
<1>4. CASE s = <<>>
  BY <1>2, <1>3, <1>4
<1>5. CASE s # <<>>
  BY <1>2, <1>3, <1>5
<1> QED
  BY <1>1, <1>2, <1>4, <1>5

LEMMA NestedPathsFacts ==
  /\ <<>> \in NestedPaths
  /\ NestedPaths \subseteq Seq(Subs)
<1>1. <<>> \in [1..0 -> Subs]
  OBVIOUS
<1>2. <<>> \in BoundedSeq(Subs, MaxDepth)
  BY <1>1, TypesAssumption DEF BoundedSeq, SeqOf
<1>3. \A n \in 0..MaxDepth : [1..n -> Subs] \subseteq Seq(Subs)
  BY TypesAssumption
<1> QED
  BY <1>2, <1>3 DEF NestedPaths, BoundedSeq, SeqOf

LEMMA LeastElement ==
  ASSUME NEW S \in SUBSET Nat, S # {}
  PROVE  \E x \in S : \A y \in S : x <= y
<1>1. IsWellFoundedOn(OpToRel(<, Nat), Nat)
  BY NatLessThanWellFounded
<1>2. PICK x \in S : \A y \in S : ~ (<<y, x>> \in OpToRel(<, Nat))
  BY <1>1, WFMin
<1>3. \A y \in S : ~ (y < x)
  BY <1>2 DEF OpToRel
<1> QED
  BY <1>3

\* In any memory, the addresses along a path are determined.
LEMMA OneTrace ==
  ASSUME NEW m, NEW p, NEW path \in Seq(Subs), NEW t \in Traces(m, p, path),
         NEW u \in Traces(m, p, path)
  PROVE  \A i \in 1..Len(path) : t[i] = u[i]
<1> DEFINE Bad == {i \in 1..Len(path) : t[i] # u[i]}
<1> SUFFICES ASSUME Bad # {} PROVE FALSE
  OBVIOUS
<1>1. Len(path) \in Nat /\ Bad \in SUBSET Nat
  OBVIOUS
<1>2. PICK i \in Bad : \A j \in Bad : i <= j
  BY <1>1, LeastElement
<1>3. i = 1 \/ i - 1 \in 1..Len(path)
  BY <1>1
<1>4. i # 1 => t[i - 1] = u[i - 1]
  BY <1>1, <1>2, <1>3
<1>5. t[i] = u[i]
  BY <1>4 DEF Traces
<1> QED
  BY <1>5

LEMMA WalkEnds ==
  ASSUME NEW m, NEW p, NEW path \in Paths(m, p), path # <<>>, NEW t \in Traces(m, p, path)
  PROVE  Walk(m, p, path) = t[Len(path)]
<1>1. path \in Seq(Subs) /\ Len(path) \in 1..Len(path)
  <2>1. path \in Seq(Subs)
    BY NestedPathsFacts DEF Paths
  <2> QED
    BY <2>1
<1>2. PICK u \in Traces(m, p, path) : Walk(m, p, path) = u[Len(path)]
  BY DEF Walk
<1> QED
  BY <1>1, <1>2, OneTrace

\* A path goes on with field f if and only if the message at its end has that
\* submessage, and then leads to it.
LEMMA PathStep ==
  ASSUME NEW m, WellTyped(m), NEW p \in DOMAIN m, NEW path \in Seq(Subs), NEW f \in Subs
  PROVE  /\ path \in Paths(m, p) => Walk(m, p, path) \in DOMAIN m
         /\ Append(path, f) \in Paths(m, p) <=>
              path \in Paths(m, p) /\ m[Walk(m, p, path)].sub[f] # Null
         /\ Append(path, f) \in Paths(m, p) =>
              Walk(m, p, Append(path, f)) = m[Walk(m, p, path)].sub[f]
<1> DEFINE n == Len(path)
           longer == Append(path, f)
<1>1. /\ n \in Nat /\ Len(longer) = n + 1 /\ longer \in Seq(Subs) /\ longer # <<>>
      /\ longer[n + 1] = f /\ \A i \in 1..n : longer[i] = path[i] /\ path[i] \in Subs
      /\ path = <<>> <=> n = 0
  BY AppendFacts
<1>2. Null \notin DOMAIN m
  BY RootFacts DEF WellTyped
<1> HIDE DEF longer, n
<1>3. ASSUME path \in Paths(m, p)
      PROVE  /\ Walk(m, p, path) \in DOMAIN m
             /\ n # 0 => m[Walk(m, p, path)].type = SubType[path[n]]
  <2>1. PICK t \in Traces(m, p, path) : TRUE
    BY <1>3 DEF Paths
  <2>2. CASE n = 0
    BY <1>1, <2>2 DEF Walk
  <2>3. CASE n # 0
    <3>1. Walk(m, p, path) = t[n] /\ n \in 1..n
      BY <1>1, <1>3, <2>3, WalkEnds DEF n
    <3>2. /\ t[n] \in DOMAIN m
          /\ m[IF n = 1 THEN p ELSE t[n - 1]].sub[path[n]] = t[n]
      BY <3>1 DEF Traces, n
    <3>3. (IF n = 1 THEN p ELSE t[n - 1]) \in DOMAIN m
      <4>1. n = 1 \/ n - 1 \in 1..n
        BY <1>1, <2>3
      <4> QED
        BY <4>1 DEF Traces, n
    <3> QED
      BY <1>1, <1>2, <3>1, <3>2, <3>3 DEF WellTyped
  <2> QED
    BY <2>2, <2>3
<1>4. ASSUME longer \in Paths(m, p)
      PROVE  /\ path \in Paths(m, p)
             /\ m[Walk(m, p, path)].sub[f] # Null
             /\ Walk(m, p, longer) = m[Walk(m, p, path)].sub[f]
  <2>1. PICK u \in Traces(m, p, longer) : TRUE
    BY <1>4 DEF Paths
  <2>2. /\ u \in [1..n + 1 -> DOMAIN m]
        /\ \A i \in 1..n + 1 : m[IF i = 1 THEN p ELSE u[i - 1]].sub[longer[i]] = u[i]
    BY <1>1 DEF Traces
  <2> DEFINE t == [i \in 1..n |-> u[i]]
  <2>3. t \in Traces(m, p, path)
    <3>1. t \in [1..n -> DOMAIN m]
      BY <1>1, <2>2
    <3>2. ASSUME NEW i \in 1..n
          PROVE  m[IF i = 1 THEN p ELSE t[i - 1]].sub[path[i]] = t[i]
      <4>1. i \in 1..n + 1 /\ (i = 1 \/ i - 1 \in 1..n) /\ longer[i] = path[i]
        BY <1>1
      <4> QED
        BY <2>2, <4>1
    <3> QED
      BY <3>1, <3>2 DEF Traces, n
  <2>4. path \in NestedPaths
    <3>1. path \in BoundedSeq(Subs, MaxDepth)
      <4>1. longer \in BoundedSeq(Subs, MaxDepth)
        BY <1>4 DEF Paths, NestedPaths
      <4>2. n + 1 \in 0..MaxDepth
        <5>1. PICK k \in 0..MaxDepth : longer \in [1..k -> Subs]
          BY <4>1 DEF BoundedSeq, SeqOf
        <5>2. DOMAIN longer = 1..(n + 1) /\ DOMAIN longer = 1..k
          BY <1>1, <5>1
        <5>3. k \in Nat
          BY <5>1, TypesAssumption
        <5>4. n + 1 \in 1..(n + 1)
          BY <1>1
        <5>5. n + 1 \in 1..k
          BY <5>2, <5>4
        <5> QED
          BY <1>1, <5>1, <5>3, <5>5, TypesAssumption
      <4>3. path \in [1..n -> Subs]
        BY DEF n
      <4>4. n \in 0..MaxDepth
        BY <1>1, <4>2, TypesAssumption
      <4> QED
        BY <4>3, <4>4 DEF BoundedSeq, SeqOf
    <3>2. \A i \in 1..n : TypeOf[longer[i + 1]] = SubType[longer[i]]
      BY <1>1, <1>4 DEF Paths, NestedPaths
    <3>3. \A i \in 1..(n - 1) : TypeOf[path[i + 1]] = SubType[path[i]]
      <4>1. \A i \in 1..(n - 1) : i \in 1..n /\ i + 1 \in 1..n
        BY <1>1
      <4> QED
        BY <1>1, <3>2, <4>1
    <3> QED
      BY <3>1, <3>3 DEF NestedPaths, n
  <2>5. path \in Paths(m, p)
    BY <2>3, <2>4 DEF Paths
  <2>6. Walk(m, p, path) = IF n = 0 THEN p ELSE u[n]
    <3>1. CASE n = 0
      BY <1>1, <3>1 DEF Walk
    <3>2. CASE n # 0
      <4>1. n \in 1..n
        BY <1>1, <3>2
      <4>2. Walk(m, p, path) = t[n]
        BY <1>1, <2>3, <2>5, <3>2, WalkEnds DEF n
      <4> QED
        BY <3>2, <4>1, <4>2
    <3> QED
      BY <3>1, <3>2
  <2>7. m[Walk(m, p, path)].sub[f] = u[n + 1] /\ u[n + 1] \in DOMAIN m
    <3>1. n + 1 \in 1..n + 1 /\ (n + 1) - 1 = n /\ (n + 1 = 1 <=> n = 0)
      BY <1>1
    <3> QED
      BY <1>1, <2>2, <2>6, <3>1
  <2>8. Walk(m, p, longer) = u[n + 1]
    BY <1>1, <1>4, WalkEnds
  <2> QED
    BY <1>2, <2>5, <2>7, <2>8
<1>5. ASSUME path \in Paths(m, p), m[Walk(m, p, path)].sub[f] # Null
      PROVE  longer \in Paths(m, p)
  <2>1. PICK t \in Traces(m, p, path) : TRUE
    BY <1>5 DEF Paths
  <2>2. /\ t \in [1..n -> DOMAIN m]
        /\ \A i \in 1..n : m[IF i = 1 THEN p ELSE t[i - 1]].sub[path[i]] = t[i]
    BY <2>1 DEF Traces, n
  <2> DEFINE w == Walk(m, p, path)
             u == [i \in 1..n + 1 |-> IF i = n + 1 THEN m[w].sub[f] ELSE t[i]]
  <2>3. w = IF n = 0 THEN p ELSE t[n]
    <3>1. CASE n = 0
      BY <1>1, <3>1 DEF Walk
    <3>2. CASE n # 0
      BY <1>1, <1>5, <3>2, WalkEnds DEF n
    <3> QED
      BY <3>1, <3>2
  <2>4. /\ w \in DOMAIN m /\ m[w].type = TypeOf[f] /\ m[w].sub[f] \in DOMAIN m
        /\ n # 0 => m[w].type = SubType[path[n]]
    BY <1>3, <1>5 DEF WellTyped
  <2> HIDE DEF w
  <2>5. longer \in NestedPaths
    <3>1. CASE n = 0
      BY <1>1, <3>1, NestingAssumption DEF longer
    <3>2. CASE n # 0
      BY <1>1, <1>5, <2>4, <3>2, NestingAssumption DEF Paths, n, longer
    <3> QED
      BY <3>1, <3>2
  <2>6. u \in Traces(m, p, longer)
    <3>1. u \in [1..n + 1 -> DOMAIN m]
      <4>1. \A i \in 1..n + 1 : i = n + 1 \/ i \in 1..n
        BY <1>1
      <4> QED
        BY <2>2, <2>4, <4>1
    <3>2. ASSUME NEW i \in 1..n + 1
          PROVE  m[IF i = 1 THEN p ELSE u[i - 1]].sub[longer[i]] = u[i]
      <4>1. CASE i = n + 1
        <5>1. (i = 1 <=> n = 0) /\ (n # 0 => i - 1 = n /\ n \in 1..n + 1 /\ n # n + 1)
          BY <1>1, <4>1
        <5> QED
          BY <1>1, <2>3, <4>1, <5>1
      <4>2. CASE i # n + 1
        <5>1. i \in 1..n /\ (i = 1 \/ (i - 1 \in 1..n + 1 /\ i - 1 # n + 1))
          BY <1>1, <4>2
        <5> QED
          BY <1>1, <2>2, <4>2, <5>1
      <4> QED
        BY <4>1, <4>2
    <3> QED
      BY <1>1, <3>1, <3>2 DEF Traces
  <2> QED
    BY <2>5, <2>6 DEF Paths
<1> QED
  BY <1>3, <1>4, <1>5 DEF longer

LEMMA EmptyPath ==
  ASSUME NEW m, NEW p
  PROVE  <<>> \in Paths(m, p) /\ Walk(m, p, <<>>) = p /\ Paths(m, p) \subseteq Seq(Subs)
<1>1. [i \in 1..0 |-> p] \in Traces(m, p, <<>>)
  BY DEF Traces
<1> QED
  BY <1>1, NestedPathsFacts DEF Paths, Walk

LEMMA WalkFacts ==
  ASSUME WellTyped(mem), NEW p \in DOMAIN mem
  PROVE  /\ <<>> \in Paths(mem, p) /\ Walk(mem, p, <<>>) = p
         /\ \A path \in Paths(mem, p) : path \in Seq(Subs) /\ Walk(mem, p, path) \in DOMAIN mem
         /\ \A path \in Paths(mem, p), f \in Subs :
              Append(path, f) \in Paths(mem, p) => mem[Walk(mem, p, Append(path, f))].type = SubType[f]
<1>1. <<>> \in Paths(mem, p) /\ Walk(mem, p, <<>>) = p /\ Paths(mem, p) \subseteq Seq(Subs)
  BY EmptyPath
<1>2. \A path \in Paths(mem, p), f \in Subs :
        /\ Walk(mem, p, path) \in DOMAIN mem
        /\ Append(path, f) \in Paths(mem, p) <=> mem[Walk(mem, p, path)].sub[f] # Null
        /\ Append(path, f) \in Paths(mem, p) =>
             Walk(mem, p, Append(path, f)) = mem[Walk(mem, p, path)].sub[f]
  BY <1>1, PathStep
<1>3. \A path \in Paths(mem, p) : Walk(mem, p, path) \in DOMAIN mem
  <2> TAKE path \in Paths(mem, p)
  <2>1. CASE Subs # {}
    BY <1>2, <2>1
  <2>2. CASE Subs = {}
    <3>1. path = <<>>
      BY <1>1, <2>2
    <3> QED
      BY <1>1, <3>1
  <2> QED
    BY <2>1, <2>2
<1> QED
  BY <1>1, <1>2, <1>3 DEF WellTyped

\* What upb_Message_DeepClone makes.
LEMMA CloneShape ==
  ASSUME WellTyped(mem), NEW p \in DOMAIN mem, NEW c \in Calls, NEW a \in Arenas
  PROVE  LET copy == DeepClone(p, c, a) IN
         /\ copy \in [DOMAIN copy -> NativeMessage]
         /\ Root(c) \in DOMAIN copy /\ copy[Root(c)].type = mem[p].type
         /\ \A q \in DOMAIN copy :
              q \in Ptr /\ q = <<c, q[2]>> /\ q[2] \in Seq(Subs) /\ copy[q].arena = a
         /\ \A q \in DOMAIN copy, f \in Subs : copy[q].sub[f] # Null =>
              /\ copy[q].type = TypeOf[f]
              /\ copy[q].sub[f] = <<c, Append(q[2], f)>>
              /\ copy[q].sub[f] \in DOMAIN copy
              /\ copy[copy[q].sub[f]].type = SubType[f]
<1> DEFINE copy == DeepClone(p, c, a)
           source(q) == mem[Walk(mem, p, q[2])]
<1>1. DOMAIN copy = {<<c, path>> : path \in Paths(mem, p)}
  BY DEF DeepClone
<1>2. ASSUME NEW q \in DOMAIN copy
      PROVE  /\ q = <<c, q[2]>> /\ q[2] \in Paths(mem, p) /\ q[2] \in Seq(Subs) /\ q \in Ptr
             /\ Walk(mem, p, q[2]) \in DOMAIN mem /\ source(q) \in NativeMessage
  BY <1>1, WalkFacts DEF Ptr, WellTyped
<1>3. ASSUME NEW q \in DOMAIN copy
      PROVE  copy[q] = [source(q) EXCEPT
                          !.arena = a,
                          !.sub = [f \in Subs |-> IF source(q).sub[f] = Null THEN Null
                                                  ELSE <<c, Append(q[2], f)>>]]
  BY <1>1 DEF DeepClone
<1> HIDE DEF copy, source
<1>4. ASSUME NEW q \in DOMAIN copy
      PROVE  /\ copy[q] \in NativeMessage
             /\ copy[q].arena = a /\ copy[q].type = source(q).type
             /\ \A f \in Subs : copy[q].sub[f] = IF source(q).sub[f] = Null THEN Null
                                                 ELSE <<c, Append(q[2], f)>>
  <2> DEFINE sub == [f \in Subs |-> IF source(q).sub[f] = Null THEN Null
                                    ELSE <<c, Append(q[2], f)>>]
  <2>1. \A f \in Subs : <<c, Append(q[2], f)>> \in Ptr
    BY <1>2, AppendFacts DEF Ptr
  <2>2. sub \in [Subs -> Ptr \cup {Null}]
    BY <2>1
  <2>3. \A f \in Subs : sub[f] = IF source(q).sub[f] = Null THEN Null ELSE <<c, Append(q[2], f)>>
    OBVIOUS
  <2>4. copy[q] = [source(q) EXCEPT !.arena = a, !.sub = sub]
    BY <1>3
  <2> HIDE DEF sub
  <2>5. copy[q] \in NativeMessage
    BY <1>2, <2>2, <2>4 DEF NativeMessage
  <2>6. copy[q].arena = a /\ copy[q].type = source(q).type /\ copy[q].sub = sub
    BY <1>2, <2>4 DEF NativeMessage
  <2> QED
    BY <2>3, <2>5, <2>6
<1>5. copy \in [DOMAIN copy -> NativeMessage]
  <2>1. copy = [q \in DOMAIN copy |-> copy[q]]
    BY DEF copy, DeepClone
  <2> QED
    BY <1>4, <2>1
<1>6. Root(c) \in DOMAIN copy /\ copy[Root(c)].type = mem[p].type
  <2>1. Root(c) \in DOMAIN copy /\ source(Root(c)) = mem[p]
    BY <1>1, WalkFacts DEF Root, source
  <2> QED
    BY <1>4, <2>1
<1>7. ASSUME NEW q \in DOMAIN copy, NEW f \in Subs, copy[q].sub[f] # Null
      PROVE  /\ copy[q].type = TypeOf[f]
             /\ copy[q].sub[f] = <<c, Append(q[2], f)>>
             /\ copy[q].sub[f] \in DOMAIN copy
             /\ copy[copy[q].sub[f]].type = SubType[f]
  <2>1. /\ source(q).sub[f] # Null
        /\ copy[q].sub[f] = <<c, Append(q[2], f)>>
    BY <1>4, <1>7
  <2>2. Append(q[2], f) \in Paths(mem, p)
    BY <1>2, <2>1, PathStep DEF source
  <2>3. <<c, Append(q[2], f)>> \in DOMAIN copy
    BY <1>1, <2>2
  <2>4. source(<<c, Append(q[2], f)>>).type = SubType[f]
    BY <1>2, <2>2, WalkFacts DEF source
  <2>5. copy[q].type = TypeOf[f]
    BY <1>2, <1>4, <2>1 DEF source, WellTyped
  <2> QED
    BY <1>4, <2>1, <2>3, <2>4, <2>5
<1> QED
  BY <1>2, <1>4, <1>5, <1>6, <1>7 DEF copy

LEMMA CloneIsNewTree ==
  ASSUME WellTyped(mem), NEW p \in DOMAIN mem, NEW c \in Calls, NEW a \in Arenas
  PROVE  NewTree(DeepClone(p, c, a), c, a, mem[p].type)
<1> DEFINE copy == DeepClone(p, c, a)
<1>1. /\ copy \in [DOMAIN copy -> NativeMessage]
      /\ Root(c) \in DOMAIN copy /\ copy[Root(c)].type = mem[p].type
      /\ \A q \in DOMAIN copy :
           q \in Ptr /\ q = <<c, q[2]>> /\ q[2] \in Seq(Subs) /\ copy[q].arena = a
      /\ \A q \in DOMAIN copy, f \in Subs : copy[q].sub[f] # Null =>
           /\ copy[q].type = TypeOf[f]
           /\ copy[q].sub[f] = <<c, Append(q[2], f)>>
           /\ copy[q].sub[f] \in DOMAIN copy
           /\ copy[copy[q].sub[f]].type = SubType[f]
  BY CloneShape
<1> HIDE DEF copy
<1>2. WellTyped(copy)
  BY <1>1 DEF WellTyped
<1>3. ASSUME NEW q \in DOMAIN copy, NEW f \in Subs
      PROVE  copy[q].sub[f] # Root(c)
  <2>1. CASE copy[q].sub[f] = Null
    BY <2>1, RootFacts
  <2>2. CASE copy[q].sub[f] # Null
    <3>1. Append(q[2], f) # <<>>
      BY <1>1, AppendFacts
    <3> QED
      BY <1>1, <2>2, <3>1 DEF Root
  <2> QED
    BY <2>1, <2>2
<1>4. \A q \in DOMAIN copy : q[1] = c
  BY <1>1
<1> QED
  BY <1>1, <1>2, <1>3, <1>4 DEF NewTree, copy

LEMMA DecodedIsNewTree ==
  ASSUME WellTyped(mem), NEW p \in DOMAIN mem, NEW c \in Calls, NEW a \in Arenas,
         NEW decoded \in SUBSET Fields
  PROVE  NewTree(Decoded(p, c, a, decoded), c, a, mem[p].type)
<1> DEFINE copy == DeepClone(p, c, a)
           tops == decoded \cap Subs
           new == Decoded(p, c, a, decoded)
<1>1. /\ copy \in [DOMAIN copy -> NativeMessage]
      /\ Root(c) \in DOMAIN copy /\ copy[Root(c)].type = mem[p].type
      /\ \A q \in DOMAIN copy :
           q \in Ptr /\ q = <<c, q[2]>> /\ q[2] \in Seq(Subs) /\ copy[q].arena = a
      /\ \A q \in DOMAIN copy, f \in Subs : copy[q].sub[f] # Null =>
           /\ copy[q].type = TypeOf[f]
           /\ copy[q].sub[f] = <<c, Append(q[2], f)>>
           /\ copy[q].sub[f] \in DOMAIN copy
           /\ copy[copy[q].sub[f]].type = SubType[f]
  BY CloneShape
<1>2. /\ DOMAIN new = {q \in DOMAIN copy : q[2] = <<>> \/ Head(q[2]) \in tops}
      /\ \A q \in DOMAIN new \ {Root(c)} : new[q] = copy[q]
      /\ Root(c) \in DOMAIN new =>
           new[Root(c)] = [copy[Root(c)] EXCEPT
             !.val = [f \in Scalars |-> IF f \in decoded THEN copy[Root(c)].val[f] ELSE Zero],
             !.has = decoded,
             !.sub = [f \in Subs |-> IF f \in decoded THEN copy[Root(c)].sub[f] ELSE Null]]
      /\ new = [q \in DOMAIN new |-> new[q]]
  BY DEF Decoded
<1> HIDE DEF copy, new
<1>3. Root(c)[2] = <<>> /\ Root(c) \in DOMAIN new
  BY <1>1, <1>2 DEF Root
<1>4. /\ new[Root(c)] \in NativeMessage
      /\ new[Root(c)].type = mem[p].type /\ new[Root(c)].arena = a
      /\ \A f \in Subs : new[Root(c)].sub[f] = IF f \in decoded THEN copy[Root(c)].sub[f] ELSE Null
  <2> DEFINE old == copy[Root(c)]
             val == [f \in Scalars |-> IF f \in decoded THEN old.val[f] ELSE Zero]
             sub == [f \in Subs |-> IF f \in decoded THEN old.sub[f] ELSE Null]
  <2>1. old \in NativeMessage /\ old.type = mem[p].type /\ old.arena = a
    BY <1>1
  <2>2. val \in [Scalars -> Values] /\ sub \in [Subs -> Ptr \cup {Null}]
    BY <2>1, DefaultsAssumption DEF NativeMessage
  <2>3. \A f \in Subs : sub[f] = IF f \in decoded THEN old.sub[f] ELSE Null
    OBVIOUS
  <2>4. new[Root(c)] = [old EXCEPT !.val = val, !.has = decoded, !.sub = sub]
    BY <1>2, <1>3
  <2> HIDE DEF old, val, sub
  <2>5. new[Root(c)] \in NativeMessage
    BY <2>1, <2>2, <2>4 DEF NativeMessage
  <2>6. new[Root(c)].arena = a /\ new[Root(c)].type = mem[p].type /\ new[Root(c)].sub = sub
    BY <2>1, <2>4 DEF NativeMessage
  <2> QED
    BY <2>3, <2>5, <2>6 DEF old
<1>5. ASSUME NEW q \in DOMAIN new
      PROVE  q \in DOMAIN copy /\ new[q] \in NativeMessage /\ new[q].arena = a
             /\ new[q].type = copy[q].type
  BY <1>1, <1>2, <1>4
<1>6. ASSUME NEW q \in DOMAIN new, NEW f \in Subs, new[q].sub[f] # Null
      PROVE  /\ copy[q].sub[f] = new[q].sub[f]
             /\ new[q].sub[f] = <<c, Append(q[2], f)>>
             /\ new[q].sub[f] \in DOMAIN new
             /\ new[q].sub[f] # Root(c)
  <2>1. copy[q].sub[f] = new[q].sub[f]
    BY <1>2, <1>3, <1>4, <1>6
  <2>2. /\ new[q].sub[f] = <<c, Append(q[2], f)>>
        /\ new[q].sub[f] \in DOMAIN copy
        /\ q[2] \in Seq(Subs)
    BY <1>1, <1>5, <1>6, <2>1
  <2>3. Head(Append(q[2], f)) \in tops
    <3>1. CASE q[2] = <<>>
      <4>1. q = Root(c)
        BY <1>1, <1>5, <3>1 DEF Root
      <4>2. f \in decoded
        BY <1>4, <1>6, <4>1
      <4> QED
        BY <2>2, <3>1, <4>2, AppendFacts
    <3>2. CASE q[2] # <<>>
      <4>1. Head(q[2]) \in tops
        BY <1>2, <3>2
      <4>2. Head(Append(q[2], f)) = Head(q[2])
        BY <2>2, <3>2, AppendFacts
      <4> QED
        BY <4>1, <4>2
    <3> QED
      BY <3>1, <3>2
  <2>4. new[q].sub[f] # Root(c)
    BY <2>2, AppendFacts DEF Root
  <2>5. new[q].sub[f][2] = Append(q[2], f)
    BY <2>2
  <2> QED
    BY <1>2, <2>1, <2>2, <2>3, <2>4, <2>5
<1>7. WellTyped(new)
  <2>1. \A q \in DOMAIN new : q \in Ptr
    BY <1>1, <1>5
  <2>2. ASSUME NEW q \in DOMAIN new, NEW f \in Subs, new[q].sub[f] # Null
        PROVE  /\ new[q].type = TypeOf[f]
               /\ new[q].sub[f] \in DOMAIN new
               /\ new[new[q].sub[f]].type = SubType[f]
    <3>1. copy[q].sub[f] = new[q].sub[f] /\ new[q].sub[f] \in DOMAIN new /\ q \in DOMAIN copy
      BY <1>5, <1>6, <2>2
    <3>2. copy[q].type = TypeOf[f] /\ copy[copy[q].sub[f]].type = SubType[f]
      BY <1>1, <2>2, <3>1
    <3> QED
      BY <1>5, <3>1, <3>2
  <2> QED
    BY <1>2, <1>5, <2>1, <2>2 DEF WellTyped
<1>8. \A q \in DOMAIN new, f \in Subs : new[q].sub[f] # Root(c)
  BY <1>6, RootFacts
<1>9. \A q \in DOMAIN new : q[1] = c
  BY <1>1, <1>5
<1> QED
  BY <1>3, <1>4, <1>5, <1>7, <1>8, <1>9 DEF NewTree, new
----------------------------------------------------------------------------
(* Allocation does not disturb what is there.                              *)

LEMMA NextCallUnused ==
  ASSUME CallsLeft
  PROVE  NextCall \in Calls /\ Unused(NextCall)
BY DEF CallsLeft, NextCall

\* m is the memory with the tree "new" of call c added.
Extended(m, new, c) ==
  /\ WellTyped(m)
  /\ DOMAIN m = DOMAIN mem \cup DOMAIN new
  /\ \A p \in DOMAIN mem : m[p] = mem[p]
  /\ \A p \in DOMAIN new : m[p] = new[p] /\ p \notin DOMAIN mem
  /\ \A p \in DOMAIN m, f \in Subs : m[p].sub[f] # Root(c)
  /\ \A g : SubmessagesFused(mem, g) => SubmessagesFused(m, g)

LEMMA AllocatedExtends ==
  ASSUME WellTyped(mem), NEW c \in Calls, Unused(c), NEW a, NEW T, NEW new, NewTree(new, c, a, T)
  PROVE  Extended(Allocated(new), new, c)
<1> DEFINE m == Allocated(new)
<1>1. /\ DOMAIN m = DOMAIN mem \cup DOMAIN new
      /\ m = [p \in DOMAIN m |-> m[p]]
      /\ \A p \in DOMAIN new : m[p] = new[p]
      /\ \A p \in DOMAIN mem : p \notin DOMAIN new => m[p] = mem[p]
  BY DEF Allocated
<1>2. \A p \in DOMAIN new : p \notin DOMAIN mem
  BY DEF NewTree, Unused
<1> HIDE DEF m
<1>3. ASSUME NEW p \in DOMAIN mem
      PROVE  /\ p \in Ptr /\ m[p] = mem[p] /\ m[p] \in NativeMessage
             /\ \A f \in Subs : m[p].sub[f] # Null =>
                  /\ m[p].type = TypeOf[f]
                  /\ m[p].sub[f] \in DOMAIN mem
                  /\ m[m[p].sub[f]] = mem[mem[p].sub[f]]
                  /\ m[m[p].sub[f]].type = SubType[f]
  BY <1>1, <1>2 DEF WellTyped
<1>4. ASSUME NEW p \in DOMAIN new
      PROVE  /\ p \in Ptr /\ m[p] = new[p] /\ m[p] \in NativeMessage
             /\ \A f \in Subs : m[p].sub[f] # Null =>
                  /\ m[p].type = TypeOf[f]
                  /\ m[p].sub[f] \in DOMAIN new
                  /\ m[m[p].sub[f]] = new[new[p].sub[f]]
                  /\ m[m[p].sub[f]].type = SubType[f]
  BY <1>1 DEF NewTree, WellTyped
<1>5. WellTyped(m)
  <2>1. \A p \in DOMAIN m : p \in Ptr /\ m[p] \in NativeMessage
    BY <1>1, <1>3, <1>4
  <2>2. \A p \in DOMAIN m, f \in Subs :
          m[p].sub[f] # Null => /\ m[p].type = TypeOf[f]
                                /\ m[p].sub[f] \in DOMAIN m
                                /\ m[m[p].sub[f]].type = SubType[f]
    BY <1>1, <1>3, <1>4
  <2> QED
    BY <1>1, <2>1, <2>2 DEF WellTyped
<1>6. ASSUME NEW p \in DOMAIN m, NEW f \in Subs
      PROVE  m[p].sub[f] # Root(c)
  <2>1. CASE p \in DOMAIN new
    BY <1>4, <2>1 DEF NewTree
  <2>2. CASE p \in DOMAIN mem
    <3>1. m[p].sub[f] = Null \/ m[p].sub[f] \in DOMAIN mem
      BY <1>3, <2>2
    <3>2. Root(c) \notin DOMAIN mem
      BY <1>2 DEF NewTree
    <3> QED
      BY <3>1, <3>2, RootFacts
  <2> QED
    BY <1>1, <2>1, <2>2
<1>7. ASSUME NEW g, SubmessagesFused(mem, g)
      PROVE  SubmessagesFused(m, g)
  <2> SUFFICES ASSUME NEW p \in DOMAIN m, NEW f \in Subs, m[p].sub[f] # Null
               PROVE  g[m[p].arena] = g[m[m[p].sub[f]].arena]
    BY DEF SubmessagesFused
  <2>1. CASE p \in DOMAIN new
    <3>1. /\ m[p] = new[p] /\ new[p].sub[f] \in DOMAIN new
          /\ m[m[p].sub[f]] = new[new[p].sub[f]]
      BY <1>4, <2>1
    <3>2. new[p].arena = a /\ new[new[p].sub[f]].arena = a
      BY <2>1, <3>1 DEF NewTree
    <3> QED
      BY <3>1, <3>2
  <2>2. CASE p \in DOMAIN mem
    BY <1>3, <1>7, <2>2 DEF SubmessagesFused
  <2> QED
    BY <1>1, <2>1, <2>2
<1> QED
  BY <1>1, <1>2, <1>3, <1>5, <1>6, <1>7 DEF m, Extended

----------------------------------------------------------------------------
(* copyOnWrite: whichever way it goes, what the builder is about to write   *)
(* to is its own, and nothing refers to it.                                 *)

LEMMA CopyOnWriteEffect ==
  ASSUME IInv, NEW b \in Builders, CopyOnWrite(b)
  PROVE  LET m == CowMem(b)
             i == CowInstance(b)
         IN  /\ HasBuilder(b)
             /\ builder' = [builder EXCEPT ![b] = [arena |-> builder[b].arena, instance |-> i,
                                                   isDirty |-> TRUE]]
             /\ WellTyped(m) /\ SubmessagesFused(m, group)
             /\ \A p \in DOMAIN mem : p \in DOMAIN m /\ m[p] = mem[p]
             /\ i \in Message /\ i.ptr \in DOMAIN m /\ i.arena = builder[b].arena
             /\ group[i.arena] = group[m[i.ptr].arena]
             /\ m[i.ptr].type = TypeOfMessage(builder[b].instance)
             /\ \A h \in handed : h.ptr # i.ptr
             /\ \A p \in DOMAIN m, f \in Subs : m[p].sub[f] # i.ptr
             /\ \A d \in Builders \ {b} : HasBuilder(d) => DirtyPtr(d) # i.ptr
             /\ \A d \in Builders \ {b}, p \in DOMAIN m, f \in Subs :
                  Dirty(d) => m[p].sub[f] # DirtyPtr(d)
<1> DEFINE m == CowMem(b)
           i == CowInstance(b)
           src == builder[b].instance
<1>1. /\ HasBuilder(b)
      /\ builder[b] \in [arena : Arenas, instance : Message, isDirty : BOOLEAN]
      /\ src \in Message /\ src.ptr \in DOMAIN mem
      /\ WellTyped(mem)
  BY DEF CopyOnWrite, HasBuilder, IInv, TypeOK, DirtyPtr
<1>2. builder' = [builder EXCEPT ![b] = [arena |-> builder[b].arena, instance |-> i,
                                         isDirty |-> TRUE]]
  BY DEF CopyOnWrite
<1>3. CASE builder[b].isDirty
  <2>1. m = mem /\ i = src
    BY <1>3 DEF CowMem, CowInstance
  <2>2. Dirty(b)
    BY <1>1, <1>3 DEF Dirty
  <2>3. /\ \A h \in handed : h.ptr # src.ptr
        /\ \A p \in DOMAIN mem, f \in Subs : mem[p].sub[f] # src.ptr
        /\ \A d \in Builders \ {b} : HasBuilder(d) => DirtyPtr(d) # src.ptr
    BY <2>2 DEF IInv, DirtyInstanceIsPrivate, DirtyPtr
  <2>4. \A d \in Builders \ {b}, p \in DOMAIN mem, f \in Subs :
          Dirty(d) => mem[p].sub[f] # DirtyPtr(d)
    BY DEF IInv, DirtyInstanceIsPrivate
  <2>5. src.arena = builder[b].arena
    BY <2>2 DEF IInv, BuildersConsistent
  <2>6. /\ group[src.arena] = group[mem[src.ptr].arena]
        /\ SubmessagesFused(mem, group)
    BY <1>1 DEF IInv, ViewArenasFused, DirtyPtr
  <2> HIDE DEF m, i, src
  <2> QED
    BY <1>1, <1>2, <2>1, <2>3, <2>4, <2>5, <2>6 DEF TypeOfMessage, m, i, src
<1>4. CASE ~builder[b].isDirty
  <2> DEFINE c == NextCall
             a == builder[b].arena
             new == DeepClone(src.ptr, c, a)
  <2>1. /\ c \in Calls /\ Unused(c) /\ a \in Arenas
        /\ m = Allocated(new)
        /\ i = [ptr |-> Root(c), arena |-> a]
    BY <1>1, <1>4, NextCallUnused DEF CopyOnWrite, CowMem, CowInstance
  <2> HIDE DEF c
  <2>2. NewTree(new, c, a, mem[src.ptr].type)
    BY <1>1, <2>1, CloneIsNewTree
  <2> HIDE DEF m, i, src, a, new
  <2>10. Extended(m, new, c)
    BY <1>1, <2>1, <2>2, AllocatedExtends
  <2>3. /\ WellTyped(m)
        /\ DOMAIN m = DOMAIN mem \cup DOMAIN new
        /\ \A p \in DOMAIN mem : m[p] = mem[p]
        /\ \A p \in DOMAIN new : m[p] = new[p] /\ p \notin DOMAIN mem
        /\ \A p \in DOMAIN m, f \in Subs : m[p].sub[f] # Root(c)
        /\ \A g : SubmessagesFused(mem, g) => SubmessagesFused(m, g)
    BY <2>10 DEF Extended
  <2>4. SubmessagesFused(m, group)
    BY <2>3 DEF IInv, ViewArenasFused
  <2>5. /\ Root(c) \in DOMAIN new /\ new[Root(c)].type = mem[src.ptr].type
        /\ new[Root(c)].arena = a
        /\ \A q \in DOMAIN new : q[1] = c
    BY <2>2 DEF NewTree
  <2>6. /\ i \in Message /\ i.ptr = Root(c) /\ i.arena = a
        /\ i.ptr \in DOMAIN m /\ m[i.ptr].arena = a /\ m[i.ptr].type = mem[src.ptr].type
    BY <2>1, <2>3, <2>5, RootFacts DEF Message
  <2>7. \A h \in handed : h.ptr # i.ptr
    BY <2>3, <2>5, <2>6 DEF IInv, TypeOK
  <2>8. \A d \in Builders \ {b} : HasBuilder(d) => DirtyPtr(d) # i.ptr
    BY <2>3, <2>5, <2>6 DEF IInv, TypeOK
  <2>9. ASSUME NEW d \in Builders \ {b}, NEW p \in DOMAIN m, NEW f \in Subs, Dirty(d)
        PROVE  m[p].sub[f] # DirtyPtr(d)
    <3>1. DirtyPtr(d) \in DOMAIN mem
      BY <2>9 DEF IInv, TypeOK, Dirty
    <3>2. CASE p \in DOMAIN mem
      BY <2>3, <2>9, <3>2 DEF IInv, DirtyInstanceIsPrivate
    <3>3. CASE p \in DOMAIN new
      <4>1. m[p].sub[f] = new[p].sub[f] /\ (new[p].sub[f] = Null \/ new[p].sub[f] \in DOMAIN new)
        BY <2>2, <2>3, <3>3 DEF NewTree, WellTyped
      <4>2. Null \notin DOMAIN mem
        BY <1>1, RootFacts DEF WellTyped
      <4> QED
        BY <2>3, <3>1, <4>1, <4>2
    <3> QED
      BY <2>3, <3>2, <3>3
  <2> QED
    BY <1>1, <1>2, <2>3, <2>4, <2>6, <2>7, <2>8, <2>9 DEF TypeOfMessage, a, m, i, src
<1> QED
  BY <1>1, <1>3, <1>4
----------------------------------------------------------------------------
(* A setter: copyOnWrite, then a write to the builder's instance of a       *)
(* message that differs in its scalars, hasbits, or in one submessage that  *)
(* the program has.                                                         *)

LEMMA WriteStep ==
  ASSUME IInv, NEW b \in Builders, CopyOnWrite(b),
         NEW written \in NativeMessage,
         written.arena = CowMem(b)[CowInstance(b).ptr].arena,
         written.type = CowMem(b)[CowInstance(b).ptr].type,
         \A f \in Subs :
           \/ written.sub[f] = CowMem(b)[CowInstance(b).ptr].sub[f]
           \/ \E h \in handed :
                /\ written.sub[f] = h.ptr
                /\ TypeOf[f] = written.type /\ SubType[f] = TypeOfMessage(h)
                /\ group'[builder[b].arena] = group'[h.arena],
         mem' = [CowMem(b) EXCEPT ![CowInstance(b).ptr] = written],
         group' \in [Arenas -> Arenas],
         \A x \in Arenas, y \in Arenas : group[x] = group[y] => group'[x] = group'[y],
         handed' = handed
  PROVE  IInv'
<1> DEFINE m == CowMem(b)
           i == CowInstance(b)
<1>1. /\ HasBuilder(b)
      /\ builder' = [builder EXCEPT ![b] = [arena |-> builder[b].arena, instance |-> i,
                                            isDirty |-> TRUE]]
      /\ WellTyped(m) /\ SubmessagesFused(m, group)
      /\ \A p \in DOMAIN mem : p \in DOMAIN m /\ m[p] = mem[p]
      /\ i \in Message /\ i.ptr \in DOMAIN m /\ i.arena = builder[b].arena
      /\ group[i.arena] = group[m[i.ptr].arena]
      /\ m[i.ptr].type = TypeOfMessage(builder[b].instance)
      /\ \A h \in handed : h.ptr # i.ptr
      /\ \A p \in DOMAIN m, f \in Subs : m[p].sub[f] # i.ptr
      /\ \A d \in Builders \ {b} : HasBuilder(d) => DirtyPtr(d) # i.ptr
      /\ \A d \in Builders \ {b}, p \in DOMAIN m, f \in Subs :
           Dirty(d) => m[p].sub[f] # DirtyPtr(d)
  BY CopyOnWriteEffect
<1>2. /\ written.arena = m[i.ptr].arena /\ written.type = m[i.ptr].type
      /\ mem' = [m EXCEPT ![i.ptr] = written]
      /\ \A f \in Subs :
           \/ written.sub[f] = m[i.ptr].sub[f]
           \/ \E h \in handed :
                /\ written.sub[f] = h.ptr
                /\ TypeOf[f] = written.type /\ SubType[f] = TypeOfMessage(h)
                /\ group'[i.arena] = group'[h.arena]
  BY <1>1
<1> HIDE DEF m, i
<1>3. /\ DOMAIN mem' = DOMAIN m
      /\ mem' \in [DOMAIN m -> NativeMessage]
      /\ mem'[i.ptr] = written
      /\ \A p \in DOMAIN m \ {i.ptr} : mem'[p] = m[p]
      /\ \A p \in DOMAIN m : mem'[p].arena = m[p].arena /\ mem'[p].type = m[p].type
  BY <1>1, <1>2 DEF WellTyped
<1>4. \A h \in handed : /\ h.ptr \in DOMAIN m /\ m[h.ptr] = mem[h.ptr]
                        /\ h.arena \in Arenas
                        /\ group[h.arena] = group[m[h.ptr].arena]
  BY <1>1 DEF IInv, TypeOK, ViewArenasFused, Message
<1>5. \A d \in Builders \ {b} : HasBuilder(d) =>
        /\ builder[d].instance \in Message
        /\ DirtyPtr(d) \in DOMAIN m /\ m[DirtyPtr(d)] = mem[DirtyPtr(d)]
        /\ group[builder[d].instance.arena] = group[m[DirtyPtr(d)].arena]
  BY <1>1 DEF IInv, TypeOK, ViewArenasFused, HasBuilder, DirtyPtr
<1>6. /\ builder \in [Builders -> [arena : Arenas, instance : Message, isDirty : BOOLEAN]
                                    \cup {NoBuilder}]
      /\ handed \subseteq Message
  BY DEF IInv, TypeOK
<1>7. /\ builder'[b] = [arena |-> builder[b].arena, instance |-> i, isDirty |-> TRUE]
      /\ \A d \in Builders \ {b} : builder'[d] = builder[d]
      /\ builder[b].arena \in Arenas
      /\ builder' \in [Builders -> [arena : Arenas, instance : Message, isDirty : BOOLEAN]
                                     \cup {NoBuilder}]
  BY <1>1, <1>6 DEF HasBuilder
<1>8. \A p \in DOMAIN m : m[p] \in NativeMessage /\ m[p].arena \in Arenas
  BY <1>1 DEF WellTyped, NativeMessage
\* The submessages after the write.
<1>9. ASSUME NEW p \in DOMAIN m, NEW f \in Subs, mem'[p].sub[f] # Null
      PROVE  /\ mem'[p].type = TypeOf[f]
             /\ mem'[p].sub[f] \in DOMAIN m
             /\ m[mem'[p].sub[f]].type = SubType[f]
             /\ group'[mem'[p].arena] = group'[m[mem'[p].sub[f]].arena]
             /\ mem'[p].sub[f] # i.ptr
             /\ \A d \in Builders \ {b} : Dirty(d) => mem'[p].sub[f] # DirtyPtr(d)
  <2>1. CASE mem'[p].sub[f] = m[p].sub[f]
    <3>1. /\ m[p].type = TypeOf[f] /\ m[p].sub[f] \in DOMAIN m
          /\ m[m[p].sub[f]].type = SubType[f]
      BY <1>1, <1>9, <2>1 DEF WellTyped
    <3>2. group[m[p].arena] = group[m[m[p].sub[f]].arena]
      BY <1>1, <1>9, <2>1 DEF SubmessagesFused
    <3> QED
      BY <1>1, <1>3, <1>8, <2>1, <3>1, <3>2
  <2>2. CASE p = i.ptr /\ \E h \in handed :
                /\ written.sub[f] = h.ptr
                /\ TypeOf[f] = written.type /\ SubType[f] = TypeOfMessage(h)
                /\ group'[i.arena] = group'[h.arena]
    <3>1. PICK h \in handed :
                /\ written.sub[f] = h.ptr
                /\ TypeOf[f] = written.type /\ SubType[f] = TypeOfMessage(h)
                /\ group'[i.arena] = group'[h.arena]
      BY <2>2
    <3>2. mem'[p].sub[f] = h.ptr /\ mem'[p].type = TypeOf[f]
      BY <1>3, <2>2, <3>1
    <3>3. m[h.ptr].type = SubType[f]
      BY <1>4, <3>1 DEF TypeOfMessage
    <3>4. group'[h.arena] = group'[m[h.ptr].arena]
      BY <1>4, <1>8
    <3>5. group'[i.arena] = group'[mem'[p].arena]
      BY <1>1, <1>3, <1>7, <1>8, <2>2
    <3>6. \A d \in Builders : Dirty(d) => h.ptr # DirtyPtr(d)
      BY DEF IInv, DirtyInstanceIsPrivate
    <3> QED
      BY <1>1, <1>4, <3>1, <3>2, <3>3, <3>4, <3>5, <3>6
  <2> QED
    BY <1>2, <1>3, <2>1, <2>2
<1>10. WellTyped(mem')
  <2>1. \A p \in DOMAIN mem', f \in Subs :
          mem'[p].sub[f] # Null => /\ mem'[p].type = TypeOf[f]
                                   /\ mem'[p].sub[f] \in DOMAIN mem'
                                   /\ mem'[mem'[p].sub[f]].type = SubType[f]
    BY <1>3, <1>9
  <2> QED
    BY <1>1, <1>3, <2>1 DEF WellTyped
<1>11. SubmessagesFused(mem', group')
  BY <1>3, <1>9 DEF SubmessagesFused
<1>12. TypeOK'
  <2>1. \A h \in handed : h.ptr \in DOMAIN mem'
    BY <1>3, <1>4
  <2>2. \A d \in Builders : builder'[d] # NoBuilder => builder'[d].instance.ptr \in DOMAIN mem'
    BY <1>1, <1>3, <1>5, <1>7 DEF HasBuilder, DirtyPtr
  <2> QED
    BY <1>6, <1>7, <1>10, <2>1, <2>2 DEF TypeOK, HasBuilder, DirtyPtr
<1>13. ViewArenasFused'
  <2>1. \A h \in handed : group'[h.arena] = group'[mem'[h.ptr].arena]
    BY <1>3, <1>4, <1>8
  <2>2. ASSUME NEW d \in Builders \ {b}, builder'[d] # NoBuilder
        PROVE  group'[builder'[d].instance.arena] = group'[mem'[builder'[d].instance.ptr].arena]
    <3>1. /\ builder'[d] = builder[d] /\ builder[d].instance \in Message
          /\ builder[d].instance.ptr \in DOMAIN m
          /\ group[builder[d].instance.arena] = group[m[builder[d].instance.ptr].arena]
      BY <1>5, <1>7, <2>2 DEF HasBuilder, DirtyPtr
    <3>2. builder[d].instance.arena \in Arenas
      BY <3>1 DEF Message
    <3> QED
      BY <1>3, <1>8, <3>1, <3>2
  <2>3. group'[builder'[b].instance.arena] = group'[mem'[builder'[b].instance.ptr].arena]
    <3>1. i.arena \in Arenas
      BY <1>1, <1>7
    <3> QED
      BY <1>1, <1>3, <1>7, <1>8, <3>1
  <2> QED
    BY <1>11, <2>1, <2>2, <2>3 DEF ViewArenasFused, HasBuilder, DirtyPtr
<1>14. DirtyInstanceIsPrivate'
  <2> SUFFICES ASSUME NEW d \in Builders, builder'[d] # NoBuilder, builder'[d].isDirty
               PROVE  /\ \A h \in handed : h.ptr # builder'[d].instance.ptr
                      /\ \A p \in DOMAIN mem', f \in Subs :
                           mem'[p].sub[f] # builder'[d].instance.ptr
                      /\ \A e \in Builders \ {d} : builder'[e] # NoBuilder =>
                           builder'[e].instance.ptr # builder'[d].instance.ptr
    BY DEF DirtyInstanceIsPrivate, Dirty, HasBuilder, DirtyPtr
  <2>1. builder'[d].instance.ptr # Null
    BY <1>3, <1>10, <1>12, RootFacts DEF WellTyped, TypeOK, HasBuilder, DirtyPtr
  <2>2. CASE d = b
    <3>1. builder'[d].instance.ptr = i.ptr
      BY <1>7, <2>2
    <3>2. \A p \in DOMAIN mem', f \in Subs : mem'[p].sub[f] # i.ptr
      BY <1>3, <1>9, <2>1, <3>1
    <3>3. \A e \in Builders \ {b} : builder'[e] # NoBuilder => builder'[e].instance.ptr # i.ptr
      BY <1>1, <1>7 DEF HasBuilder, DirtyPtr
    <3> QED
      BY <1>1, <2>2, <3>1, <3>2, <3>3
  <2>3. CASE d # b
    <3>1. builder'[d] = builder[d] /\ Dirty(d) /\ builder'[d].instance.ptr = DirtyPtr(d)
      BY <1>7, <2>3 DEF Dirty, HasBuilder, DirtyPtr
    <3>2. \A h \in handed : h.ptr # DirtyPtr(d)
      BY <3>1 DEF IInv, DirtyInstanceIsPrivate
    <3>3. \A p \in DOMAIN mem', f \in Subs : mem'[p].sub[f] # DirtyPtr(d)
      BY <1>3, <1>9, <2>1, <2>3, <3>1
    <3>4. \A e \in Builders \ {b, d} : builder'[e] # NoBuilder =>
            builder'[e].instance.ptr # DirtyPtr(d)
      BY <1>7, <3>1 DEF IInv, DirtyInstanceIsPrivate, HasBuilder, DirtyPtr
    <3>5. builder'[b].instance.ptr # DirtyPtr(d)
      BY <1>1, <1>7, <2>3, <3>1 DEF Dirty
    <3> QED
      BY <3>1, <3>2, <3>3, <3>4, <3>5
  <2> QED
    BY <2>2, <2>3
<1>15. BuildersConsistent'
  <2>1. \A T \in Types : DefaultInstance(T) \in handed
    BY DEF IInv, BuildersConsistent
  <2>2. \A d \in Builders : builder'[d] # NoBuilder /\ builder'[d].isDirty =>
          builder'[d].instance.arena = builder'[d].arena
    BY <1>1, <1>7 DEF IInv, BuildersConsistent, Dirty, HasBuilder
  <2> QED
    BY <2>1, <2>2 DEF BuildersConsistent, Dirty, HasBuilder, DefaultInstance
<1> QED
  BY <1>12, <1>13, <1>14, <1>15 DEF IInv

LEMMA SetScalarStep ==
  ASSUME IInv, NEW b \in Builders, NEW f \in Scalars, NEW v \in Values, SetScalar(b, f, v)
  PROVE  IInv'
<1> DEFINE m == CowMem(b)
           i == CowInstance(b)
           written == WithScalar(m[i.ptr], f, v)
<1>1. CopyOnWrite(b) /\ UNCHANGED <<group, handed>> /\ mem' = [m EXCEPT ![i.ptr] = written]
  BY DEF SetScalar
<1>2. m[i.ptr] \in NativeMessage
  BY <1>1, CopyOnWriteEffect DEF WellTyped
<1> HIDE DEF m, i
<1>3. /\ written \in NativeMessage
      /\ written.arena = m[i.ptr].arena /\ written.type = m[i.ptr].type
      /\ written.sub = m[i.ptr].sub
  BY <1>2 DEF NativeMessage, Fields, WithScalar
<1>4. group' \in [Arenas -> Arenas]
  BY <1>1 DEF IInv, TypeOK
<1> HIDE DEF written
<1> QED
  BY <1>1, <1>3, <1>4, WriteStep DEF m, i

LEMMA SetMessageStep ==
  ASSUME IInv, NEW b \in Builders, NEW f \in Subs, NEW h \in handed, SetMessage(b, f, h)
  PROVE  IInv'
<1> DEFINE m == CowMem(b)
           i == CowInstance(b)
           written == WithSub(m[i.ptr], f, h.ptr)
<1>1. /\ CopyOnWrite(b) /\ handed' = handed
      /\ mem' = [m EXCEPT ![i.ptr] = written]
      /\ group' = Fused(builder[b].arena, h.arena)
      /\ TypeOf[f] = TypeOfMessage(builder[b].instance) /\ SubType[f] = TypeOfMessage(h)
  BY DEF SetMessage
<1>2. /\ m[i.ptr] \in NativeMessage
      /\ m[i.ptr].type = TypeOf[f]
      /\ HasBuilder(b)
  BY <1>1, CopyOnWriteEffect DEF WellTyped
<1>3. h.ptr \in Ptr /\ h.arena \in Arenas /\ builder[b].arena \in Arenas
  BY <1>2 DEF IInv, TypeOK, WellTyped, Message, HasBuilder
<1> HIDE DEF m, i
<1>4. /\ written \in NativeMessage
      /\ written.arena = m[i.ptr].arena /\ written.type = m[i.ptr].type
      /\ written.sub[f] = h.ptr
      /\ \A g \in Subs \ {f} : written.sub[g] = m[i.ptr].sub[g]
  BY <1>2, <1>3 DEF NativeMessage, Fields, WithSub
<1>5. /\ group' \in [Arenas -> Arenas]
      /\ \A x \in Arenas, y \in Arenas : group[x] = group[y] => group'[x] = group'[y]
      /\ group'[builder[b].arena] = group'[h.arena]
  BY <1>1, <1>3 DEF Fused, IInv, TypeOK
<1> HIDE DEF written
<1>6. \A g \in Subs :
        \/ written.sub[g] = m[i.ptr].sub[g]
        \/ \E k \in handed :
             /\ written.sub[g] = k.ptr
             /\ TypeOf[g] = written.type /\ SubType[g] = TypeOfMessage(k)
             /\ group'[builder[b].arena] = group'[k.arena]
  BY <1>1, <1>2, <1>4, <1>5
<1> QED
  BY <1>1, <1>4, <1>5, <1>6, WriteStep DEF m, i

----------------------------------------------------------------------------
(* The operations that do not write to memory that is there.               *)

\* The program gets a message that no builder can write to.
LEMMA GetsStep ==
  ASSUME IInv, NEW x \in Message, x.ptr \in DOMAIN mem,
         group[x.arena] = group[mem[x.ptr].arena],
         \A b \in Builders : Dirty(b) => x.ptr # DirtyPtr(b),
         handed' = handed \cup {x}, UNCHANGED <<mem, group, builder>>
  PROVE  IInv'
<1>1. TypeOK'
  BY DEF IInv, TypeOK, HasBuilder, DirtyPtr
<1>2. ViewArenasFused'
  BY DEF IInv, ViewArenasFused, HasBuilder, DirtyPtr
<1>3. DirtyInstanceIsPrivate'
  BY DEF IInv, DirtyInstanceIsPrivate, Dirty, HasBuilder, DirtyPtr
<1>4. BuildersConsistent'
  BY DEF IInv, BuildersConsistent, Dirty, HasBuilder, DefaultInstance
<1> QED
  BY <1>1, <1>2, <1>3, <1>4 DEF IInv

\* What a getter returns, for a message or the instance of a builder.
LEMMA SubmessageIsView ==
  ASSUME IInv, NEW x \in Message, x.ptr \in DOMAIN mem,
         group[x.arena] = group[mem[x.ptr].arena], NEW f \in Subs
  PROVE  /\ Submessage(x, f) \in Message /\ Submessage(x, f).ptr \in DOMAIN mem
         /\ group[Submessage(x, f).arena] = group[mem[Submessage(x, f).ptr].arena]
         /\ \A b \in Builders : Dirty(b) => Submessage(x, f).ptr # DirtyPtr(b)
<1>1. CASE mem[x.ptr].sub[f] = Null
  <2>1. Submessage(x, f) = DefaultInstance(SubType[f]) /\ SubType[f] \in Types
    BY <1>1, TypesAssumption DEF Submessage
  <2>2. Submessage(x, f) \in handed
    BY <2>1 DEF IInv, BuildersConsistent
  <2> QED
    BY <2>2 DEF IInv, TypeOK, ViewArenasFused, DirtyInstanceIsPrivate
<1>2. CASE mem[x.ptr].sub[f] # Null
  <2>1. Submessage(x, f) = [ptr |-> mem[x.ptr].sub[f], arena |-> x.arena]
    BY <1>2 DEF Submessage
  <2>2. mem[x.ptr].sub[f] \in DOMAIN mem /\ mem[x.ptr].sub[f] \in Ptr
    BY <1>2 DEF IInv, TypeOK, WellTyped
  <2>3. group[mem[x.ptr].arena] = group[mem[mem[x.ptr].sub[f]].arena]
    BY <1>2 DEF IInv, ViewArenasFused, SubmessagesFused
  <2>4. \A b \in Builders : Dirty(b) => mem[x.ptr].sub[f] # DirtyPtr(b)
    BY DEF IInv, DirtyInstanceIsPrivate
  <2> QED
    BY <2>1, <2>2, <2>3, <2>4 DEF Message
<1> QED
  BY <1>1, <1>2

LEMMA GetMessageStep ==
  ASSUME IInv, NEW x \in handed, NEW f \in Subs, GetMessage(x, f)
  PROVE  IInv'
<1>1. x \in Message /\ x.ptr \in DOMAIN mem /\ group[x.arena] = group[mem[x.ptr].arena]
  BY DEF IInv, TypeOK, ViewArenasFused
<1> QED
  BY <1>1, SubmessageIsView, GetsStep DEF GetMessage

LEMMA BuilderGetMessageStep ==
  ASSUME IInv, NEW b \in Builders, NEW f \in Subs, BuilderGetMessage(b, f)
  PROVE  IInv'
<1> DEFINE x == builder[b].instance
<1>1. x \in Message /\ x.ptr \in DOMAIN mem /\ group[x.arena] = group[mem[x.ptr].arena]
  BY DEF BuilderGetMessage, IInv, TypeOK, ViewArenasFused, HasBuilder, DirtyPtr
<1> HIDE DEF x
<1>2. /\ Submessage(x, f) \in Message /\ Submessage(x, f).ptr \in DOMAIN mem
      /\ group[Submessage(x, f).arena] = group[mem[Submessage(x, f).ptr].arena]
      /\ \A d \in Builders : Dirty(d) => Submessage(x, f).ptr # DirtyPtr(d)
  BY <1>1, SubmessageIsView
<1>3. handed' = handed \cup {Submessage(x, f)} /\ UNCHANGED <<mem, group, builder>>
  BY DEF BuilderGetMessage, x
<1> QED
  BY <1>2, <1>3, GetsStep

\* newBuilder, toBuilder: a clean builder of a message the program has.
LEMMA CleanBuilderStep ==
  ASSUME IInv, NEW b \in Builders, NEW a \in Arenas, NEW x \in handed,
         builder' = [builder EXCEPT ![b] = [arena |-> a, instance |-> x, isDirty |-> FALSE]],
         UNCHANGED <<mem, group, handed>>
  PROVE  IInv'
<1>1. /\ builder'[b] = [arena |-> a, instance |-> x, isDirty |-> FALSE]
      /\ \A d \in Builders \ {b} : builder'[d] = builder[d]
      /\ builder'[b] # NoBuilder => builder'[b].instance = x /\ ~builder'[b].isDirty
      /\ x \in Message /\ x.ptr \in DOMAIN mem
      /\ group[x.arena] = group[mem[x.ptr].arena]
  BY DEF IInv, TypeOK, ViewArenasFused
<1>2. TypeOK'
  <2>1. builder' \in [Builders -> [arena : Arenas, instance : Message, isDirty : BOOLEAN]
                                    \cup {NoBuilder}]
    BY <1>1 DEF IInv, TypeOK
  <2>2. \A d \in Builders : builder'[d] # NoBuilder => builder'[d].instance.ptr \in DOMAIN mem
    BY <1>1 DEF IInv, TypeOK, HasBuilder, DirtyPtr
  <2> QED
    BY <2>1, <2>2 DEF IInv, TypeOK, HasBuilder, DirtyPtr
<1>3. ViewArenasFused'
  BY <1>1 DEF IInv, ViewArenasFused, HasBuilder, DirtyPtr
<1>4. DirtyInstanceIsPrivate'
  <2> SUFFICES ASSUME NEW d \in Builders, builder'[d] # NoBuilder, builder'[d].isDirty
               PROVE  /\ \A h \in handed : h.ptr # builder'[d].instance.ptr
                      /\ \A p \in DOMAIN mem, f \in Subs :
                           mem[p].sub[f] # builder'[d].instance.ptr
                      /\ \A e \in Builders \ {d} : builder'[e] # NoBuilder =>
                           builder'[e].instance.ptr # builder'[d].instance.ptr
    BY DEF DirtyInstanceIsPrivate, Dirty, HasBuilder, DirtyPtr
  <2>1. d # b /\ builder'[d] = builder[d] /\ Dirty(d)
    BY <1>1 DEF Dirty, HasBuilder
  <2> QED
    BY <1>1, <2>1 DEF IInv, DirtyInstanceIsPrivate, HasBuilder, DirtyPtr
<1>5. BuildersConsistent'
  BY <1>1 DEF IInv, BuildersConsistent, Dirty, HasBuilder, DefaultInstance
<1> QED
  BY <1>2, <1>3, <1>4, <1>5 DEF IInv

LEMMA NewBuilderStep ==
  ASSUME IInv, NEW b \in Builders, NEW T \in Types, NEW a \in Arenas, NewBuilder(b, T, a)
  PROVE  IInv'
<1>1. DefaultInstance(T) \in handed
  BY DEF IInv, BuildersConsistent
<1> QED
  BY <1>1, CleanBuilderStep DEF NewBuilder

LEMMA ToBuilderStep ==
  ASSUME IInv, NEW b \in Builders, NEW x \in handed, NEW a \in Arenas, ToBuilder(b, x, a)
  PROVE  IInv'
BY CleanBuilderStep DEF ToBuilder

\* build: the instance is the program's and the builder is clean again, in one step.
LEMMA BuildStep ==
  ASSUME IInv, NEW b \in Builders, Build(b)
  PROVE  IInv'
<1> DEFINE x == builder[b].instance
<1>1. /\ HasBuilder(b)
      /\ builder[b] \in [arena : Arenas, instance : Message, isDirty : BOOLEAN]
      /\ builder' = [builder EXCEPT ![b].isDirty = FALSE]
      /\ handed' = handed \cup {x} /\ UNCHANGED <<mem, group>>
      /\ x \in Message /\ x.ptr \in DOMAIN mem
      /\ group[x.arena] = group[mem[x.ptr].arena]
  BY DEF Build, IInv, TypeOK, ViewArenasFused, HasBuilder, DirtyPtr
<1>2. /\ builder'[b] \in [arena : Arenas, instance : Message, isDirty : BOOLEAN]
      /\ builder'[b].instance = x /\ builder'[b].isDirty = FALSE
      /\ \A d \in Builders \ {b} : builder'[d] = builder[d]
      /\ builder' \in [Builders -> [arena : Arenas, instance : Message, isDirty : BOOLEAN]
                                     \cup {NoBuilder}]
  BY <1>1 DEF IInv, TypeOK
<1>3. TypeOK'
  <2>1. \A d \in Builders : builder'[d] # NoBuilder => builder'[d].instance.ptr \in DOMAIN mem
    BY <1>1, <1>2 DEF IInv, TypeOK, HasBuilder, DirtyPtr
  <2> QED
    BY <1>1, <1>2, <2>1 DEF IInv, TypeOK, HasBuilder, DirtyPtr
<1>4. ViewArenasFused'
  BY <1>1, <1>2 DEF IInv, ViewArenasFused, HasBuilder, DirtyPtr
<1>5. DirtyInstanceIsPrivate'
  <2> SUFFICES ASSUME NEW d \in Builders, builder'[d] # NoBuilder, builder'[d].isDirty
               PROVE  /\ \A h \in handed' : h.ptr # builder'[d].instance.ptr
                      /\ \A p \in DOMAIN mem', f \in Subs :
                           mem'[p].sub[f] # builder'[d].instance.ptr
                      /\ \A e \in Builders \ {d} : builder'[e] # NoBuilder =>
                           builder'[e].instance.ptr # builder'[d].instance.ptr
    BY DEF DirtyInstanceIsPrivate, Dirty, HasBuilder, DirtyPtr
  <2>1. d # b /\ builder'[d] = builder[d] /\ Dirty(d) /\ builder'[d].instance.ptr = DirtyPtr(d)
    BY <1>2 DEF Dirty, HasBuilder, DirtyPtr
  <2>2. x.ptr # DirtyPtr(d)
    BY <1>1, <2>1 DEF IInv, DirtyInstanceIsPrivate, DirtyPtr
  <2>3. \A e \in Builders \ {d} : builder'[e] # NoBuilder =>
          builder'[e].instance.ptr # DirtyPtr(d)
    BY <1>2, <2>1, <2>2 DEF IInv, DirtyInstanceIsPrivate, HasBuilder, DirtyPtr
  <2> QED
    BY <1>1, <2>1, <2>2, <2>3 DEF IInv, DirtyInstanceIsPrivate
<1>6. BuildersConsistent'
  BY <1>1, <1>2 DEF IInv, BuildersConsistent, Dirty, HasBuilder, DefaultInstance
<1> QED
  BY <1>3, <1>4, <1>5, <1>6 DEF IInv
\* parseFrom: the new message is a new tree in the arena it was parsed into.
LEMMA ParseFromStep ==
  ASSUME IInv, NEW x \in handed, NEW a \in Arenas, NEW decoded \in SUBSET Fields,
         ParseFrom(x, a, decoded)
  PROVE  IInv'
<1> DEFINE c == NextCall
           new == Decoded(x.ptr, c, a, decoded)
           got == [ptr |-> Root(c), arena |-> a]
<1>1. /\ c \in Calls /\ Unused(c)
      /\ mem' = Allocated(new) /\ handed' = handed \cup {got}
      /\ UNCHANGED <<group, builder>>
  BY NextCallUnused DEF ParseFrom
<1>2. WellTyped(mem) /\ x.ptr \in DOMAIN mem
  BY DEF IInv, TypeOK
<1> HIDE DEF c
<1>3. NewTree(new, c, a, mem[x.ptr].type)
  BY <1>1, <1>2, DecodedIsNewTree
<1> HIDE DEF new
<1>4. Extended(mem', new, c)
  BY <1>1, <1>2, <1>3, AllocatedExtends
<1>5. /\ WellTyped(mem') /\ SubmessagesFused(mem', group)
      /\ DOMAIN mem' = DOMAIN mem \cup DOMAIN new
      /\ \A p \in DOMAIN mem : mem'[p] = mem[p]
      /\ \A p \in DOMAIN new : mem'[p] = new[p] /\ p \notin DOMAIN mem
  BY <1>4 DEF Extended, IInv, ViewArenasFused
<1>6. /\ got \in Message /\ got.ptr \in DOMAIN new
      /\ group[got.arena] = group[mem'[got.ptr].arena]
  BY <1>1, <1>3, <1>5, RootFacts DEF NewTree, Message
<1> HIDE DEF got
<1>7. TypeOK'
  BY <1>1, <1>5, <1>6 DEF IInv, TypeOK, HasBuilder, DirtyPtr
<1>8. ViewArenasFused'
  <2>1. \A h \in handed' : group[h.arena] = group[mem'[h.ptr].arena]
    BY <1>1, <1>5, <1>6 DEF IInv, TypeOK, ViewArenasFused
  <2>2. \A b \in Builders : HasBuilder(b) =>
          group[builder[b].instance.arena] = group[mem'[builder[b].instance.ptr].arena]
    BY <1>5 DEF IInv, TypeOK, ViewArenasFused, HasBuilder, DirtyPtr
  <2> QED
    BY <1>1, <1>5, <2>1, <2>2 DEF ViewArenasFused, HasBuilder, DirtyPtr
<1>9. DirtyInstanceIsPrivate'
  <2> SUFFICES ASSUME NEW b \in Builders, Dirty(b)
               PROVE  /\ \A h \in handed' : h.ptr # DirtyPtr(b)
                      /\ \A p \in DOMAIN mem', f \in Subs : mem'[p].sub[f] # DirtyPtr(b)
                      /\ \A d \in Builders \ {b} : HasBuilder(d) => DirtyPtr(d) # DirtyPtr(b)
    BY <1>1 DEF DirtyInstanceIsPrivate, Dirty, HasBuilder, DirtyPtr
  <2>1. DirtyPtr(b) \in DOMAIN mem
    BY DEF IInv, TypeOK, Dirty
  <2>2. got.ptr # DirtyPtr(b)
    BY <1>5, <1>6, <2>1
  <2>3. ASSUME NEW p \in DOMAIN new, NEW f \in Subs
        PROVE  mem'[p].sub[f] # DirtyPtr(b)
    <3>1. mem'[p].sub[f] = Null \/ mem'[p].sub[f] \in DOMAIN new
      BY <1>3, <1>5 DEF NewTree, WellTyped
    <3>2. Null \notin DOMAIN mem
      BY <1>2, RootFacts DEF WellTyped
    <3> QED
      BY <1>5, <2>1, <3>1, <3>2
  <2> QED
    BY <1>1, <1>5, <2>2, <2>3 DEF IInv, DirtyInstanceIsPrivate
<1>10. BuildersConsistent'
  BY <1>1 DEF IInv, BuildersConsistent, Dirty, HasBuilder, DefaultInstance
<1> QED
  BY <1>7, <1>8, <1>9, <1>10 DEF IInv

----------------------------------------------------------------------------
(* The invariants, for every state Spec reaches.                           *)

LEMMA InitIInv ==
  ASSUME Init
  PROVE  IInv
<1>1. /\ DOMAIN mem = {Root(T) : T \in Types}
      /\ \A p \in DOMAIN mem : mem[p] = EmptyMessage(p[1], DefaultArena)
      /\ mem = [p \in DOMAIN mem |-> mem[p]]
  BY DEF Init
<1>2. ASSUME NEW T \in Types
      PROVE  /\ EmptyMessage(T, DefaultArena) \in NativeMessage
             /\ DefaultInstance(T) \in Message
             /\ DefaultInstance(T).ptr \in DOMAIN mem
             /\ mem[DefaultInstance(T).ptr].arena = DefaultArena
             /\ DefaultInstance(T).arena = DefaultArena
  <2>1. EmptyMessage(T, DefaultArena) \in NativeMessage
    BY DefaultsAssumption DEF EmptyMessage, NativeMessage
  <2>2. /\ DefaultInstance(T).ptr = Root(T) /\ DefaultInstance(T).arena = DefaultArena
        /\ DefaultInstance(T) \in Message
    BY RootFacts, DefaultsAssumption DEF DefaultInstance, Message
  <2>3. Root(T) \in DOMAIN mem /\ mem[Root(T)] = EmptyMessage(T, DefaultArena)
    BY <1>1, RootFacts
  <2>4. mem[Root(T)].arena = DefaultArena
    BY <2>3 DEF EmptyMessage
  <2> QED
    BY <2>1, <2>2, <2>3, <2>4
<1>3. ASSUME NEW p \in DOMAIN mem
      PROVE  p \in Ptr /\ mem[p] \in NativeMessage /\ \A f \in Subs : mem[p].sub[f] = Null
  <2>1. PICK T \in Types : p = Root(T)
    BY <1>1
  <2>2. mem[p] = EmptyMessage(T, DefaultArena) /\ p \in Ptr
    BY <1>1, <2>1, RootFacts
  <2>3. \A f \in Subs : EmptyMessage(T, DefaultArena).sub[f] = Null
    BY DEF EmptyMessage
  <2> QED
    BY <1>2, <2>2, <2>3
<1>4. WellTyped(mem)
  BY <1>1, <1>3 DEF WellTyped
<1>5. \A b \in Builders : ~HasBuilder(b)
  BY DEF Init, HasBuilder
<1>6. TypeOK
  BY <1>2, <1>4, <1>5 DEF Init, TypeOK
<1>7. ViewArenasFused
  BY <1>2, <1>3, <1>5 DEF Init, ViewArenasFused, SubmessagesFused
<1>8. DirtyInstanceIsPrivate /\ BuildersConsistent
  BY <1>5 DEF Init, DirtyInstanceIsPrivate, BuildersConsistent, Dirty
<1> QED
  BY <1>6, <1>7, <1>8 DEF IInv

LEMMA StutterIInv ==
  ASSUME IInv, UNCHANGED vars
  PROVE  IInv'
BY DEF IInv, vars, TypeOK, ViewArenasFused, DirtyInstanceIsPrivate, BuildersConsistent,
       Dirty, HasBuilder, DirtyPtr, DefaultInstance

\* IInv holds in every state a program using messages and builders reaches.
THEOREM InductiveInvariant == Spec => []IInv
<1>1. Init => IInv
  BY InitIInv
<1>2. IInv /\ [Next]_vars => IInv'
  <2> SUFFICES ASSUME IInv, [Next]_vars
               PROVE  IInv'
    OBVIOUS
  <2>1. CASE Next
    BY <2>1, GetMessageStep, ParseFromStep, NewBuilderStep, ToBuilderStep, SetScalarStep,
       SetMessageStep, BuilderGetMessageStep, BuildStep
    DEF Next
  <2>2. CASE UNCHANGED vars
    BY <2>2, StutterIInv
  <2> QED
    BY <2>1, <2>2
<1> QED
  BY <1>1, <1>2, PTL DEF Spec

\* Variables keep their types; every pointer a message holds is null or the address
\* of a native message of its field's type.
THEOREM TypeCorrect == Spec => []TypeOK
<1>1. IInv => TypeOK
  BY DEF IInv
<1> QED
  BY <1>1, InductiveInvariant, PTL

\* The arena a message view carries is fused with the arena its memory is in, and
\* with those of all its submessages.
THEOREM ViewsFused == Spec => []ViewArenasFused
<1>1. IInv => ViewArenasFused
  BY DEF IInv
<1> QED
  BY <1>1, InductiveInvariant, PTL

\* Nothing refers to the native message a builder writes to.
THEOREM WritesArePrivate == Spec => []DirtyInstanceIsPrivate
<1>1. IInv => DirtyInstanceIsPrivate
  BY DEF IInv
<1> QED
  BY <1>1, InductiveInvariant, PTL

\* A native message only changes when a dirty builder writes to its own instance.
LEMMA OnlyDirtyInstancesChange ==
  ASSUME IInv, Next, NEW p \in DOMAIN mem, mem'[p] # mem[p]
  PROVE  \E b \in Builders : Dirty(b) /\ p = DirtyPtr(b)
<1>1. ASSUME NEW b \in Builders, CopyOnWrite(b), NEW written,
             mem' = [CowMem(b) EXCEPT ![CowInstance(b).ptr] = written]
      PROVE  Dirty(b) /\ p = DirtyPtr(b)
  <2>1. p \in DOMAIN CowMem(b) /\ CowMem(b)[p] = mem[p]
    BY <1>1, CopyOnWriteEffect
  <2>2. p = CowInstance(b).ptr
    BY <1>1, <2>1
  <2>3. builder[b].isDirty
    <3> SUFFICES ASSUME ~builder[b].isDirty
                 PROVE  FALSE
      OBVIOUS
    <3>1. p = Root(NextCall) /\ NextCall \in Calls /\ Unused(NextCall)
      BY <1>1, <2>2, NextCallUnused DEF CopyOnWrite, CowInstance
    <3> QED
      BY <3>1, RootFacts DEF Unused
  <2> QED
    BY <1>1, <2>2, <2>3 DEF CopyOnWrite, CowInstance, Dirty, HasBuilder, DirtyPtr
<1>2. ASSUME NEW b \in Builders, NEW f \in Scalars, NEW v \in Values, SetScalar(b, f, v)
      PROVE  Dirty(b) /\ p = DirtyPtr(b)
  BY <1>1, <1>2 DEF SetScalar
<1>3. ASSUME NEW b \in Builders, NEW f \in Subs, NEW h \in handed, SetMessage(b, f, h)
      PROVE  Dirty(b) /\ p = DirtyPtr(b)
  BY <1>1, <1>3 DEF SetMessage
<1>4. ASSUME NEW x \in handed, NEW a \in Arenas, NEW decoded \in SUBSET Fields,
             ParseFrom(x, a, decoded)
      PROVE  FALSE
  <2> DEFINE c == NextCall
             new == Decoded(x.ptr, c, a, decoded)
  <2>1. c \in Calls /\ Unused(c) /\ mem' = Allocated(new)
    BY <1>4, NextCallUnused DEF ParseFrom
  <2>2. WellTyped(mem) /\ x.ptr \in DOMAIN mem
    BY DEF IInv, TypeOK
  <2> HIDE DEF c
  <2>3. NewTree(new, c, a, mem[x.ptr].type)
    BY <2>1, <2>2, DecodedIsNewTree
  <2> HIDE DEF new
  <2>4. Extended(mem', new, c)
    BY <2>1, <2>2, <2>3, AllocatedExtends
  <2> QED
    BY <2>4 DEF Extended
<1>5. CASE UNCHANGED mem
  BY <1>5
<1> QED
  BY <1>2, <1>3, <1>4, <1>5
  DEF Next, GetMessage, NewBuilder, ToBuilder, BuilderGetMessage, Build

\* A message the program has is never seen to change.
THEOREM MessagesAreFrozen == Spec => MessagesFrozen
<1> DEFINE Frozen == \A p \in DOMAIN mem : mem'[p] # mem[p] => p \notin Readable
<1>1. IInv /\ [Next]_vars => [Frozen]_vars
  <2> SUFFICES ASSUME IInv, Next, NEW p \in DOMAIN mem, mem'[p] # mem[p]
               PROVE  p \notin Readable
    BY DEF Frozen
  <2> DEFINE others == DOMAIN mem \ {p}
  <2>1. PICK b \in Builders : Dirty(b) /\ p = DirtyPtr(b)
    BY OnlyDirtyInstancesChange
  <2>2. \A h \in handed : h.ptr \in others
    BY <2>1 DEF IInv, TypeOK, DirtyInstanceIsPrivate
  <2>3. Closed(others)
    <3> SUFFICES ASSUME NEW q \in others, NEW f \in Subs
                 PROVE  mem[q].sub[f] \in others \cup {Null}
      BY DEF Closed
    <3> QED
      BY <2>1 DEF IInv, TypeOK, WellTyped, DirtyInstanceIsPrivate
  <2> QED
    BY <2>2, <2>3 DEF Readable
<1> QED
  BY <1>1, InductiveInvariant, PTL DEF Spec, MessagesFrozen, Frozen
----------------------------------------------------------------------------
(* Values.                                                                 *)

\* A set of sequences that is not empty has one without a prefix in it.
LEMMA ShortestSequence ==
  ASSUME NEW S, NEW Bad \in SUBSET Seq(S), Bad # {}
  PROVE  \E s \in Bad : s = <<>> \/ \E r \in Seq(S), e \in S : s = Append(r, e) /\ r \notin Bad
<1> DEFINE lengths == {Len(s) : s \in Bad}
<1>1. \A s \in Bad : s \in Seq(S) /\ Len(s) \in Nat /\ Len(s) \in lengths
  BY LenProperties
<1>2. lengths \in SUBSET Nat /\ lengths # {} /\ \A n \in lengths : \E s \in Bad : Len(s) = n
  BY <1>1
<1> HIDE DEF lengths
<1>3. PICK s \in Bad : \A t \in Bad : Len(s) <= Len(t)
  <2>1. PICK n \in lengths : \A k \in lengths : n <= k
    BY <1>2, LeastElement
  <2> QED
    BY <1>1, <1>2, <2>1
<1>4. ASSUME s # <<>>
      PROVE  \E r \in Seq(S), e \in S : s = Append(r, e) /\ r \notin Bad
  <2>1. PICK r \in Seq(S), e \in S : s = Append(r, e)
    BY <1>1, <1>4, SequenceEmptyOrAppend
  <2>2. Len(s) = Len(r) + 1 /\ Len(r) \in Nat
    BY <2>1, AppendProperties, LenProperties
  <2> QED
    BY <1>3, <2>1, <2>2
<1> QED
  BY <1>3, <1>4

LEMMA FirstStep ==
  ASSUME NEW s \in Seq(Subs), NEW f \in Subs, NEW g \in Subs
  PROVE  /\ <<f>> \o s \in Seq(Subs) /\ <<f>> \o s # <<>>
         /\ Head(<<f>> \o s) = f /\ Tail(<<f>> \o s) = s
         /\ <<f>> \o <<>> = Append(<<>>, f)
         /\ <<f>> \o Append(s, g) = Append(<<f>> \o s, g)
<1> DEFINE first == <<f>>
<1>1. first \in Seq(Subs) /\ Len(first) = 1 /\ first[1] = f /\ <<>> \in Seq(Subs) /\ first # <<>>
  OBVIOUS
<1>2. Append(<<>>, f) = first /\ Append(s, g) = s \o <<g>> /\ <<g>> \in Seq(Subs)
  BY AppendIsConcat
<1> HIDE DEF first
<1>3. first \o <<>> = first
  BY <1>1, ConcatEmptySeq
<1>4. first \o s \in Seq(Subs) /\ first \o s # <<>>
  BY <1>1, ConcatProperties, ConcatEqualIffEmpty
<1>5. Append(first \o s, g) = (first \o s) \o <<g>>
  BY <1>4, AppendIsConcat
<1>6. first \o Append(s, g) = Append(first \o s, g)
  BY <1>1, <1>2, <1>5, ConcatAssociative
<1>7. Head(first \o s) = f /\ Tail(first \o s) = s
  <2>1. Head(first \o s) = (first \o s)[1] /\ (first \o s)[1] = f /\ Len(s) \in Nat
        /\ Len(first \o s) = Len(s) + 1
        /\ \A i \in 1..Len(s) : (first \o s)[i + 1] = s[i]
    <3>1. Len(s) \in Nat /\ Len(first \o s) = 1 + Len(s)
          /\ \A i \in 1..1 + Len(s) : (first \o s)[i] = IF i <= 1 THEN first[i] ELSE s[i - 1]
      BY <1>1, ConcatProperties, LenProperties
    <3>2. (first \o s)[1] = f
      BY <1>1, <3>1
    <3>3. Head(first \o s) = (first \o s)[1]
      BY <1>4
    <3>4. \A i \in 1..Len(s) : i + 1 \in 1..1 + Len(s) /\ ~(i + 1 <= 1) /\ (i + 1) - 1 = i
      BY <3>1
    <3> QED
      BY <3>1, <3>2, <3>3, <3>4
  <2>2. Tail(first \o s) \in Seq(Subs) /\ Len(Tail(first \o s)) = Len(s)
        /\ \A i \in 1..Len(s) : Tail(first \o s)[i] = s[i]
    BY <1>4, <2>1, HeadTailProperties
  <2> QED
    BY <2>1, <2>2, SeqEqual
<1> QED
  BY <1>2, <1>3, <1>4, <1>6, <1>7 DEF first

LEMMA FirstAndRest ==
  ASSUME NEW s \in Seq(Subs), s # <<>>
  PROVE  Head(s) \in Subs /\ Tail(s) \in Seq(Subs) /\ s = <<Head(s)>> \o Tail(s)
<1> DEFINE h == <<Head(s)>>
           t == Tail(s)
<1>1. /\ Head(s) \in Subs /\ t \in Seq(Subs)
      /\ Len(t) = Len(s) - 1 /\ \A i \in 1..Len(t) : t[i] = s[i + 1]
  BY HeadTailProperties
<1>2. Len(s) \in Nat /\ Len(s) # 0 /\ Head(s) = s[1]
  BY EmptySeq, LenProperties
<1>3. h \in Seq(Subs) /\ Len(h) = 1 /\ h[1] = s[1]
  BY <1>1, <1>2
<1> HIDE DEF h, t
<1>4. /\ h \o t \in Seq(Subs) /\ Len(h \o t) = Len(h) + Len(t)
      /\ \A i \in 1..Len(h) + Len(t) : (h \o t)[i] = IF i <= Len(h) THEN h[i] ELSE t[i - Len(h)]
  <2>1. h \o t \in Seq(Subs)
    BY <1>1, <1>3, ConcatProperties
  <2>2. Len(h \o t) = Len(h) + Len(t)
    BY <1>1, <1>3, ConcatProperties
  <2>3. ASSUME NEW i \in 1..Len(h) + Len(t)
        PROVE  (h \o t)[i] = IF i <= Len(h) THEN h[i] ELSE t[i - Len(h)]
    BY <1>1, <1>3, ConcatProperties
  <2> QED
    BY <2>1, <2>2, <2>3
<1>5. Len(h \o t) = Len(s) /\ \A i \in 1..Len(s) : s[i] = (h \o t)[i]
  <2>1. Len(h) + Len(t) = Len(s)
    BY <1>1, <1>2, <1>3
  <2>2. \A i \in 1..Len(s) : i = 1 \/ (~(i <= 1) /\ i - 1 \in 1..Len(t) /\ (i - 1) + 1 = i)
    BY <1>1, <1>2
  <2> QED
    BY <1>1, <1>3, <1>4, <2>1, <2>2
<1>6. s = h \o t
  BY <1>4, <1>5, SeqEqual
<1> QED
  BY <1>1, <1>6 DEF h, t

\* Closed parts of two memories that are equal hold the same values.
LEMMA SameValue ==
  ASSUME NEW m1, NEW m2, WellTyped(m1), WellTyped(m2),
         NEW S, S \subseteq DOMAIN m1, S \subseteq DOMAIN m2,
         \A q \in S : m1[q] = m2[q] /\ \A f \in Subs : m1[q].sub[f] \in S \cup {Null},
         NEW p \in S
  PROVE  Paths(m2, p) = Paths(m1, p) /\ ValueIn(m2, p) = ValueIn(m1, p)
<1> DEFINE Same(path) == /\ path \in Paths(m1, p) <=> path \in Paths(m2, p)
                         /\ path \in Paths(m1, p) => /\ Walk(m1, p, path) = Walk(m2, p, path)
                                                     /\ Walk(m1, p, path) \in S
           Bad == {path \in Seq(Subs) : ~Same(path)}
<1>1. Same(<<>>)
  BY EmptyPath
<1>2. ASSUME NEW r \in Seq(Subs), NEW f \in Subs, Same(r)
      PROVE  Same(Append(r, f))
  <2> DEFINE s == Append(r, f)
  <2>1. /\ s \in Paths(m1, p) <=> r \in Paths(m1, p) /\ m1[Walk(m1, p, r)].sub[f] # Null
        /\ s \in Paths(m1, p) => Walk(m1, p, s) = m1[Walk(m1, p, r)].sub[f]
    BY PathStep
  <2>2. /\ s \in Paths(m2, p) <=> r \in Paths(m2, p) /\ m2[Walk(m2, p, r)].sub[f] # Null
        /\ s \in Paths(m2, p) => Walk(m2, p, s) = m2[Walk(m2, p, r)].sub[f]
    BY PathStep
  <2>3. Null \notin S
    BY RootFacts DEF WellTyped
  <2>4. r \in Paths(m1, p) => /\ Walk(m1, p, r) \in S
                              /\ m2[Walk(m2, p, r)].sub[f] = m1[Walk(m1, p, r)].sub[f]
                              /\ m1[Walk(m1, p, r)].sub[f] \in S \cup {Null}
    BY <1>2
  <2>5. r \in Paths(m1, p) <=> r \in Paths(m2, p)
    BY <1>2
  <2> HIDE DEF s
  <2>6. s \in Paths(m1, p) <=> s \in Paths(m2, p)
    BY <2>1, <2>2, <2>4, <2>5
  <2>7. s \in Paths(m1, p) => Walk(m1, p, s) = Walk(m2, p, s) /\ Walk(m1, p, s) \in S
    BY <2>1, <2>2, <2>4, <2>5, <2>6
  <2> QED
    BY <2>6, <2>7 DEF s
<1>3. Bad = {}
  <2> SUFFICES ASSUME Bad # {} PROVE FALSE
    OBVIOUS
  <2>1. PICK s \in Bad : s = <<>> \/ \E r \in Seq(Subs), f \in Subs : s = Append(r, f) /\ r \notin Bad
    BY ShortestSequence
  <2> HIDE DEF Same
  <2> QED
    BY <1>1, <1>2, <2>1
<1>4. Paths(m1, p) \subseteq Seq(Subs) /\ Paths(m2, p) \subseteq Seq(Subs)
  BY EmptyPath
<1>5. Paths(m2, p) = Paths(m1, p)
  BY <1>3, <1>4
<1>6. \A path \in Paths(m1, p) : Content(m1[Walk(m1, p, path)]) = Content(m2[Walk(m2, p, path)])
  BY <1>3, <1>4
<1> QED
  BY <1>5, <1>6 DEF ValueIn

\* The value at an address, from those of its submessages.
LEMMA ValueParts ==
  ASSUME NEW m, WellTyped(m), NEW p \in DOMAIN m
  PROVE  /\ Paths(m, p) \subseteq Seq(Subs)
         /\ DOMAIN ValueIn(m, p) = Paths(m, p)
         /\ <<>> \in Paths(m, p) /\ ValueIn(m, p)[<<>>] = Content(m[p])
         /\ \A f \in Subs, s \in Seq(Subs) :
              /\ <<f>> \o s \in Paths(m, p) <=> m[p].sub[f] # Null /\ s \in Paths(m, m[p].sub[f])
              /\ <<f>> \o s \in Paths(m, p) =>
                   ValueIn(m, p)[<<f>> \o s] = ValueIn(m, m[p].sub[f])[s]
<1>1. /\ Paths(m, p) \subseteq Seq(Subs) /\ DOMAIN ValueIn(m, p) = Paths(m, p)
      /\ <<>> \in Paths(m, p) /\ ValueIn(m, p)[<<>>] = Content(m[p])
  BY EmptyPath DEF ValueIn
<1>2. ASSUME NEW f \in Subs, NEW s \in Seq(Subs)
      PROVE  /\ <<f>> \o s \in Paths(m, p) <=> m[p].sub[f] # Null /\ s \in Paths(m, m[p].sub[f])
             /\ <<f>> \o s \in Paths(m, p) => Walk(m, p, <<f>> \o s) = Walk(m, m[p].sub[f], s)
  <2> DEFINE q == m[p].sub[f]
             Good(x) == /\ <<f>> \o x \in Paths(m, p) <=> q # Null /\ x \in Paths(m, q)
                        /\ <<f>> \o x \in Paths(m, p) => Walk(m, p, <<f>> \o x) = Walk(m, q, x)
             Bad == {x \in Seq(Subs) : ~Good(x)}
  <2>1. q # Null => q \in DOMAIN m
    BY DEF WellTyped
  <2>2. Good(<<>>)
    <3>1. <<f>> \o <<>> = Append(<<>>, f) /\ <<>> \in Seq(Subs)
      BY FirstStep
    <3>2. Walk(m, p, <<>>) = p /\ Walk(m, q, <<>>) = q /\ <<>> \in Paths(m, q)
      BY EmptyPath
    <3>3. /\ Append(<<>>, f) \in Paths(m, p) <=>
               <<>> \in Paths(m, p) /\ m[Walk(m, p, <<>>)].sub[f] # Null
          /\ Append(<<>>, f) \in Paths(m, p) =>
               Walk(m, p, Append(<<>>, f)) = m[Walk(m, p, <<>>)].sub[f]
      BY <3>1, PathStep
    <3>4. /\ Append(<<>>, f) \in Paths(m, p) <=> q # Null
          /\ Append(<<>>, f) \in Paths(m, p) => Walk(m, p, Append(<<>>, f)) = q
      BY <1>1, <3>2, <3>3
    <3> HIDE DEF q
    <3> QED
      BY <3>1, <3>2, <3>4
  <2>3. ASSUME NEW x \in Seq(Subs), NEW g \in Subs, Good(x)
        PROVE  Good(Append(x, g))
    <3> DEFINE y == <<f>> \o x
    <3>1. y \in Seq(Subs) /\ <<f>> \o Append(x, g) = Append(y, g)
      BY FirstStep
    <3>2. Good(x) = (/\ y \in Paths(m, p) <=> q # Null /\ x \in Paths(m, q)
                     /\ y \in Paths(m, p) => Walk(m, p, y) = Walk(m, q, x))
      OBVIOUS
    <3> HIDE DEF y, q
    <3>3. /\ Append(y, g) \in Paths(m, p) <=> y \in Paths(m, p) /\ m[Walk(m, p, y)].sub[g] # Null
          /\ Append(y, g) \in Paths(m, p) => Walk(m, p, Append(y, g)) = m[Walk(m, p, y)].sub[g]
      BY <3>1, PathStep
    <3>4. q # Null =>
            /\ Append(x, g) \in Paths(m, q) <=> x \in Paths(m, q) /\ m[Walk(m, q, x)].sub[g] # Null
            /\ Append(x, g) \in Paths(m, q) => Walk(m, q, Append(x, g)) = m[Walk(m, q, x)].sub[g]
      BY <2>1, PathStep
    <3> QED
      BY <2>3, <3>1, <3>2, <3>3, <3>4
  <2>4. Bad = {}
    <3> SUFFICES ASSUME Bad # {} PROVE FALSE
      OBVIOUS
    <3>1. PICK x \in Bad : x = <<>> \/ \E r \in Seq(Subs), g \in Subs : x = Append(r, g) /\ r \notin Bad
      BY ShortestSequence
    <3> HIDE DEF Good
    <3> QED
      BY <2>2, <2>3, <3>1
  <2> QED
    BY <2>4
<1>3. ASSUME NEW f \in Subs, NEW s \in Seq(Subs), <<f>> \o s \in Paths(m, p)
      PROVE  ValueIn(m, p)[<<f>> \o s] = ValueIn(m, m[p].sub[f])[s]
  BY <1>2, <1>3 DEF ValueIn
<1> QED
  BY <1>1, <1>2, <1>3

\* A node of a clone is a copy of the one at the same path of the original.
LEMMA CloneNode ==
  ASSUME WellTyped(mem), NEW p \in DOMAIN mem, NEW c \in Calls, NEW a \in Arenas,
         NEW path \in Paths(mem, p)
  PROVE  LET copy == DeepClone(p, c, a)
             original == mem[Walk(mem, p, path)]
         IN  /\ <<c, path>> \in DOMAIN copy
             /\ Content(copy[<<c, path>>]) = Content(original)
             /\ \A f \in Subs : copy[<<c, path>>].sub[f] = IF original.sub[f] = Null THEN Null
                                                           ELSE <<c, Append(path, f)>>
<1> DEFINE copy == DeepClone(p, c, a)
           original == mem[Walk(mem, p, path)]
           sub == [f \in Subs |-> IF original.sub[f] = Null THEN Null ELSE <<c, Append(path, f)>>]
<1>1. /\ <<c, path>> \in DOMAIN copy
      /\ copy[<<c, path>>] = [original EXCEPT !.arena = a, !.sub = sub]
  BY DEF DeepClone
<1>2. original \in NativeMessage
  BY WalkFacts DEF WellTyped
<1>3. \A f \in Subs : sub[f] = IF original.sub[f] = Null THEN Null ELSE <<c, Append(path, f)>>
  OBVIOUS
<1> HIDE DEF copy, original, sub
<1>4. /\ copy[<<c, path>>].type = original.type /\ copy[<<c, path>>].val = original.val
      /\ copy[<<c, path>>].has = original.has /\ copy[<<c, path>>].sub = sub
  BY <1>1, <1>2 DEF NativeMessage
<1> QED
  BY <1>1, <1>3, <1>4 DEF Content, copy, original

\* A clone has the value of its original.
LEMMA CloneValue ==
  ASSUME WellTyped(mem), NEW p \in DOMAIN mem, NEW c \in Calls, NEW a \in Arenas
  PROVE  ValueIn(DeepClone(p, c, a), Root(c)) = ValueIn(mem, p)
<1> DEFINE copy == DeepClone(p, c, a)
           root == Root(c)
           Good(path) == /\ path \in Paths(copy, root) <=> path \in Paths(mem, p)
                         /\ path \in Paths(mem, p) => Walk(copy, root, path) = <<c, path>>
           Bad == {path \in Seq(Subs) : ~Good(path)}
<1>1. WellTyped(copy) /\ root \in DOMAIN copy
  BY CloneIsNewTree DEF NewTree
<1>2. \A path \in Paths(mem, p) :
        /\ Content(copy[<<c, path>>]) = Content(mem[Walk(mem, p, path)])
        /\ \A f \in Subs : copy[<<c, path>>].sub[f] = IF mem[Walk(mem, p, path)].sub[f] = Null
                                                      THEN Null ELSE <<c, Append(path, f)>>
  BY CloneNode
<1>3. root = <<c, <<>>>>
  BY DEF Root
<1> HIDE DEF copy, root
<1>4. Good(<<>>)
  BY <1>3, EmptyPath
<1>5. ASSUME NEW r \in Seq(Subs), NEW f \in Subs, Good(r)
      PROVE  Good(Append(r, f))
  <2> DEFINE s == Append(r, f)
             w == Walk(mem, p, r)
  <2>1. /\ s \in Paths(mem, p) <=> r \in Paths(mem, p) /\ mem[w].sub[f] # Null
        /\ s \in Paths(mem, p) => Walk(mem, p, s) = mem[w].sub[f]
    BY PathStep
  <2>2. /\ s \in Paths(copy, root) <=> r \in Paths(copy, root) /\ copy[Walk(copy, root, r)].sub[f] # Null
        /\ s \in Paths(copy, root) => Walk(copy, root, s) = copy[Walk(copy, root, r)].sub[f]
    BY <1>1, PathStep
  <2>3. r \in Paths(mem, p) =>
          /\ Walk(copy, root, r) = <<c, r>>
          /\ copy[<<c, r>>].sub[f] = IF mem[w].sub[f] = Null THEN Null ELSE <<c, s>>
    BY <1>2, <1>5
  <2>4. <<c, s>> # Null
    <3>1. <<c, s>> \in Ptr
      BY AppendFacts DEF Ptr
    <3> QED
      BY <3>1, RootFacts
  <2>5. r \in Paths(copy, root) <=> r \in Paths(mem, p)
    BY <1>5
  <2> HIDE DEF s, w
  <2>6. s \in Paths(copy, root) <=> s \in Paths(mem, p)
    BY <2>1, <2>2, <2>3, <2>4, <2>5
  <2>7. s \in Paths(mem, p) => Walk(copy, root, s) = <<c, s>>
    BY <2>1, <2>2, <2>3, <2>6
  <2> QED
    BY <2>6, <2>7 DEF s
<1>6. Bad = {}
  <2> SUFFICES ASSUME Bad # {} PROVE FALSE
    OBVIOUS
  <2>1. PICK s \in Bad : s = <<>> \/ \E r \in Seq(Subs), f \in Subs : s = Append(r, f) /\ r \notin Bad
    BY ShortestSequence
  <2> HIDE DEF Good
  <2> QED
    BY <1>4, <1>5, <2>1
<1>7. Paths(copy, root) \subseteq Seq(Subs) /\ Paths(mem, p) \subseteq Seq(Subs)
  BY EmptyPath
<1>8. Paths(copy, root) = Paths(mem, p)
  BY <1>6, <1>7
<1>9. \A path \in Paths(mem, p) :
        Content(copy[Walk(copy, root, path)]) = Content(mem[Walk(mem, p, path)])
  BY <1>2, <1>6, <1>7
<1> QED
  BY <1>8, <1>9 DEF ValueIn, copy, root

\* Allocating a tree changes no value; the value of the tree is that of its root.
LEMMA ExtendedValues ==
  ASSUME WellTyped(mem), NEW m, NEW c \in Calls, NEW a, NEW T, NEW new,
         NewTree(new, c, a, T), Extended(m, new, c)
  PROVE  /\ \A p \in DOMAIN mem : ValueIn(m, p) = ValueIn(mem, p)
         /\ ValueIn(m, Root(c)) = ValueIn(new, Root(c))
<1>1. WellTyped(m) /\ DOMAIN mem \subseteq DOMAIN m /\ \A q \in DOMAIN mem : mem[q] = m[q]
  BY DEF Extended
<1>2. \A q \in DOMAIN mem, f \in Subs : mem[q].sub[f] \in DOMAIN mem \cup {Null}
  BY DEF WellTyped
<1>3. WellTyped(new) /\ DOMAIN new \subseteq DOMAIN m /\ (\A q \in DOMAIN new : new[q] = m[q])
      /\ Root(c) \in DOMAIN new
  BY DEF Extended, NewTree
<1>4. \A q \in DOMAIN new, f \in Subs : new[q].sub[f] \in DOMAIN new \cup {Null}
  BY <1>3 DEF WellTyped
<1>5. \A p \in DOMAIN mem : ValueIn(m, p) = ValueIn(mem, p)
  BY <1>1, <1>2, SameValue
<1>6. ValueIn(m, Root(c)) = ValueIn(new, Root(c))
  BY <1>1, <1>3, <1>4, SameValue
<1> QED
  BY <1>5, <1>6

\* Two values are equal if their roots are and so is everything under each field.
LEMMA SameParts ==
  ASSUME NEW v, NEW w, v = [path \in DOMAIN v |-> v[path]], w = [path \in DOMAIN w |-> w[path]],
         DOMAIN v \subseteq Seq(Subs), DOMAIN w \subseteq Seq(Subs),
         <<>> \in DOMAIN v, <<>> \in DOMAIN w, v[<<>>] = w[<<>>],
         \A f \in Subs, s \in Seq(Subs) :
           /\ <<f>> \o s \in DOMAIN v <=> <<f>> \o s \in DOMAIN w
           /\ <<f>> \o s \in DOMAIN v => v[<<f>> \o s] = w[<<f>> \o s]
  PROVE  v = w
<1>1. \A path \in Seq(Subs) : path = <<>> \/ \E f \in Subs, s \in Seq(Subs) : path = <<f>> \o s
  BY FirstAndRest
<1>2. ASSUME NEW path \in Seq(Subs)
      PROVE  (path \in DOMAIN v <=> path \in DOMAIN w) /\ (path \in DOMAIN v => v[path] = w[path])
  <2>1. CASE path = <<>>
    BY <2>1
  <2>2. CASE path # <<>>
    <3>1. PICK f \in Subs, s \in Seq(Subs) : path = <<f>> \o s
      BY <1>1, <2>2
    <3> QED
      BY <3>1
  <2> QED
    BY <2>1, <2>2
<1>3. DOMAIN v = DOMAIN w /\ \A path \in DOMAIN v : v[path] = w[path]
  BY <1>2
<1> QED
  BY <1>3

\* What parseFrom reads is the value that was encoded, restricted to the fields that
\* the decoder accepted.
LEMMA DecodedValue ==
  ASSUME WellTyped(mem), NEW p \in DOMAIN mem, NEW c \in Calls, NEW a \in Arenas,
         NEW decoded \in SUBSET mem[p].has
  PROVE  ValueIn(Decoded(p, c, a, decoded), Root(c)) =
           ValueSemantics!Restrict(ValueIn(mem, p), decoded)
<1> DEFINE copy == DeepClone(p, c, a)
           new == Decoded(p, c, a, decoded)
           root == Root(c)
           v == ValueIn(copy, root)
           w == ValueSemantics!Restrict(v, decoded)
           kept(f) == IF f \in decoded THEN copy[root].sub[f] ELSE Null
<1>1. /\ WellTyped(copy) /\ root \in DOMAIN copy
      /\ \A q \in DOMAIN copy, f \in Subs : copy[q].sub[f] # root
  BY CloneIsNewTree DEF NewTree
<1>2. decoded \in SUBSET Fields
  BY DEF WellTyped, NativeMessage
<1>3. /\ WellTyped(new) /\ root \in DOMAIN new
      /\ \A q \in DOMAIN new, f \in Subs : new[q].sub[f] # root
  BY <1>2, DecodedIsNewTree DEF NewTree
<1>4. /\ DOMAIN new \subseteq DOMAIN copy
      /\ \A q \in DOMAIN new \ {root} : new[q] = copy[q]
      /\ new[root] = [copy[root] EXCEPT
             !.val = [f \in Scalars |-> IF f \in decoded THEN copy[root].val[f] ELSE Zero],
             !.has = decoded,
             !.sub = [f \in Subs |-> kept(f)]]
  BY <1>3 DEF Decoded
<1> HIDE DEF copy, new, root
<1>5. /\ Content(new[root]) =
           [Content(copy[root]) EXCEPT
              !.val = [f \in Scalars |-> IF f \in decoded THEN @[f] ELSE Zero],
              !.has = decoded]
      /\ \A f \in Subs : new[root].sub[f] = kept(f)
  <2> DEFINE val == [f \in Scalars |-> IF f \in decoded THEN copy[root].val[f] ELSE Zero]
             sub == [f \in Subs |-> kept(f)]
  <2>1. copy[root] \in NativeMessage
    BY <1>1 DEF WellTyped
  <2>2. \A f \in Subs : sub[f] = kept(f)
    OBVIOUS
  <2>3. /\ new[root] = [copy[root] EXCEPT !.val = val, !.has = decoded, !.sub = sub]
        /\ [Content(copy[root]) EXCEPT
              !.val = [f \in Scalars |-> IF f \in decoded THEN @[f] ELSE Zero],
              !.has = decoded] = [Content(copy[root]) EXCEPT !.val = val, !.has = decoded]
    BY <1>4 DEF Content
  <2> HIDE DEF val, sub
  <2>4. /\ new[root].type = copy[root].type /\ new[root].val = val
        /\ new[root].has = decoded /\ new[root].sub = sub
    BY <2>1, <2>3 DEF NativeMessage
  <2>5. Content(new[root]) = [Content(copy[root]) EXCEPT !.val = val, !.has = decoded]
    <3> DEFINE old == Content(copy[root])
               changed == [old EXCEPT !.val = val, !.has = decoded]
    <3>3. old = [type |-> copy[root].type, val |-> copy[root].val, has |-> copy[root].has]
      BY DEF Content
    <3>4. changed = [old EXCEPT !.val = val, !.has = decoded]
      OBVIOUS
    <3> HIDE DEF old, changed
    <3>1. changed = [type |-> copy[root].type, val |-> val, has |-> decoded]
      BY <3>3, <3>4
    <3>2. Content(new[root]) = [type |-> copy[root].type, val |-> val, has |-> decoded]
      BY <2>4 DEF Content
    <3> QED
      BY <3>1, <3>2 DEF changed, old
  <2> QED
    BY <2>2, <2>3, <2>4, <2>5
<1>6. ASSUME NEW q \in DOMAIN new, q # root
      PROVE  Paths(new, q) = Paths(copy, q) /\ ValueIn(new, q) = ValueIn(copy, q)
  <2> DEFINE S == DOMAIN new \ {root}
  <2>1. /\ S \subseteq DOMAIN new /\ S \subseteq DOMAIN copy /\ q \in S
        /\ \A x \in S : new[x] = copy[x] /\ \A f \in Subs : new[x].sub[f] \in S \cup {Null}
    BY <1>3, <1>4, <1>6 DEF WellTyped
  <2> HIDE DEF S
  <2> QED
    BY <1>1, <1>3, <2>1, SameValue
<1>7. \A f \in Subs : kept(f) # Null =>
        /\ f \in decoded /\ kept(f) = copy[root].sub[f] /\ kept(f) \in DOMAIN new /\ kept(f) # root
  BY <1>3, <1>5 DEF WellTyped
<1>8. /\ DOMAIN w = {path \in DOMAIN v : path # <<>> => Head(path) \notin Subs \ decoded}
      /\ \A path \in DOMAIN w : path # <<>> => w[path] = v[path]
      /\ <<>> \in DOMAIN w => w[<<>>] = [v[<<>>] EXCEPT
              !.val = [f \in Scalars |-> IF f \in decoded THEN @[f] ELSE Zero],
              !.has = decoded]
      /\ w = [path \in DOMAIN w |-> w[path]]
  <2> DEFINE B == {path \in DOMAIN v : path # <<>> => Head(path) \notin Subs \ decoded}
             val == [f \in Scalars |-> IF f \in decoded THEN v[<<>>].val[f]
                                      ELSE EmptyNode(v[<<>>].type).val[f]]
  <2>1. w = [path \in B |-> IF path = <<>> THEN [v[<<>>] EXCEPT !.val = val, !.has = decoded]
                           ELSE v[path]]
    BY DEF ValueSemantics!Restrict, ValueSemantics!Beside
  <2>2. val = [f \in Scalars |-> IF f \in decoded THEN v[<<>>].val[f] ELSE Zero]
    BY DEF EmptyNode
  <2> HIDE DEF w, val, v
  <2>3. DOMAIN w = B /\ w = [path \in DOMAIN w |-> w[path]]
    BY <2>1
  <2>4. \A path \in DOMAIN w : path # <<>> => w[path] = v[path]
    BY <2>1
  <2>5. <<>> \in DOMAIN w => w[<<>>] = [v[<<>>] EXCEPT !.val = val, !.has = decoded]
    BY <2>1
  <2> QED
    BY <2>2, <2>3, <2>4, <2>5
<1>9. /\ DOMAIN v = Paths(copy, root) /\ Paths(copy, root) \subseteq Seq(Subs)
      /\ <<>> \in DOMAIN v /\ v[<<>>] = Content(copy[root])
      /\ \A f \in Subs, s \in Seq(Subs) :
           /\ <<f>> \o s \in DOMAIN v <=> copy[root].sub[f] # Null /\ s \in Paths(copy, copy[root].sub[f])
           /\ <<f>> \o s \in DOMAIN v => v[<<f>> \o s] = ValueIn(copy, copy[root].sub[f])[s]
  BY <1>1, ValueParts
<1> DEFINE u == ValueIn(new, root)
<1>10. /\ DOMAIN u = Paths(new, root) /\ Paths(new, root) \subseteq Seq(Subs)
       /\ <<>> \in DOMAIN u /\ u[<<>>] = Content(new[root])
       /\ \A f \in Subs, s \in Seq(Subs) :
            /\ <<f>> \o s \in DOMAIN u <=> kept(f) # Null /\ s \in Paths(new, kept(f))
            /\ <<f>> \o s \in DOMAIN u => u[<<f>> \o s] = ValueIn(new, kept(f))[s]
  <2>1. /\ DOMAIN u = Paths(new, root) /\ Paths(new, root) \subseteq Seq(Subs)
       /\ <<>> \in DOMAIN u /\ u[<<>>] = Content(new[root])
       /\ \A f \in Subs, s \in Seq(Subs) :
            /\ <<f>> \o s \in DOMAIN u <=> new[root].sub[f] # Null /\ s \in Paths(new, new[root].sub[f])
            /\ <<f>> \o s \in DOMAIN u => u[<<f>> \o s] = ValueIn(new, new[root].sub[f])[s]
    BY <1>3, ValueParts
  <2> QED
    BY <1>5, <2>1
<1>11. u = [path \in DOMAIN u |-> u[path]]
  BY DEF ValueIn
<1>12. \A f \in Subs : kept(f) # Null <=> f \in decoded /\ copy[root].sub[f] # Null
  OBVIOUS
<1> HIDE DEF u, v, w, kept
<1>13. ASSUME NEW f \in Subs, NEW s \in Seq(Subs)
       PROVE  /\ <<f>> \o s \in DOMAIN u <=> <<f>> \o s \in DOMAIN w
              /\ <<f>> \o s \in DOMAIN u => u[<<f>> \o s] = w[<<f>> \o s]
  <2>1. <<f>> \o s # <<>> /\ Head(<<f>> \o s) = f
    BY FirstStep
  <2>2. <<f>> \o s \in DOMAIN w <=> <<f>> \o s \in DOMAIN v /\ f \in decoded
    BY <1>8, <2>1
  <2>3. kept(f) # Null => /\ Paths(new, kept(f)) = Paths(copy, copy[root].sub[f])
                          /\ ValueIn(new, kept(f)) = ValueIn(copy, copy[root].sub[f])
    BY <1>6, <1>7
  <2> DEFINE path == <<f>> \o s
  <2>4. /\ path \in DOMAIN v <=> copy[root].sub[f] # Null /\ s \in Paths(copy, copy[root].sub[f])
        /\ path \in DOMAIN v => v[path] = ValueIn(copy, copy[root].sub[f])[s]
        /\ path \in DOMAIN u <=> kept(f) # Null /\ s \in Paths(new, kept(f))
        /\ path \in DOMAIN u => u[path] = ValueIn(new, kept(f))[s]
    BY <1>9, <1>10
  <2>5. path \in DOMAIN w => w[path] = v[path]
    BY <1>8, <2>1
  <2> HIDE DEF path
  <2>6. path \in DOMAIN u <=> path \in DOMAIN w
    BY <1>12, <2>2, <2>3, <2>4 DEF path
  <2>7. path \in DOMAIN u => u[path] = w[path]
    BY <2>2, <2>3, <2>4, <2>5, <2>6 DEF path
  <2> QED
    BY <2>6, <2>7 DEF path
<1>14. <<>> \in DOMAIN w /\ u[<<>>] = w[<<>>]
  BY <1>5, <1>8, <1>9, <1>10
<1>15. u = w
  <2>1. DOMAIN u \subseteq Seq(Subs) /\ DOMAIN w \subseteq Seq(Subs)
    BY <1>8, <1>9, <1>10
  <2> QED
    BY <1>8, <1>10, <1>11, <1>13, <1>14, <2>1, SameParts
<1>16. v = ValueIn(mem, p)
  BY CloneValue DEF v, copy, root
<1> QED
  BY <1>15, <1>16 DEF u, w, new, root

\* Every value is a tree, so never NoValue.
LEMMA ValueIsTree ==
  ASSUME NEW m, WellTyped(m), NEW p \in DOMAIN m
  PROVE  ValueIn(m, p) \in [Paths(m, p) -> Node] /\ ValueIn(m, p) # NoValue
<1>1. ASSUME NEW path \in Paths(m, p)
      PROVE  Content(m[Walk(m, p, path)]) \in Node
  <2>1. Walk(m, p, path) \in DOMAIN m
    <3>1. path = <<>> \/ path \in Seq(Subs)
      BY EmptyPath
    <3>2. CASE path = <<>>
      BY <3>2, EmptyPath
    <3>3. CASE path # <<>>
      <4>1. path \in Seq(Subs) /\ Head(path) \in Subs
        BY <3>3, EmptyPath, FirstAndRest
      <4> QED
        BY <4>1, PathStep
    <3> QED
      BY <3>2, <3>3
  <2>2. m[Walk(m, p, path)] \in NativeMessage
    BY <2>1 DEF WellTyped
  <2> QED
    BY <2>2 DEF Content, NativeMessage, Node
<1>2. ValueIn(m, p) \in [Paths(m, p) -> Node]
  BY <1>1 DEF ValueIn
<1>3. Paths(m, p) \in SUBSET NestedPaths
  BY DEF Paths
<1> QED
  BY <1>2, <1>3, NoValueAssumption

\* What a getter returns has the value of the submessage.
LEMMA SubmessageValue ==
  ASSUME NEW m, WellTyped(m), NEW p \in DOMAIN m, NEW f \in Subs
  PROVE  ValueSemantics!SubmessageOf(ValueIn(m, p), f) =
           IF m[p].sub[f] = Null THEN ValueSemantics!EmptyValue(SubType[f])
           ELSE ValueIn(m, m[p].sub[f])
<1> DEFINE v == ValueIn(m, p)
           q == m[p].sub[f]
           through == {path \in DOMAIN v : path # <<>> /\ Head(path) = f}
<1>1. /\ DOMAIN v = Paths(m, p) /\ Paths(m, p) \subseteq Seq(Subs)
      /\ \A s \in Seq(Subs) :
           /\ <<f>> \o s \in DOMAIN v <=> q # Null /\ s \in Paths(m, q)
           /\ <<f>> \o s \in DOMAIN v => v[<<f>> \o s] = ValueIn(m, q)[s]
  BY ValueParts
<1>2. ValueSemantics!SubmessageOf(v, f) =
        IF through = {} THEN ValueSemantics!EmptyValue(SubType[f])
        ELSE [rest \in {Tail(path) : path \in through} |-> v[<<f>> \o rest]]
  BY DEF ValueSemantics!SubmessageOf, ValueSemantics!Through, TypeOfSub
<1>3. \A path \in through : Tail(path) \in Seq(Subs) /\ path = <<f>> \o Tail(path)
  BY <1>1, FirstAndRest
<1>4. \A s \in Seq(Subs) : <<f>> \o s \in DOMAIN v => <<f>> \o s \in through /\ Tail(<<f>> \o s) = s
  BY FirstStep
<1>5. Paths(m, q) \subseteq Seq(Subs) /\ <<>> \in Paths(m, q) /\ <<>> \in Seq(Subs)
  BY EmptyPath
<1>6. \A path \in through : path \in DOMAIN v
  OBVIOUS
<1>7. ValueIn(m, q) = [s \in Paths(m, q) |-> ValueIn(m, q)[s]]
  BY DEF ValueIn
<1> HIDE DEF v, q, through
<1>8. CASE q = Null
  <2>1. through = {}
    BY <1>1, <1>3, <1>6, <1>8
  <2> QED
    BY <1>2, <1>8, <2>1 DEF v, q
<1>9. CASE q # Null
  <2>1. <<f>> \o <<>> \in through
    BY <1>1, <1>4, <1>5, <1>9
  <2>2. {Tail(path) : path \in through} = Paths(m, q)
    <3>1. ASSUME NEW path \in through
          PROVE  Tail(path) \in Paths(m, q)
      BY <1>1, <1>3, <1>6
    <3>2. ASSUME NEW s \in Paths(m, q)
          PROVE  \E path \in through : s = Tail(path)
      <4>1. s \in Seq(Subs)
        BY <1>5
      <4>2. <<f>> \o s \in through /\ Tail(<<f>> \o s) = s
        BY <1>1, <1>4, <1>9, <4>1
      <4> QED
        BY <4>2
    <3> QED
      BY <3>1, <3>2
  <2>3. \A s \in Paths(m, q) : v[<<f>> \o s] = ValueIn(m, q)[s]
    BY <1>1, <1>5, <1>9
  <2>4. ValueSemantics!SubmessageOf(v, f) = [rest \in Paths(m, q) |-> v[<<f>> \o rest]]
    BY <1>2, <2>1, <2>2
  <2> QED
    BY <1>7, <1>9, <2>3, <2>4 DEF v, q
<1> QED
  BY <1>8, <1>9

\* m2 is memory m with node n written at address p, that nothing points to.
Rewritten(m, m2, p, n) ==
  /\ WellTyped(m) /\ WellTyped(m2) /\ p \in DOMAIN m
  /\ \A q \in DOMAIN m, f \in Subs : m[q].sub[f] # p
  /\ DOMAIN m2 = DOMAIN m /\ m2[p] = n
  /\ \A q \in DOMAIN m \ {p} : m2[q] = m[q]
  /\ \A f \in Subs : n.sub[f] \in (DOMAIN m \ {p}) \cup {Null}

\* Such a write leaves every other value as it is.
LEMMA WriteFrame ==
  ASSUME NEW m, NEW m2, NEW p, NEW n, Rewritten(m, m2, p, n), NEW q \in DOMAIN m \ {p}
  PROVE  Paths(m2, q) = Paths(m, q) /\ ValueIn(m2, q) = ValueIn(m, q)
<1> DEFINE S == DOMAIN m \ {p}
<1>1. \A x \in S : m[x] = m2[x] /\ \A f \in Subs : m[x].sub[f] \in S \cup {Null}
  BY DEF WellTyped, Rewritten
<1>2. /\ S \subseteq DOMAIN m /\ S \subseteq DOMAIN m2 /\ q \in S
      /\ WellTyped(m) /\ WellTyped(m2)
  BY DEF Rewritten
<1> HIDE DEF S
<1> QED
  BY <1>1, <1>2, SameValue

\* What it makes of the value at p.
LEMMA WrittenParts ==
  ASSUME NEW m, NEW m2, NEW p, NEW n, Rewritten(m, m2, p, n)
  PROVE  /\ DOMAIN ValueIn(m2, p) \subseteq Seq(Subs)
         /\ <<>> \in DOMAIN ValueIn(m2, p) /\ ValueIn(m2, p)[<<>>] = Content(n)
         /\ \A f \in Subs, s \in Seq(Subs) :
              /\ <<f>> \o s \in DOMAIN ValueIn(m2, p) <=> n.sub[f] # Null /\ s \in Paths(m, n.sub[f])
              /\ <<f>> \o s \in DOMAIN ValueIn(m2, p) =>
                   ValueIn(m2, p)[<<f>> \o s] = ValueIn(m, n.sub[f])[s]
<1> DEFINE u == ValueIn(m2, p)
<1>1. /\ WellTyped(m2) /\ p \in DOMAIN m2 /\ m2[p] = n
      /\ \A f \in Subs : n.sub[f] \in (DOMAIN m \ {p}) \cup {Null}
  BY DEF Rewritten
<1>2. /\ DOMAIN u = Paths(m2, p) /\ Paths(m2, p) \subseteq Seq(Subs)
      /\ <<>> \in DOMAIN u /\ u[<<>>] = Content(m2[p])
      /\ \A f \in Subs, s \in Seq(Subs) :
           /\ <<f>> \o s \in DOMAIN u <=> m2[p].sub[f] # Null /\ s \in Paths(m2, m2[p].sub[f])
           /\ <<f>> \o s \in DOMAIN u => u[<<f>> \o s] = ValueIn(m2, m2[p].sub[f])[s]
  BY <1>1, ValueParts
<1>3. \A f \in Subs : n.sub[f] # Null =>
        Paths(m2, n.sub[f]) = Paths(m, n.sub[f]) /\ ValueIn(m2, n.sub[f]) = ValueIn(m, n.sub[f])
  BY <1>1, WriteFrame
<1> HIDE DEF u
<1>4. ASSUME NEW f \in Subs, NEW s \in Seq(Subs)
      PROVE  /\ <<f>> \o s \in DOMAIN u <=> n.sub[f] # Null /\ s \in Paths(m, n.sub[f])
             /\ <<f>> \o s \in DOMAIN u => u[<<f>> \o s] = ValueIn(m, n.sub[f])[s]
  <2> DEFINE path == <<f>> \o s
  <2>1. /\ path \in DOMAIN u <=> n.sub[f] # Null /\ s \in Paths(m2, n.sub[f])
        /\ path \in DOMAIN u => u[path] = ValueIn(m2, n.sub[f])[s]
    BY <1>1, <1>2
  <2> HIDE DEF path
  <2>2. /\ path \in DOMAIN u <=> n.sub[f] # Null /\ s \in Paths(m, n.sub[f])
        /\ path \in DOMAIN u => u[path] = ValueIn(m, n.sub[f])[s]
    BY <1>3, <2>1
  <2> QED
    BY <2>2 DEF path
<1> QED
  BY <1>1, <1>2, <1>4 DEF u

\* setInt and setLong write a scalar of the value.
LEMMA ScalarWritten ==
  ASSUME NEW m, NEW m2, NEW p, NEW f \in Scalars, NEW x \in Values,
         Rewritten(m, m2, p, WithScalar(m[p], f, x))
  PROVE  ValueIn(m2, p) = ValueSemantics!WithScalar(ValueIn(m, p), f, x)
<1> DEFINE v == ValueIn(m, p)
           u == ValueIn(m2, p)
           w == ValueSemantics!WithScalar(v, f, x)
           n == m[p]
           k == WithScalar(n, f, x)
<1>1. WellTyped(m) /\ p \in DOMAIN m
  BY DEF Rewritten
<1>2. /\ DOMAIN v = Paths(m, p) /\ Paths(m, p) \subseteq Seq(Subs)
      /\ <<>> \in DOMAIN v /\ v[<<>>] = Content(n)
      /\ \A g \in Subs, s \in Seq(Subs) :
           /\ <<g>> \o s \in DOMAIN v <=> n.sub[g] # Null /\ s \in Paths(m, n.sub[g])
           /\ <<g>> \o s \in DOMAIN v => v[<<g>> \o s] = ValueIn(m, n.sub[g])[s]
  BY <1>1, ValueParts
<1>3. /\ DOMAIN u \subseteq Seq(Subs)
      /\ <<>> \in DOMAIN u /\ u[<<>>] = Content(k)
      /\ \A g \in Subs, s \in Seq(Subs) :
           /\ <<g>> \o s \in DOMAIN u <=> k.sub[g] # Null /\ s \in Paths(m, k.sub[g])
           /\ <<g>> \o s \in DOMAIN u => u[<<g>> \o s] = ValueIn(m, k.sub[g])[s]
  BY WrittenParts
<1>4. /\ k.type = n.type /\ k.val = [n.val EXCEPT ![f] = x]
      /\ k.has = n.has \cup {f} /\ k.sub = n.sub
  <2>1. n \in NativeMessage
    BY <1>1 DEF WellTyped
  <2> QED
    BY <2>1 DEF NativeMessage, WithScalar
<1>5. w = [v EXCEPT ![<<>>].val[f] = x, ![<<>>].has = @ \cup {f}]
  BY DEF ValueSemantics!WithScalar
<1>6. v = [path \in DOMAIN v |-> v[path]] /\ u = [path \in DOMAIN u |-> u[path]]
  BY DEF ValueIn
<1> HIDE DEF u, v, w, n, k
<1>8. /\ DOMAIN w = DOMAIN v /\ w = [path \in DOMAIN w |-> w[path]]
      /\ \A path \in DOMAIN w : path # <<>> => w[path] = v[path]
      /\ w[<<>>] = [v[<<>>] EXCEPT !.val[f] = x, !.has = @ \cup {f}]
  BY <1>2, <1>5, <1>6
<1>9. u[<<>>] = w[<<>>]
  <2> DEFINE old == v[<<>>]
             changed == w[<<>>]
  <2>1. old = [type |-> n.type, val |-> n.val, has |-> n.has]
    BY <1>2 DEF Content
  <2>2. changed = [old EXCEPT !.val[f] = x, !.has = @ \cup {f}]
    BY <1>8
  <2>3. u[<<>>] = [type |-> n.type, val |-> [n.val EXCEPT ![f] = x], has |-> n.has \cup {f}]
    BY <1>3, <1>4 DEF Content
  <2> HIDE DEF old, changed
  <2>4. changed = [type |-> n.type, val |-> [n.val EXCEPT ![f] = x], has |-> n.has \cup {f}]
    BY <2>1, <2>2
  <2> QED
    BY <2>3, <2>4 DEF changed
<1>10. ASSUME NEW g \in Subs, NEW s \in Seq(Subs)
       PROVE  /\ <<g>> \o s \in DOMAIN u <=> <<g>> \o s \in DOMAIN w
              /\ <<g>> \o s \in DOMAIN u => u[<<g>> \o s] = w[<<g>> \o s]
  <2> DEFINE path == <<g>> \o s
  <2>1. path # <<>>
    BY FirstStep
  <2>2. /\ path \in DOMAIN v <=> n.sub[g] # Null /\ s \in Paths(m, n.sub[g])
        /\ path \in DOMAIN v => v[path] = ValueIn(m, n.sub[g])[s]
        /\ path \in DOMAIN u <=> n.sub[g] # Null /\ s \in Paths(m, n.sub[g])
        /\ path \in DOMAIN u => u[path] = ValueIn(m, n.sub[g])[s]
    BY <1>2, <1>3, <1>4
  <2> HIDE DEF path
  <2>3. (path \in DOMAIN u <=> path \in DOMAIN w) /\ (path \in DOMAIN u => u[path] = w[path])
    BY <1>8, <2>1, <2>2
  <2> QED
    BY <2>3 DEF path
<1>11. u = w
  <2>1. DOMAIN u \subseteq Seq(Subs) /\ DOMAIN w \subseteq Seq(Subs) /\ <<>> \in DOMAIN w
    BY <1>2, <1>3, <1>8
  <2> QED
    BY <1>3, <1>6, <1>8, <1>9, <1>10, <2>1, SameParts
<1> QED
  BY <1>11 DEF u, v, w

\* setMessage sets a submessage of the value to the value of a message.
LEMMA SubWritten ==
  ASSUME NEW m, NEW m2, NEW p, NEW f \in Subs, NEW h \in DOMAIN m,
         Rewritten(m, m2, p, WithSub(m[p], f, h))
  PROVE  ValueIn(m2, p) = ValueSemantics!WithSub(ValueIn(m, p), f, ValueIn(m, h))
<1> DEFINE v == ValueIn(m, p)
           u == ValueIn(m2, p)
           x == ValueIn(m, h)
           w == ValueSemantics!WithSub(v, f, x)
           n == m[p]
           k == WithSub(n, f, h)
           beside == {path \in DOMAIN v : path # <<>> => Head(path) \notin {f}}
           through == {<<f>> \o rest : rest \in DOMAIN x}
<1>1. WellTyped(m) /\ p \in DOMAIN m
  BY DEF Rewritten
<1>2. /\ DOMAIN v = Paths(m, p) /\ Paths(m, p) \subseteq Seq(Subs)
      /\ <<>> \in DOMAIN v /\ v[<<>>] = Content(n)
      /\ \A g \in Subs, s \in Seq(Subs) :
           /\ <<g>> \o s \in DOMAIN v <=> n.sub[g] # Null /\ s \in Paths(m, n.sub[g])
           /\ <<g>> \o s \in DOMAIN v => v[<<g>> \o s] = ValueIn(m, n.sub[g])[s]
  BY <1>1, ValueParts
<1>3. /\ DOMAIN u \subseteq Seq(Subs)
      /\ <<>> \in DOMAIN u /\ u[<<>>] = Content(k)
      /\ \A g \in Subs, s \in Seq(Subs) :
           /\ <<g>> \o s \in DOMAIN u <=> k.sub[g] # Null /\ s \in Paths(m, k.sub[g])
           /\ <<g>> \o s \in DOMAIN u => u[<<g>> \o s] = ValueIn(m, k.sub[g])[s]
  BY WrittenParts
<1>4. /\ k.type = n.type /\ k.val = n.val /\ k.has = n.has \cup {f}
      /\ k.sub[f] = h /\ \A g \in Subs \ {f} : k.sub[g] = n.sub[g]
  <2>1. n \in NativeMessage
    BY <1>1 DEF WellTyped
  <2> QED
    BY <2>1 DEF NativeMessage, WithSub
<1>5. DOMAIN x = Paths(m, h) /\ Paths(m, h) \subseteq Seq(Subs)
  BY <1>1, ValueParts
<1>6. h # Null
  BY <1>1, RootFacts DEF WellTyped
<1>7. w = [path \in beside \cup through |->
             IF path = <<>> THEN [v[path] EXCEPT !.has = @ \cup {f}]
             ELSE IF Head(path) = f THEN x[Tail(path)] ELSE v[path]]
  BY DEF ValueSemantics!WithSub, ValueSemantics!Beside
<1>8. u = [path \in DOMAIN u |-> u[path]]
  BY DEF ValueIn
<1>9. \A path \in through : path \in Seq(Subs) /\ path # <<>> /\ Head(path) = f
  <2>1. \A rest \in DOMAIN x : <<f>> \o rest \in Seq(Subs) /\ <<f>> \o rest # <<>>
                                /\ Head(<<f>> \o rest) = f
    BY <1>5, FirstStep
  <2> QED
    BY <2>1
<1>10. \A path \in beside : path \in DOMAIN v
  OBVIOUS
<1>11. <<>> \in beside
  BY <1>2
<1>12. \A g \in Subs, s \in Seq(Subs) :
         /\ <<g>> \o s \in beside <=> <<g>> \o s \in DOMAIN v /\ g # f
         /\ <<g>> \o s \in through <=> g = f /\ s \in DOMAIN x
         /\ <<g>> \o s # <<>> /\ Head(<<g>> \o s) = g /\ Tail(<<g>> \o s) = s
  <2> TAKE g \in Subs, s \in Seq(Subs)
  <2>1. <<g>> \o s # <<>> /\ Head(<<g>> \o s) = g /\ Tail(<<g>> \o s) = s
    BY FirstStep
  <2>2. <<g>> \o s \in beside <=> <<g>> \o s \in DOMAIN v /\ g # f
    BY <2>1
  <2>3. ASSUME <<g>> \o s \in through
        PROVE  g = f /\ s \in DOMAIN x
    <3>1. PICK rest \in DOMAIN x : <<g>> \o s = <<f>> \o rest
      BY <2>3
    <3>2. Head(<<f>> \o rest) = f /\ Tail(<<f>> \o rest) = rest
      BY <1>5, FirstStep
    <3> QED
      BY <2>1, <3>1, <3>2
  <2> QED
    BY <2>1, <2>2, <2>3
<1> HIDE DEF u, v, w, x, n, k, beside, through
<1>13. DOMAIN w = beside \cup through /\ w = [path \in DOMAIN w |-> w[path]]
  BY <1>7
<1>14. u[<<>>] = w[<<>>]
  <2> DEFINE old == v[<<>>]
             changed == w[<<>>]
  <2>1. old = [type |-> n.type, val |-> n.val, has |-> n.has]
    BY <1>2 DEF Content
  <2>2. changed = [old EXCEPT !.has = @ \cup {f}]
    BY <1>7, <1>11
  <2>3. u[<<>>] = [type |-> n.type, val |-> n.val, has |-> n.has \cup {f}]
    BY <1>3, <1>4 DEF Content
  <2> HIDE DEF old, changed
  <2>4. changed = [type |-> n.type, val |-> n.val, has |-> n.has \cup {f}]
    BY <2>1, <2>2
  <2> QED
    BY <2>3, <2>4 DEF changed
<1>15. ASSUME NEW g \in Subs, NEW s \in Seq(Subs)
       PROVE  /\ <<g>> \o s \in DOMAIN u <=> <<g>> \o s \in DOMAIN w
              /\ <<g>> \o s \in DOMAIN u => u[<<g>> \o s] = w[<<g>> \o s]
  <2> DEFINE path == <<g>> \o s
  <2>1. /\ path \in DOMAIN v <=> n.sub[g] # Null /\ s \in Paths(m, n.sub[g])
        /\ path \in DOMAIN v => v[path] = ValueIn(m, n.sub[g])[s]
        /\ path \in DOMAIN u <=> k.sub[g] # Null /\ s \in Paths(m, k.sub[g])
        /\ path \in DOMAIN u => u[path] = ValueIn(m, k.sub[g])[s]
    BY <1>2, <1>3
  <2>2. /\ path \in beside <=> path \in DOMAIN v /\ g # f
        /\ path \in through <=> g = f /\ s \in DOMAIN x
        /\ path # <<>> /\ Head(path) = g /\ Tail(path) = s
    BY <1>12
  <2> HIDE DEF path
  <2>3. path \in DOMAIN w => w[path] = IF g = f THEN x[s] ELSE v[path]
    BY <1>7, <1>13, <2>2
  <2>4. CASE g = f
    <3>1. path \in DOMAIN u <=> path \in DOMAIN w
      BY <1>4, <1>5, <1>6, <1>13, <2>1, <2>2, <2>4
    <3>2. path \in DOMAIN u => u[path] = x[s]
      BY <1>4, <2>1, <2>4 DEF x
    <3> QED
      BY <2>3, <2>4, <3>1, <3>2 DEF path
  <2>5. CASE g # f
    <3>1. path \in DOMAIN u <=> path \in DOMAIN w
      BY <1>4, <1>13, <2>1, <2>2, <2>5
    <3>2. path \in DOMAIN u => u[path] = v[path]
      BY <1>4, <2>1, <2>5
    <3> QED
      BY <2>3, <2>5, <3>1, <3>2 DEF path
  <2> QED
    BY <2>4, <2>5
<1>16. u = w
  <2>1. DOMAIN u \subseteq Seq(Subs) /\ DOMAIN w \subseteq Seq(Subs) /\ <<>> \in DOMAIN w
    BY <1>2, <1>3, <1>9, <1>10, <1>11, <1>13
  <2> QED
    BY <1>3, <1>8, <1>13, <1>14, <1>15, <2>1, SameParts
<1> QED
  BY <1>16 DEF u, v, w, x

----------------------------------------------------------------------------
(* The refinement: a state of JupbMessageLite is read as the values that     *)
(* following its pointers gives.                                             *)

\* Nobody ever writes to a default instance.
DefaultsStayEmpty == \A T \in Types : Root(T) \in DOMAIN mem /\ mem[Root(T)] = EmptyMessage(T, DefaultArena)

LEMMA InitDefaults ==
  ASSUME Init
  PROVE  DefaultsStayEmpty
<1>1. \A T \in Types : Root(T) \in DOMAIN mem /\ mem[Root(T)] = EmptyMessage(Root(T)[1], DefaultArena)
  BY DEF Init
<1> QED
  BY <1>1, RootFacts DEF DefaultsStayEmpty

LEMMA MemoryGrows ==
  ASSUME IInv, Next
  PROVE  DOMAIN mem \subseteq DOMAIN mem'
<1>1. ASSUME NEW b \in Builders, CopyOnWrite(b), NEW written,
             mem' = [CowMem(b) EXCEPT ![CowInstance(b).ptr] = written]
      PROVE  DOMAIN mem \subseteq DOMAIN mem'
  BY <1>1, CopyOnWriteEffect
<1>2. ASSUME NEW x \in handed, NEW a \in Arenas, NEW decoded \in SUBSET Fields,
             ParseFrom(x, a, decoded)
      PROVE  DOMAIN mem \subseteq DOMAIN mem'
  BY <1>2 DEF ParseFrom, Allocated
<1>3. CASE UNCHANGED mem
  BY <1>3
<1> QED
  BY <1>1, <1>2, <1>3
  DEF Next, GetMessage, NewBuilder, ToBuilder, BuilderGetMessage, Build, SetScalar, SetMessage

LEMMA DefaultsStep ==
  ASSUME IInv, DefaultsStayEmpty, Next
  PROVE  DefaultsStayEmpty'
<1> SUFFICES ASSUME NEW T \in Types
             PROVE  Root(T) \in DOMAIN mem' /\ mem'[Root(T)] = mem[Root(T)]
  BY DEF DefaultsStayEmpty, EmptyMessage, Root
<1>1. Root(T) \in DOMAIN mem
  BY DEF DefaultsStayEmpty
<1>2. ~ \E b \in Builders : Dirty(b) /\ Root(T) = DirtyPtr(b)
  <2>1. DefaultInstance(T) \in handed /\ DefaultInstance(T).ptr = Root(T)
    BY DEF IInv, BuildersConsistent, DefaultInstance
  <2> QED
    BY <2>1 DEF IInv, DirtyInstanceIsPrivate
<1> QED
  BY <1>1, <1>2, MemoryGrows, OnlyDirtyInstancesChange

\* The default instances that all programs share are never written to.
THEOREM DefaultsAreEmpty == Spec => []DefaultsStayEmpty
<1>1. Init => DefaultsStayEmpty
  BY InitDefaults
<1>2. IInv /\ DefaultsStayEmpty /\ [Next]_vars => DefaultsStayEmpty'
  <2>1. DefaultsStayEmpty /\ UNCHANGED vars => DefaultsStayEmpty'
    BY DEF DefaultsStayEmpty, vars
  <2> QED
    BY <2>1, DefaultsStep
<1> QED
  BY <1>1, <1>2, InductiveInvariant, PTL DEF Spec

\* What the refinement needs in a state of Spec.
RInv == IInv /\ DefaultsStayEmpty

LEMMA DefaultValue ==
  ASSUME RInv, NEW T \in Types
  PROVE  ValueIn(mem, Root(T)) = ValueSemantics!EmptyValue(T)
<1> DEFINE p == Root(T)
           v == ValueIn(mem, p)
           w == ValueSemantics!EmptyValue(T)
<1>1. WellTyped(mem) /\ p \in DOMAIN mem /\ mem[p] = EmptyMessage(T, DefaultArena)
  BY DEF RInv, IInv, TypeOK, DefaultsStayEmpty
<1>2. Content(mem[p]) = EmptyNode(T) /\ \A f \in Subs : mem[p].sub[f] = Null
  BY <1>1 DEF EmptyMessage, Content, EmptyNode
<1>3. /\ DOMAIN v = Paths(mem, p) /\ Paths(mem, p) \subseteq Seq(Subs)
      /\ <<>> \in DOMAIN v /\ v[<<>>] = EmptyNode(T)
      /\ \A f \in Subs, s \in Seq(Subs) : <<f>> \o s \notin DOMAIN v
  BY <1>1, <1>2, ValueParts
<1>4. w = [path \in {<<>>} |-> EmptyNode(T)]
  BY DEF ValueSemantics!EmptyValue
<1>5. \A path \in DOMAIN v : path = <<>>
  BY <1>3, FirstAndRest
<1>6. v = [path \in DOMAIN v |-> v[path]]
  BY DEF ValueIn
<1> HIDE DEF v, w
<1>7. DOMAIN v = {<<>>}
  BY <1>3, <1>5
<1> QED
  BY <1>3, <1>4, <1>6, <1>7 DEF v, w

\* The program gets message x, and the messages it had keep their values.
LEMMA GetsValue ==
  ASSUME NEW x, handed' = handed \cup {x},
         \A m \in handed : ValueIn(mem', m.ptr) = ValueIn(mem, m.ptr)
  PROVE  ValueSemantics!Gets(ValueIn(mem', x.ptr))
<1> DEFINE before == [m \in handed |-> ValueIn(mem, m.ptr)]
           after == [m \in handed' |-> ValueIn(mem', m.ptr)]
<1>1. ValueSemantics!Gets(ValueIn(mem', x.ptr)) <=>
        /\ \A w \in DOMAIN before : w \in DOMAIN after /\ after[w] = before[w]
        /\ \E w \in DOMAIN after : /\ DOMAIN after = DOMAIN before \cup {w}
                                   /\ after[w] = ValueIn(mem', x.ptr)
  BY DEF ValueSemantics!Gets
<1>2. \A w \in handed : w \in handed' /\ after[w] = before[w]
  OBVIOUS
<1>3. x \in handed' /\ after[x] = ValueIn(mem', x.ptr)
  OBVIOUS
<1> QED
  BY <1>1, <1>2, <1>3

HeldMessages == [m \in handed |-> ValueIn(mem, m.ptr)]
HeldValues == [b \in Builders |-> IF HasBuilder(b) THEN ValueIn(mem, builder[b].instance.ptr) ELSE NoValue]

LEMMA InitMaps ==
  ASSUME Init
  PROVE  ValueSemantics!Init
<1>1. RInv
  BY InitIInv, InitDefaults DEF RInv
<1>2. \A b \in Builders : ~HasBuilder(b)
  BY DEF Init, HasBuilder
<1>3. \A T \in Types : DefaultInstance(T) \in handed
                       /\ ValueIn(mem, DefaultInstance(T).ptr) = ValueSemantics!EmptyValue(T)
  BY <1>1, DefaultValue DEF Init, DefaultInstance
<1>4. \A w \in handed : \E T \in Types : w = DefaultInstance(T)
  BY DEF Init
<1>5. HeldValues = [b \in Builders |-> NoValue]
  BY <1>2 DEF HeldValues
<1> QED
  BY <1>3, <1>4, <1>5 DEF ValueSemantics!Init, HeldValues

\* copyOnWrite changes no value: what the builder is about to write to has the value
\* of its instance.
LEMMA CopyOnWriteValues ==
  ASSUME IInv, NEW b \in Builders, CopyOnWrite(b)
  PROVE  /\ \A p \in DOMAIN mem : ValueIn(CowMem(b), p) = ValueIn(mem, p)
         /\ ValueIn(CowMem(b), CowInstance(b).ptr) = ValueIn(mem, builder[b].instance.ptr)
<1> DEFINE src == builder[b].instance
<1>1. /\ src.ptr \in DOMAIN mem /\ WellTyped(mem)
      /\ builder[b] \in [arena : Arenas, instance : Message, isDirty : BOOLEAN]
  BY DEF CopyOnWrite, HasBuilder, IInv, TypeOK, DirtyPtr
<1>2. CASE builder[b].isDirty
  BY <1>2 DEF CowMem, CowInstance
<1>3. CASE ~builder[b].isDirty
  <2> DEFINE c == NextCall
             a == builder[b].arena
             new == DeepClone(src.ptr, c, a)
  <2>1. /\ c \in Calls /\ Unused(c) /\ a \in Arenas
        /\ CowMem(b) = Allocated(new)
        /\ CowInstance(b).ptr = Root(c)
    BY <1>1, <1>3, NextCallUnused DEF CopyOnWrite, CowMem, CowInstance
  <2> HIDE DEF c, a
  <2>2. NewTree(new, c, a, mem[src.ptr].type)
    BY <1>1, <2>1, CloneIsNewTree
  <2>3. ValueIn(new, Root(c)) = ValueIn(mem, src.ptr)
    BY <1>1, <2>1, CloneValue
  <2> HIDE DEF new, src
  <2>4. Extended(CowMem(b), new, c)
    BY <1>1, <2>1, <2>2, AllocatedExtends
  <2>5. /\ \A p \in DOMAIN mem : ValueIn(CowMem(b), p) = ValueIn(mem, p)
        /\ ValueIn(CowMem(b), Root(c)) = ValueIn(new, Root(c))
    BY <1>1, <2>1, <2>2, <2>4, ExtendedValues
  <2> QED
    BY <2>1, <2>3, <2>5 DEF src
<1> QED
  BY <1>2, <1>3

\* A setter changes the value of its own builder and of nothing else.
LEMMA SetterValues ==
  ASSUME IInv, IInv', NEW b \in Builders, CopyOnWrite(b), NEW written,
         mem' = [CowMem(b) EXCEPT ![CowInstance(b).ptr] = written], handed' = handed,
         \A f \in Subs : written.sub[f] \in
                           {CowMem(b)[CowInstance(b).ptr].sub[f]} \cup {h.ptr : h \in handed}
  PROVE  /\ Rewritten(CowMem(b), mem', CowInstance(b).ptr, written)
         /\ HeldValues[b] = ValueIn(CowMem(b), CowInstance(b).ptr) /\ HeldValues[b] # NoValue
         /\ HeldValues' = [HeldValues EXCEPT ![b] = ValueIn(mem', CowInstance(b).ptr)]
         /\ HeldMessages' = HeldMessages
         /\ \A h \in handed : h.ptr \in DOMAIN CowMem(b)
                              /\ ValueIn(CowMem(b), h.ptr) = HeldMessages[h]
<1> DEFINE m == CowMem(b)
           i == CowInstance(b)
<1>1. /\ HasBuilder(b)
      /\ builder' = [builder EXCEPT ![b] = [arena |-> builder[b].arena, instance |-> i,
                                            isDirty |-> TRUE]]
      /\ WellTyped(m)
      /\ \A p \in DOMAIN mem : p \in DOMAIN m
      /\ i \in Message /\ i.ptr \in DOMAIN m
      /\ \A h \in handed : h.ptr # i.ptr
      /\ \A p \in DOMAIN m, f \in Subs : m[p].sub[f] # i.ptr
      /\ \A d \in Builders \ {b} : HasBuilder(d) => DirtyPtr(d) # i.ptr
  BY CopyOnWriteEffect
<1>2. /\ \A p \in DOMAIN mem : ValueIn(m, p) = ValueIn(mem, p)
      /\ ValueIn(m, i.ptr) = ValueIn(mem, builder[b].instance.ptr)
  BY CopyOnWriteValues
<1>3. /\ WellTyped(mem) /\ WellTyped(mem')
      /\ \A h \in handed : h.ptr \in DOMAIN mem
      /\ \A d \in Builders : HasBuilder(d) => DirtyPtr(d) \in DOMAIN mem
      /\ builder \in [Builders -> [arena : Arenas, instance : Message, isDirty : BOOLEAN]
                                    \cup {NoBuilder}]
      /\ builder' \in [Builders -> [arena : Arenas, instance : Message, isDirty : BOOLEAN]
                                    \cup {NoBuilder}]
  BY DEF IInv, TypeOK
<1> HIDE DEF m, i
<1>4. Rewritten(m, mem', i.ptr, written)
  <2>1. DOMAIN mem' = DOMAIN m /\ mem'[i.ptr] = written /\ \A q \in DOMAIN m \ {i.ptr} : mem'[q] = m[q]
    BY <1>1 DEF m, i
  <2>2. \A f \in Subs : written.sub[f] \in (DOMAIN m \ {i.ptr}) \cup {Null}
    <3> TAKE f \in Subs
    <3>1. CASE written.sub[f] = m[i.ptr].sub[f]
      BY <1>1, <3>1 DEF WellTyped
    <3>2. CASE \E h \in handed : written.sub[f] = h.ptr
      BY <1>1, <1>3, <3>2
    <3> QED
      BY <3>1, <3>2 DEF m, i
  <2> QED
    BY <1>1, <1>3, <2>1, <2>2 DEF Rewritten
<1>5. \A q \in DOMAIN mem \ {i.ptr} : ValueIn(mem', q) = ValueIn(mem, q)
  BY <1>1, <1>2, <1>4, WriteFrame
<1>6. HeldMessages' = HeldMessages
  <2>1. \A h \in handed : ValueIn(mem', h.ptr) = ValueIn(mem, h.ptr)
    BY <1>1, <1>3, <1>5
  <2> QED
    BY <2>1 DEF HeldMessages
<1>7. HeldValues[b] = ValueIn(m, i.ptr) /\ HeldValues[b] # NoValue
  <2>1. HeldValues[b] = ValueIn(m, i.ptr)
    BY <1>1, <1>2 DEF HeldValues
  <2> QED
    BY <1>1, <2>1, ValueIsTree
<1>8. HeldValues' = [HeldValues EXCEPT ![b] = ValueIn(mem', i.ptr)]
  <2>1. /\ builder'[b] = [arena |-> builder[b].arena, instance |-> i, isDirty |-> TRUE]
        /\ \A d \in Builders \ {b} : builder'[d] = builder[d]
    BY <1>1, <1>3
  <2>2. builder'[b] # NoBuilder
    <3>1. builder[b].arena \in Arenas
      BY <1>1, <1>3 DEF HasBuilder
    <3>2. builder'[b] \in [arena : Arenas, instance : Message, isDirty : BOOLEAN]
      <4>1. i \in Message
        BY <1>1
      <4>2. [arena |-> builder[b].arena, instance |-> i, isDirty |-> TRUE]
              \in [arena : Arenas, instance : Message, isDirty : BOOLEAN]
        BY <3>1, <4>1
      <4> QED
        BY <2>1, <4>2
    <3> QED
      BY <3>2, NullAssumption DEF Message, Ptr
  <2>3. HeldValues'[b] = ValueIn(mem', i.ptr)
    BY <2>1, <2>2 DEF HeldValues, HasBuilder
  <2>4. ASSUME NEW d \in Builders \ {b}
        PROVE  HeldValues'[d] = HeldValues[d]
    <3>1. HasBuilder(d) => ValueIn(mem', builder[d].instance.ptr) = ValueIn(mem, builder[d].instance.ptr)
      BY <1>1, <1>3, <1>5 DEF DirtyPtr
    <3> QED
      BY <2>1, <3>1 DEF HeldValues, HasBuilder
  <2>5. /\ HeldValues = [d \in Builders |-> HeldValues[d]]
        /\ HeldValues' = [d \in Builders |-> HeldValues'[d]]
    BY DEF HeldValues
  <2> HIDE DEF HeldValues
  <2> QED
    BY <2>3, <2>4, <2>5
<1>9. \A h \in handed : h.ptr \in DOMAIN m /\ ValueIn(m, h.ptr) = HeldMessages[h]
  BY <1>1, <1>2, <1>3 DEF HeldMessages
<1> QED
  BY <1>4, <1>6, <1>7, <1>8, <1>9 DEF m, i

LEMMA SetScalarMaps ==
  ASSUME IInv, NEW b \in Builders, NEW f \in Scalars, NEW v \in Values, SetScalar(b, f, v)
  PROVE  ValueSemantics!SetScalar(b, f, v) /\ HeldMessages' = HeldMessages
<1> DEFINE m == CowMem(b)
           i == CowInstance(b)
           written == WithScalar(m[i.ptr], f, v)
<1>1. CopyOnWrite(b) /\ handed' = handed /\ mem' = [m EXCEPT ![i.ptr] = written] /\ IInv'
  BY SetScalarStep DEF SetScalar
<1>2. written.sub = m[i.ptr].sub
  <2>1. m[i.ptr] \in NativeMessage
    BY <1>1, CopyOnWriteEffect DEF WellTyped
  <2> QED
    BY <2>1 DEF NativeMessage, WithScalar
<1>3. /\ Rewritten(m, mem', i.ptr, written)
      /\ HeldValues[b] = ValueIn(m, i.ptr) /\ HeldValues[b] # NoValue
      /\ HeldValues' = [HeldValues EXCEPT ![b] = ValueIn(mem', i.ptr)]
      /\ HeldMessages' = HeldMessages
  BY <1>1, <1>2, SetterValues
<1>4. ValueIn(mem', i.ptr) = ValueSemantics!WithScalar(HeldValues[b], f, v)
  BY <1>3, ScalarWritten
<1>5. /\ HeldValues[b] # NoValue
      /\ HeldValues' = [HeldValues EXCEPT ![b] = ValueSemantics!WithScalar(@, f, v)]
      /\ HeldMessages' = HeldMessages
  BY <1>3, <1>4
<1> QED
  BY <1>5 DEF ValueSemantics!SetScalar, HeldValues, HeldMessages

LEMMA SetMessageMaps ==
  ASSUME IInv, NEW b \in Builders, NEW f \in Subs, NEW h \in handed, SetMessage(b, f, h)
  PROVE  ValueSemantics!SetMessage(b, f, h) /\ HeldMessages' = HeldMessages
<1> DEFINE m == CowMem(b)
           i == CowInstance(b)
           written == WithSub(m[i.ptr], f, h.ptr)
<1>1. CopyOnWrite(b) /\ handed' = handed /\ mem' = [m EXCEPT ![i.ptr] = written] /\ IInv'
  BY SetMessageStep DEF SetMessage
<1>2. \A g \in Subs : written.sub[g] \in {m[i.ptr].sub[g]} \cup {k.ptr : k \in handed}
  <2>1. m[i.ptr] \in NativeMessage
    BY <1>1, CopyOnWriteEffect DEF WellTyped
  <2>2. \A g \in Subs : written.sub[g] = m[i.ptr].sub[g] \/ written.sub[g] = h.ptr
    BY <2>1 DEF NativeMessage, WithSub
  <2> QED
    BY <2>2
<1> HIDE DEF written
<1>3. /\ Rewritten(m, mem', i.ptr, written)
      /\ HeldValues[b] = ValueIn(m, i.ptr) /\ HeldValues[b] # NoValue
      /\ HeldValues' = [HeldValues EXCEPT ![b] = ValueIn(mem', i.ptr)]
      /\ HeldMessages' = HeldMessages
      /\ h.ptr \in DOMAIN m /\ ValueIn(m, h.ptr) = HeldMessages[h]
  BY <1>1, <1>2, SetterValues
<1>4. ValueIn(mem', i.ptr) = ValueSemantics!WithSub(HeldValues[b], f, HeldMessages[h])
  BY <1>3, SubWritten DEF written
<1>5. /\ HeldValues[b] # NoValue
      /\ HeldValues' = [HeldValues EXCEPT ![b] = ValueSemantics!WithSub(@, f, HeldMessages[h])]
      /\ HeldMessages' = HeldMessages
  BY <1>3, <1>4
<1> QED
  BY <1>5 DEF ValueSemantics!SetMessage, HeldValues, HeldMessages

\* What the other operations keep: memory, and so every value.
LEMMA SameMemory ==
  ASSUME UNCHANGED mem
  PROVE  \A p : ValueIn(mem', p) = ValueIn(mem, p)
OBVIOUS

LEMMA GetMessageMaps ==
  ASSUME RInv, NEW x \in handed, NEW f \in Subs, GetMessage(x, f)
  PROVE  ValueSemantics!GetMessage(x, f) /\ HeldValues' = HeldValues
<1> DEFINE y == Submessage(x, f)
<1>1. handed' = handed \cup {y} /\ UNCHANGED <<mem, builder>>
  BY DEF GetMessage
<1>2. WellTyped(mem) /\ x.ptr \in DOMAIN mem
  BY DEF RInv, IInv, TypeOK
<1>3. ValueIn(mem, y.ptr) = ValueSemantics!SubmessageOf(ValueIn(mem, x.ptr), f)
  BY <1>2, SubmessageValue, DefaultValue, TypesAssumption DEF Submessage, DefaultInstance
<1> HIDE DEF y
<1>4. ValueSemantics!Gets(ValueIn(mem', y.ptr))
  BY <1>1, GetsValue
<1>5. ValueIn(mem', y.ptr) = ValueSemantics!SubmessageOf(HeldMessages[x], f)
  BY <1>1, <1>3 DEF HeldMessages
<1>6. HeldValues' = HeldValues
  BY <1>1 DEF HeldValues, HasBuilder
<1> QED
  BY <1>4, <1>5, <1>6 DEF ValueSemantics!GetMessage, HeldMessages, HeldValues

LEMMA BuilderGetMessageMaps ==
  ASSUME RInv, NEW b \in Builders, NEW f \in Subs, BuilderGetMessage(b, f)
  PROVE  ValueSemantics!BuilderGetMessage(b, f) /\ HeldValues' = HeldValues
<1> DEFINE x == builder[b].instance
           y == Submessage(x, f)
<1>1. handed' = handed \cup {y} /\ UNCHANGED <<mem, builder>> /\ HasBuilder(b)
  BY DEF BuilderGetMessage, HasBuilder
<1>2. WellTyped(mem) /\ x.ptr \in DOMAIN mem
  BY <1>1 DEF RInv, IInv, TypeOK, DirtyPtr
<1>3. ValueIn(mem, y.ptr) = ValueSemantics!SubmessageOf(ValueIn(mem, x.ptr), f)
  BY <1>2, SubmessageValue, DefaultValue, TypesAssumption DEF Submessage, DefaultInstance
<1>4. HeldValues[b] = ValueIn(mem, x.ptr) /\ HeldValues[b] # NoValue
  BY <1>1, <1>2, ValueIsTree DEF HeldValues
<1> HIDE DEF x, y
<1>5. ValueSemantics!Gets(ValueIn(mem', y.ptr))
  BY <1>1, GetsValue
<1>6. ValueIn(mem', y.ptr) = ValueSemantics!SubmessageOf(HeldValues[b], f)
  BY <1>1, <1>3, <1>4
<1>7. HeldValues' = HeldValues
  BY <1>1 DEF HeldValues, HasBuilder
<1> QED
  BY <1>4, <1>5, <1>6, <1>7 DEF ValueSemantics!BuilderGetMessage, HeldValues

LEMMA BuildMaps ==
  ASSUME RInv, NEW b \in Builders, Build(b)
  PROVE  ValueSemantics!Build(b) /\ HeldValues' = HeldValues
<1> DEFINE x == builder[b].instance
<1>1. /\ handed' = handed \cup {x} /\ UNCHANGED mem /\ HasBuilder(b)
      /\ builder' = [builder EXCEPT ![b].isDirty = FALSE]
  BY DEF Build, HasBuilder
<1>2. /\ WellTyped(mem) /\ x.ptr \in DOMAIN mem
      /\ builder[b] \in [arena : Arenas, instance : Message, isDirty : BOOLEAN]
      /\ builder \in [Builders -> [arena : Arenas, instance : Message, isDirty : BOOLEAN]
                                    \cup {NoBuilder}]
  BY <1>1 DEF RInv, IInv, TypeOK, DirtyPtr, HasBuilder
<1>3. HeldValues[b] = ValueIn(mem, x.ptr) /\ HeldValues[b] # NoValue
  BY <1>1, <1>2, ValueIsTree DEF HeldValues
<1>4. ValueSemantics!Gets(ValueIn(mem', x.ptr))
  BY <1>1, GetsValue
<1>5. \A d \in Builders : /\ (builder'[d] # NoBuilder <=> builder[d] # NoBuilder)
                          /\ builder[d] # NoBuilder => builder'[d].instance = builder[d].instance
  <2>1. /\ builder'[b] \in [arena : Arenas, instance : Message, isDirty : BOOLEAN]
        /\ builder'[b].instance = x
    BY <1>1, <1>2
  <2>2. builder'[b] # NoBuilder /\ builder[b] # NoBuilder
    BY <1>1, <2>1, NullAssumption DEF Message, Ptr, HasBuilder
  <2>3. \A d \in Builders \ {b} : builder'[d] = builder[d]
    BY <1>1, <1>2
  <2> QED
    BY <2>1, <2>2, <2>3
<1>6. HeldValues' = HeldValues
  BY <1>1, <1>5 DEF HeldValues, HasBuilder
<1> HIDE DEF x
<1>7. ValueSemantics!Gets(HeldValues[b])
  BY <1>1, <1>3, <1>4
<1> QED
  BY <1>3, <1>6, <1>7 DEF ValueSemantics!Build, HeldValues

LEMMA CleanBuilderMaps ==
  ASSUME RInv, NEW b \in Builders, NEW a \in Arenas, NEW x \in handed,
         builder' = [builder EXCEPT ![b] = [arena |-> a, instance |-> x, isDirty |-> FALSE]],
         UNCHANGED <<mem, handed>>
  PROVE  /\ HeldValues' = [HeldValues EXCEPT ![b] = ValueIn(mem, x.ptr)]
         /\ HeldMessages' = HeldMessages
<1>1. builder \in [Builders -> [arena : Arenas, instance : Message, isDirty : BOOLEAN]
                                 \cup {NoBuilder}] /\ x \in Message
  BY DEF RInv, IInv, TypeOK
<1>2. /\ builder'[b] = [arena |-> a, instance |-> x, isDirty |-> FALSE]
      /\ \A d \in Builders \ {b} : builder'[d] = builder[d]
  BY <1>1
<1>3. builder'[b] # NoBuilder
  <2>1. builder'[b] \in [arena : Arenas, instance : Message, isDirty : BOOLEAN]
    BY <1>1, <1>2
  <2> QED
    BY <2>1, NullAssumption DEF Message, Ptr
<1>4. HeldValues'[b] = ValueIn(mem, x.ptr) /\ \A d \in Builders \ {b} : HeldValues'[d] = HeldValues[d]
  BY <1>2, <1>3 DEF HeldValues, HasBuilder
<1>5. /\ HeldValues = [d \in Builders |-> HeldValues[d]]
      /\ HeldValues' = [d \in Builders |-> HeldValues'[d]]
      /\ HeldMessages' = HeldMessages
  BY DEF HeldValues, HeldMessages
<1> QED
  BY <1>4, <1>5

LEMMA NewBuilderMaps ==
  ASSUME RInv, NEW b \in Builders, NEW T \in Types, NEW a \in Arenas, NewBuilder(b, T, a)
  PROVE  ValueSemantics!NewBuilder(b, T) /\ HeldMessages' = HeldMessages
<1>1. DefaultInstance(T) \in handed /\ DefaultInstance(T).ptr = Root(T)
  BY DEF RInv, IInv, BuildersConsistent, DefaultInstance
<1>2. /\ HeldValues' = [HeldValues EXCEPT ![b] = ValueIn(mem, Root(T))]
      /\ HeldMessages' = HeldMessages
  BY <1>1, CleanBuilderMaps DEF NewBuilder
<1>3. HeldValues' = [HeldValues EXCEPT ![b] = ValueSemantics!EmptyValue(T)]
  BY <1>2, DefaultValue
<1> QED
  BY <1>2, <1>3 DEF ValueSemantics!NewBuilder, HeldValues, HeldMessages

LEMMA ToBuilderMaps ==
  ASSUME RInv, NEW b \in Builders, NEW x \in handed, NEW a \in Arenas, ToBuilder(b, x, a)
  PROVE  ValueSemantics!ToBuilder(b, x) /\ HeldMessages' = HeldMessages
<1>1. /\ HeldValues' = [HeldValues EXCEPT ![b] = ValueIn(mem, x.ptr)]
      /\ HeldMessages' = HeldMessages
  BY CleanBuilderMaps DEF ToBuilder
<1>2. HeldValues' = [HeldValues EXCEPT ![b] = HeldMessages[x]]
  BY <1>1 DEF HeldMessages
<1> QED
  BY <1>1, <1>2 DEF ValueSemantics!ToBuilder, HeldValues, HeldMessages

LEMMA ParseFromMaps ==
  ASSUME RInv, NEW x \in handed, NEW a \in Arenas, NEW decoded \in SUBSET Fields,
         ParseFrom(x, a, decoded)
  PROVE  /\ decoded \in SUBSET HeldMessages[x][<<>>].has /\ ValueSemantics!ParseFrom(x, decoded)
         /\ HeldValues' = HeldValues
<1> DEFINE c == NextCall
           new == Decoded(x.ptr, c, a, decoded)
           got == [ptr |-> Root(c), arena |-> a]
<1>1. /\ c \in Calls /\ Unused(c)
      /\ mem' = Allocated(new) /\ handed' = handed \cup {got}
      /\ UNCHANGED builder /\ decoded \in SUBSET mem[x.ptr].has
  BY NextCallUnused DEF ParseFrom
<1>2. /\ WellTyped(mem) /\ x.ptr \in DOMAIN mem
      /\ \A h \in handed : h.ptr \in DOMAIN mem
      /\ \A d \in Builders : HasBuilder(d) => builder[d].instance.ptr \in DOMAIN mem
  BY DEF RInv, IInv, TypeOK, DirtyPtr
<1> HIDE DEF c
<1>3. NewTree(new, c, a, mem[x.ptr].type)
  BY <1>1, <1>2, DecodedIsNewTree
<1>4. ValueIn(new, Root(c)) = ValueSemantics!Restrict(ValueIn(mem, x.ptr), decoded)
  BY <1>1, <1>2, DecodedValue
<1> HIDE DEF new
<1>5. Extended(mem', new, c)
  BY <1>1, <1>2, <1>3, AllocatedExtends
<1>6. /\ \A p \in DOMAIN mem : ValueIn(mem', p) = ValueIn(mem, p)
      /\ ValueIn(mem', Root(c)) = ValueIn(new, Root(c))
  BY <1>1, <1>2, <1>3, <1>5, ExtendedValues
<1>7. HeldMessages[x] = ValueIn(mem, x.ptr) /\ HeldMessages[x][<<>>].has = mem[x.ptr].has
  <2>1. ValueIn(mem, x.ptr)[<<>>] = Content(mem[x.ptr])
    BY <1>2, ValueParts
  <2> QED
    BY <2>1 DEF HeldMessages, Content
<1>8. ValueSemantics!Gets(ValueIn(mem', got.ptr))
  BY <1>1, <1>2, <1>6, GetsValue
<1>9. ValueIn(mem', got.ptr) = ValueSemantics!Restrict(HeldMessages[x], decoded)
  BY <1>4, <1>6, <1>7
<1>10. HeldValues' = HeldValues
  BY <1>1, <1>2, <1>6 DEF HeldValues, HasBuilder
<1> HIDE DEF got
<1> QED
  BY <1>1, <1>7, <1>8, <1>9, <1>10 DEF ValueSemantics!ParseFrom, HeldMessages, HeldValues

\* Every step maps to the step of the same name.
LEMMA NextMaps ==
  ASSUME RInv, Next
  PROVE  ValueSemantics!Next
<1>1. DOMAIN HeldMessages = handed
  BY DEF HeldMessages
<1>2. ValueSemantics!Next <=>
        \/ /\ HeldMessages' = HeldMessages
           /\ \E b \in Builders :
                \/ \E T \in Types : ValueSemantics!NewBuilder(b, T)
                \/ \E w \in handed : ValueSemantics!ToBuilder(b, w)
                \/ \E f \in Scalars, v \in Values : ValueSemantics!SetScalar(b, f, v)
                \/ \E f \in Subs, w \in handed : ValueSemantics!SetMessage(b, f, w)
        \/ /\ HeldValues' = HeldValues
           /\ \/ \E b \in Builders :
                   ValueSemantics!Build(b) \/ \E f \in Subs : ValueSemantics!BuilderGetMessage(b, f)
              \/ \E w \in handed :
                   \/ \E f \in Subs : ValueSemantics!GetMessage(w, f)
                   \/ \E decoded \in SUBSET HeldMessages[w][<<>>].has : ValueSemantics!ParseFrom(w, decoded)
  BY <1>1 DEF ValueSemantics!Next, HeldMessages, HeldValues
<1>3. IInv
  BY DEF RInv
<1>4. ASSUME NEW x \in handed, NEW f \in Subs, GetMessage(x, f)
      PROVE  ValueSemantics!Next
  BY <1>2, <1>4, GetMessageMaps
<1>5. ASSUME NEW x \in handed, NEW a \in Arenas, NEW decoded \in SUBSET Fields,
             ParseFrom(x, a, decoded)
      PROVE  ValueSemantics!Next
  BY <1>2, <1>5, ParseFromMaps
<1>6. ASSUME NEW b \in Builders, NEW T \in Types, NEW a \in Arenas, NewBuilder(b, T, a)
      PROVE  ValueSemantics!Next
  BY <1>2, <1>6, NewBuilderMaps
<1>7. ASSUME NEW b \in Builders, NEW x \in handed, NEW a \in Arenas, ToBuilder(b, x, a)
      PROVE  ValueSemantics!Next
  BY <1>2, <1>7, ToBuilderMaps
<1>8. ASSUME NEW b \in Builders, NEW f \in Scalars, NEW v \in Values, SetScalar(b, f, v)
      PROVE  ValueSemantics!Next
  BY <1>2, <1>3, <1>8, SetScalarMaps
<1>9. ASSUME NEW b \in Builders, NEW f \in Subs, NEW x \in handed, SetMessage(b, f, x)
      PROVE  ValueSemantics!Next
  BY <1>2, <1>3, <1>9, SetMessageMaps
<1>10. ASSUME NEW b \in Builders, NEW f \in Subs, BuilderGetMessage(b, f)
       PROVE  ValueSemantics!Next
  BY <1>2, <1>10, BuilderGetMessageMaps
<1>11. ASSUME NEW b \in Builders, Build(b)
       PROVE  ValueSemantics!Next
  BY <1>2, <1>11, BuildMaps
<1> QED
  BY <1>4, <1>5, <1>6, <1>7, <1>8, <1>9, <1>10, <1>11 DEF Next

\* Pointers, sharing and copying on write are invisible: what a program sees are values.
THEOREM ValueRefinement == Spec => ImplementsValueSemantics
<1>1. Init => ValueSemantics!Init
  BY InitMaps
<1>2. IInv /\ DefaultsStayEmpty /\ [Next]_vars => [ValueSemantics!Next]_(ValueSemantics!vars)
  <2>1. UNCHANGED vars => UNCHANGED ValueSemantics!vars
    BY DEF vars, ValueSemantics!vars, HasBuilder
  <2> QED
    BY <2>1, NextMaps DEF RInv
<1> QED
  BY <1>1, <1>2, InductiveInvariant, DefaultsAreEmpty, PTL
  DEF Spec, ImplementsValueSemantics, ValueSemantics!Spec
=============================================================================
