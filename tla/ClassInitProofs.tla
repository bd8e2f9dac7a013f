-------------------------- MODULE ClassInitProofs --------------------------
(***************************************************************************)
(* Proofs about ClassInit, for any number of threads and any classes,      *)
(* with FindClass initialising classes or not.                             *)
(*                                                                         *)
(* The argument: what is on a stack is ordered - the program, generated    *)
(* classes, the default arena's holder, Arena, Messages, JNI_OnLoad,       *)
(* Minitable - and a generated class is above another only when the other  *)
(* contains it.  So a class that a thread has used, and that is not of a   *)
(* lower kind than the routine the thread is in, is initialised, and with  *)
(* Arena initialised Messages is, and the library loaded.                  *)
(***************************************************************************)
EXTENDS ClassInit, WellFoundedInduction, TLAPS

\* What programs begin with: messages and arenas.
ArenaFirst == EntryPoints \subseteq Generated \cup {"Arena"}

\* Types contain themselves by a field of their own, not by way of other types.
NoMutualRecursion ==
  \E rank \in [Generated -> Nat] :
    \A T \in Generated : \A c \in Links(T) \ {T} : rank[c] < rank[T]

----------------------------------------------------------------------------
(* The inductive invariant.                                                *)

Names == Classes \cup {"JNI_OnLoad", "main", "run"}
StepSet == [op : {"use", "load", "register", "native", "deref", "start"},
            class : Classes \cup {"JNI_OnLoad"}]
Frame == [name : Names, steps : Seq(StepSet)]

Typed ==
  /\ status \in [Classes -> {"new", "initializing", "initialized", "erroneous"}]
  /\ owner \in [Classes -> AllThreads \cup {NoThread}]
  /\ library \in {"unloaded", "loading", "loaded"}
  /\ loader \in AllThreads \cup {NoThread}
  /\ registered \subseteq WithNatives
  /\ stack \in [AllThreads -> Seq(Frame)]

\* The class is initialised as far as thread t sees.
Seen(t, c) == status[c] = "initialized" \/ (status[c] = "initializing" /\ owner[c] = t)
LibrarySeen(t) == library = "loaded" \/ (library = "loading" /\ loader = t)

\* What a step of thread t leaves behind.
Past(t, s) ==
  /\ s.op = "use" => s.class \in Classes /\ Seen(t, s.class)
  /\ s.op = "load" => LibrarySeen(t)
  /\ s.op = "register" => s.class \in registered

Routines(n) ==
  IF n \in Classes THEN {Initializer(n)}
  ELSE CASE n = "JNI_OnLoad" -> {JNI_OnLoad}
         [] n = "main" -> {Entry(c) : c \in EntryPoints}
         [] n = "run" -> {<<Use("Arena")>>}

\* steps are those of routine r from the k-th on.
Rest(steps, r, k) ==
  /\ k \in 1..(Len(r) + 1)
  /\ Len(steps) = Len(r) + 1 - k
  /\ \A i \in 1..Len(steps) : steps[i] = r[k + i - 1]

\* A routine of the frame's name is at its k-th step, the ones before it are in B.
FrameOk(B, f) ==
  \E r \in Routines(f.name) : \E k \in 1..(Len(r) + 1) :
    Rest(f.steps, r, k) /\ \A i \in 1..(k - 1) : r[i] \in B

Behind(t) == {s \in StepSet : Past(t, s)}

Level(n) ==
  IF n \in Generated THEN 1
  ELSE CASE n = "DefaultInstanceArenaHolder" -> 2
         [] n = "Arena" -> 3
         [] n = "Messages" -> 4
         [] n = "JNI_OnLoad" -> 5
         [] n = "Minitable" -> 6
         [] OTHER -> 0

\* Routine m may be called, directly or not, by routine n.
Above(m, n) ==
  \/ Level(m) > Level(n)
  \/ m \in Generated /\ n \in Generated /\ m # n /\ Contains(n, m)

\* A stack, with what its thread has behind it.
StackOk(B, s) ==
  /\ \A i \in DOMAIN s : FrameOk(B, s[i])
  /\ \A i, j \in DOMAIN s : i < j => Above(s[i].name, s[j].name)

StacksOk == \A t \in AllThreads : StackOk(Behind(t), stack[t])

\* Whose stack a class, and the library, is on.
On(s) == {s[i].name : i \in DOMAIN s}
OnStack(t, n) == n \in On(stack[t])
Owned ==
  /\ \A t \in AllThreads : \A c \in Classes :
       OnStack(t, c) <=> status[c] = "initializing" /\ owner[c] = t
  /\ \A c \in Classes : status[c] = "initializing" => owner[c] \in AllThreads
  /\ \A t \in AllThreads : OnStack(t, "JNI_OnLoad") <=> library = "loading" /\ loader = t
  /\ library = "loading" => loader \in AllThreads

\* Arena, Messages, the library and Minitable, in their order.
InOrder ==
  /\ status["Arena"] = "initialized" => status["Messages"] = "initialized"
  /\ status["Messages"] = "initializing" =>
       status["Arena"] = "initializing" /\ owner["Arena"] = owner["Messages"]
  /\ status["Messages"] = "initialized" => library = "loaded"
  /\ library = "loading" =>
       status["Messages"] = "initializing" /\ owner["Messages"] = loader
  /\ library = "loaded" => registered = WithNatives
  /\ status["Minitable"] = "initializing" =>
       library = "loaded" \/ (library = "loading" /\ owner["Minitable"] = loader)
  /\ status["DefaultInstanceArenaHolder"] = "initializing" => status["Arena"] = "initialized"

\* The reaper only runs its loop, once Arena has started it.
ReaperRuns ==
  \A n \in Names : OnStack(Reaper, n) => n = "run" /\ status["Arena"] # "new"

FailuresExplained ==
  \A c \in Classes :
    status[c] = "erroneous" => c \in Generated /\ \E d \in Generated : Recursive(d) /\ Contains(c, d)

Inv == Typed /\ StacksOk /\ Owned /\ InOrder /\ ReaperRuns /\ FailuresExplained

----------------------------------------------------------------------------
(* The routines, step by step.                                             *)

\* A sequence of n members of S, and two of them one after the other: named, so that
\* the facts about them are all that a proof sees.
SeqOf(s, S, n) == s \in Seq(S) /\ n = Len(s)
Cat(s, u) == s \o u

LEMMA Concatenation ==
  ASSUME NEW S, NEW s, NEW u, NEW m \in Nat, NEW n \in Nat, SeqOf(s, S, m), SeqOf(u, S, n)
  PROVE  /\ SeqOf(Cat(s, u), S, m + n)
         /\ \A i \in 1..m : Cat(s, u)[i] = s[i]
         /\ \A i \in (m + 1)..(m + n) : Cat(s, u)[i] = u[i - m]
  BY DEF SeqOf, Cat

\* Classes, and the names that are not generated classes.
LEMMA NamesApart ==
  /\ "Arena" \notin Generated /\ "Messages" \notin Generated /\ "Minitable" \notin Generated
  /\ "DefaultInstanceArenaHolder" \notin Generated /\ "JNI_OnLoad" \notin Generated
  /\ "main" \notin Generated /\ "run" \notin Generated
  /\ Generated \subseteq Classes /\ WithNatives \subseteq Classes
  /\ "DefaultInstanceArenaHolder" \in Classes
  /\ "JNI_OnLoad" \notin Classes /\ "main" \notin Classes /\ "run" \notin Classes
  BY GeneratedAssumption DEF Classes, WithNatives

\* The initialiser of a generated class: first Arena, and the classes that it
\* dereferences are those of its fields, each used before.
LEMMA GeneratedRoutine ==
  ASSUME NEW T \in Generated
  PROVE  LET r == InitGenerated(T) IN
         /\ r \in Seq(StepSet)
         /\ Links(T) \subseteq Generated
         /\ \A i \in 1..Len(r) :
              /\ r[i].op \in {"use", "native", "deref"}
              /\ i = 1 => r[i] = Use("Arena")
              /\ r[i].op = "use" => r[i].class \in
                   {"Arena", "DefaultInstanceArenaHolder", "Minitable", "Messages"} \cup Links(T)
              /\ r[i].op = "native" => r[i].class \in {"Minitable", "Messages"}
              /\ r[i].op = "deref" =>
                   r[i].class \in Links(T) /\ \E j \in 1..(i - 1) : r[j] = Use(r[i].class)
<1> DEFINE A == GetDefaultInstanceArena
           U == Linked(T, Use)
           M == <<Use("Minitable")>>
           D == Linked(T, Deref)
           N == <<Native("Minitable"), Use("Messages"), Native("Messages")>>
           n == Len(LinksOf[T])
           r == InitGenerated(T)
<1>1. LinksOf[T] \in Seq(Generated) /\ n \in Nat
  BY LinksAssumption
<1>2. SeqOf(A, StepSet, 2) /\ A[1] = Use("Arena") /\ A[2] = Use("DefaultInstanceArenaHolder")
  BY NamesApart DEF GetDefaultInstanceArena, StepSet, Use, WithNatives, SeqOf
<1>3. SeqOf(M, StepSet, 1) /\ M[1] = Use("Minitable")
  BY NamesApart DEF StepSet, Use, WithNatives, SeqOf
<1>4. /\ SeqOf(N, StepSet, 3)
      /\ N[1] = Native("Minitable") /\ N[2] = Use("Messages") /\ N[3] = Native("Messages")
  BY NamesApart DEF StepSet, Use, Native, WithNatives, SeqOf
<1>5. \A i \in 1..n : LinksOf[T][i] \in Generated /\ LinksOf[T][i] \in Links(T)
  BY <1>1 DEF Links
<1>6. SeqOf(U, StepSet, n) /\ \A i \in 1..n : U[i] = Use(LinksOf[T][i])
  <2>1. \A i \in 1..n : Use(LinksOf[T][i]) \in StepSet
    BY <1>5, NamesApart DEF StepSet, Use
  <2> QED  BY <1>1, <2>1 DEF Linked, SeqOf
<1>7. SeqOf(D, StepSet, n) /\ \A i \in 1..n : D[i] = Deref(LinksOf[T][i])
  <2>1. \A i \in 1..n : Deref(LinksOf[T][i]) \in StepSet
    BY <1>5, NamesApart DEF StepSet, Deref
  <2> QED  BY <1>1, <2>1 DEF Linked, SeqOf
<1>8. r = Cat(Cat(Cat(Cat(Cat(A, U), M), D), A), N)
  BY DEF InitGenerated, Cat
<1> HIDE DEF A, U, M, D, N, r, n
<1> DEFINE AU == Cat(A, U)
           AUM == Cat(AU, M)
           AUMD == Cat(AUM, D)
           AUMDA == Cat(AUMD, A)
<1>a. /\ SeqOf(AU, StepSet, n + 2)
      /\ \A i \in 1..2 : AU[i] = A[i]
      /\ \A i \in 3..(n + 2) : AU[i] = U[i - 2]
  BY <1>1, <1>2, <1>6, Concatenation
<1> HIDE DEF AU
<1>b. /\ SeqOf(AUM, StepSet, n + 3)
      /\ \A i \in 1..(n + 2) : AUM[i] = AU[i]
      /\ \A i \in (n + 3)..(n + 3) : AUM[i] = M[i - (n + 2)]
  BY <1>1, <1>3, <1>a, Concatenation
<1> HIDE DEF AUM
<1>c. /\ SeqOf(AUMD, StepSet, 2 * n + 3)
      /\ \A i \in 1..(n + 3) : AUMD[i] = AUM[i]
      /\ \A i \in (n + 4)..(2 * n + 3) : AUMD[i] = D[i - (n + 3)]
  BY <1>1, <1>7, <1>b, Concatenation
<1> HIDE DEF AUMD
<1>d. /\ SeqOf(AUMDA, StepSet, 2 * n + 5)
      /\ \A i \in 1..(2 * n + 3) : AUMDA[i] = AUMD[i]
      /\ \A i \in (2 * n + 4)..(2 * n + 5) : AUMDA[i] = A[i - (2 * n + 3)]
  BY <1>1, <1>2, <1>c, Concatenation
<1>e. /\ SeqOf(r, StepSet, 2 * n + 8)
      /\ \A i \in 1..(2 * n + 5) : r[i] = AUMDA[i]
      /\ \A i \in (2 * n + 6)..(2 * n + 8) : r[i] = N[i - (2 * n + 5)]
  <2> HIDE DEF AUMDA
  <2>1. r = Cat(AUMDA, N)
    BY <1>8 DEF AUMDA, AUMD, AUM, AU
  <2> DEFINE m == 2 * n + 5
  <2>2. m \in Nat /\ m + 3 = 2 * n + 8 /\ m + 1 = 2 * n + 6
    BY <1>1
  <2>3. SeqOf(AUMDA, StepSet, m)
    BY <1>d
  <2> HIDE DEF m
  <2>4. /\ SeqOf(r, StepSet, m + 3)
        /\ \A i \in 1..m : r[i] = AUMDA[i]
        /\ \A i \in (m + 1)..(m + 3) : r[i] = N[i - m]
    BY <1>4, <2>1, <2>2, <2>3, Concatenation
  <2> QED  BY <2>2, <2>4 DEF m
<1> HIDE DEF AUMDA
<1>f. /\ \A i \in 1..2 : r[i] = A[i]
      /\ \A i \in 3..(n + 2) : r[i] = U[i - 2]
      /\ \A i \in (n + 3)..(n + 3) : r[i] = M[i - (n + 2)]
      /\ \A i \in (n + 4)..(2 * n + 3) : r[i] = D[i - (n + 3)]
      /\ \A i \in (2 * n + 4)..(2 * n + 5) : r[i] = A[i - (2 * n + 3)]
      /\ \A i \in (2 * n + 6)..(2 * n + 8) : r[i] = N[i - (2 * n + 5)]
  BY <1>1, <1>a, <1>b, <1>c, <1>d, <1>e
<1>g. r \in Seq(StepSet) /\ Len(r) = 2 * n + 8
  BY <1>e DEF SeqOf
<1>h. n \in Nat
  BY <1>1
<1>9. Links(T) \subseteq Generated
  BY <1>1 DEF Links
<1>10. ASSUME NEW i \in 1..(2 * n + 8)
       PROVE  /\ r[i].op \in {"use", "native", "deref"}
              /\ i = 1 => r[i] = Use("Arena")
              /\ r[i].op = "use" => r[i].class \in
                   {"Arena", "DefaultInstanceArenaHolder", "Minitable", "Messages"} \cup Links(T)
              /\ r[i].op = "native" => r[i].class \in {"Minitable", "Messages"}
              /\ r[i].op = "deref" =>
                   r[i].class \in Links(T) /\ \E j \in 1..(i - 1) : r[j] = Use(r[i].class)
  <2>1. CASE i \in 1..2
    BY <1>2, <1>f, <2>1 DEF Use
  <2>2. CASE i \in 3..(n + 2)
    <3> DEFINE m == i - 2
    <3>1. m \in 1..n /\ r[i] = U[m] /\ i # 1
      BY <1>h, <1>f, <2>2
    <3> HIDE DEF m
    <3>2. r[i] = Use(LinksOf[T][m]) /\ LinksOf[T][m] \in Links(T)
      BY <1>5, <1>6, <3>1
    <3> QED  BY <3>1, <3>2 DEF Use
  <2>3. CASE i = n + 3
    BY <1>h, <1>3, <1>f, <2>3 DEF Use
  <2>4. CASE i \in (n + 4)..(2 * n + 3)
    <3> DEFINE m == i - (n + 3)
    <3>1. m \in 1..n /\ r[i] = D[m]
      BY <1>h, <1>f, <2>4
    <3>2. r[i] = Deref(LinksOf[T][m]) /\ LinksOf[T][m] \in Links(T)
      BY <1>5, <1>7, <3>1
    <3>3. m + 2 \in 1..(i - 1) /\ r[m + 2] = Use(LinksOf[T][m])
      BY <1>h, <1>6, <1>f, <2>4, <3>1
    <3> HIDE DEF m
    <3>4. r[i].op = "deref" /\ r[i].class = LinksOf[T][m] /\ i # 1
      BY <1>h, <2>4, <3>2 DEF Deref
    <3> QED  BY <3>2, <3>3, <3>4
  <2>5. CASE i \in (2 * n + 4)..(2 * n + 5)
    <3>1. i - (2 * n + 3) \in 1..2 /\ r[i] = A[i - (2 * n + 3)]
      BY <1>h, <1>f, <2>5
    <3> QED  BY <1>h, <1>2, <2>5, <3>1 DEF Use
  <2>6. CASE i \in (2 * n + 6)..(2 * n + 8)
    <3>1. i - (2 * n + 5) \in 1..3 /\ i # 1
      BY <1>h, <2>6
    <3>2. r[i] = N[i - (2 * n + 5)]
      BY <1>f, <2>6
    <3> QED  BY <1>4, <3>1, <3>2 DEF Use, Native
  <2> QED  BY <1>h, <2>1, <2>2, <2>3, <2>4, <2>5, <2>6
<1> QED  BY <1>9, <1>10, <1>g DEF r

\* What is in two sequences is in the one after the other.
Elements(s, n) == {s[i] : i \in 1..n}

LEMMA ConcatenationElements ==
  ASSUME NEW S, NEW s, NEW u, NEW m \in Nat, NEW n \in Nat, SeqOf(s, S, m), SeqOf(u, S, n)
  PROVE  /\ SeqOf(Cat(s, u), S, m + n)
         /\ Elements(Cat(s, u), m + n) = Elements(s, m) \cup Elements(u, n)
<1> DEFINE c == Cat(s, u)
<1>1. /\ SeqOf(c, S, m + n)
      /\ \A i \in 1..m : c[i] = s[i]
      /\ \A i \in (m + 1)..(m + n) : c[i] = u[i - m]
  BY Concatenation
<1> HIDE DEF c
<1>2. ASSUME NEW i \in 1..(m + n)
      PROVE  c[i] \in Elements(s, m) \cup Elements(u, n)
  <2>1. CASE i \in 1..m
    BY <1>1, <2>1 DEF Elements
  <2>2. CASE i \in (m + 1)..(m + n)
    <3>1. i - m \in 1..n /\ c[i] = u[i - m]
      BY <1>1, <2>2
    <3> QED  BY <3>1 DEF Elements
  <2> QED  BY <2>1, <2>2
<1>3. ASSUME NEW i \in 1..m  PROVE  s[i] \in Elements(c, m + n)
  <2>1. i \in 1..(m + n) /\ c[i] = s[i]
    BY <1>1
  <2> QED  BY <2>1 DEF Elements
<1>4. ASSUME NEW i \in 1..n  PROVE  u[i] \in Elements(c, m + n)
  <2>1. m + i \in (m + 1)..(m + n) /\ m + i \in 1..(m + n) /\ (m + i) - m = i
    OBVIOUS
  <2>2. c[m + i] = u[(m + i) - m]
    BY <1>1, <2>1
  <2> QED  BY <2>1, <2>2 DEF Elements
<1>5. Elements(c, m + n) \subseteq Elements(s, m) \cup Elements(u, n)
  BY <1>2 DEF Elements
<1>6. Elements(s, m) \subseteq Elements(c, m + n) /\ Elements(u, n) \subseteq Elements(c, m + n)
  BY <1>3, <1>4 DEF Elements
<1> QED  BY <1>1, <1>5, <1>6 DEF c

\* JNI_OnLoad registers the natives of the three classes, and uses only these.
LEMMA OnLoadRoutine ==
  /\ JNI_OnLoad \in Seq(StepSet)
  /\ \A i \in 1..Len(JNI_OnLoad) :
       JNI_OnLoad[i].op \in {"use", "register"} /\ JNI_OnLoad[i].class \in WithNatives
  /\ \A c \in WithNatives : \E i \in 1..Len(JNI_OnLoad) : JNI_OnLoad[i] = Register(c)
<1> DEFINE f == IF FindClassInitializes THEN 1 ELSE 0
           F(c) == FindClass(c)
           R(c) == <<Register(c)>>
           Known == {Use(c) : c \in WithNatives} \cup {Register(c) : c \in WithNatives}
           N == 3 * f + 3
<1>1. f \in Nat
  OBVIOUS
<1>2. WithNatives = {"Arena", "Messages", "Minitable"} /\ WithNatives \subseteq Classes
  BY NamesApart DEF WithNatives
<1>3. ASSUME NEW c \in WithNatives
      PROVE  /\ SeqOf(F(c), StepSet, f) /\ Elements(F(c), f) \subseteq Known
             /\ SeqOf(R(c), StepSet, 1) /\ Elements(R(c), 1) = {Register(c)}
  <2>1. Use(c) \in StepSet /\ Register(c) \in StepSet
    BY <1>2 DEF StepSet, Use, Register
  <2>2. SeqOf(R(c), StepSet, 1) /\ Elements(R(c), 1) = {Register(c)}
    BY <2>1 DEF SeqOf, Elements
  <2>3. CASE FindClassInitializes
    <3>1. F(c) = <<Use(c)>> /\ f = 1
      BY <2>3 DEF FindClass
    <3>2. SeqOf(<<Use(c)>>, StepSet, 1) /\ Elements(<<Use(c)>>, 1) = {Use(c)}
      BY <2>1 DEF SeqOf, Elements
    <3> QED  BY <2>2, <3>1, <3>2
  <2>4. CASE ~FindClassInitializes
    <3>1. F(c) = <<>> /\ f = 0
      BY <2>4 DEF FindClass
    <3>2. SeqOf(<<>>, StepSet, 0) /\ Elements(<<>>, 0) = {}
      BY DEF SeqOf, Elements
    <3> QED  BY <2>2, <3>1, <3>2
  <2> QED  BY <2>3, <2>4
<1>4. JNI_OnLoad = Cat(Cat(Cat(Cat(Cat(F("Arena"), R("Arena")), F("Messages")), R("Messages")),
                           F("Minitable")), R("Minitable"))
  BY DEF JNI_OnLoad, Cat
<1> HIDE DEF F, R, f, Known
<1> DEFINE A == Cat(F("Arena"), R("Arena"))
           B == Cat(Cat(A, F("Messages")), R("Messages"))
<1>5. SeqOf(A, StepSet, f + 1) /\ Elements(A, f + 1) = Elements(F("Arena"), f) \cup {Register("Arena")}
  BY <1>1, <1>2, <1>3, ConcatenationElements
<1> HIDE DEF A
<1>6. /\ SeqOf(Cat(A, F("Messages")), StepSet, f + 1 + f)
      /\ Elements(Cat(A, F("Messages")), f + 1 + f) = Elements(A, f + 1) \cup Elements(F("Messages"), f)
  BY <1>1, <1>2, <1>3, <1>5, ConcatenationElements
<1>7. /\ SeqOf(B, StepSet, f + 1 + f + 1)
      /\ Elements(B, f + 1 + f + 1) =
           Elements(A, f + 1) \cup Elements(F("Messages"), f) \cup {Register("Messages")}
  BY <1>1, <1>2, <1>3, <1>6, ConcatenationElements
<1> HIDE DEF B
<1>8. /\ SeqOf(Cat(B, F("Minitable")), StepSet, f + 1 + f + 1 + f)
      /\ Elements(Cat(B, F("Minitable")), f + 1 + f + 1 + f) =
           Elements(B, f + 1 + f + 1) \cup Elements(F("Minitable"), f)
  BY <1>1, <1>2, <1>3, <1>7, ConcatenationElements
<1> DEFINE n == f + 1 + f + 1 + f + 1
<1>9. SeqOf(JNI_OnLoad, StepSet, n) /\ n \in Nat
      /\ Elements(JNI_OnLoad, n) =
           Elements(B, f + 1 + f + 1) \cup Elements(F("Minitable"), f) \cup {Register("Minitable")}
  <2>1. JNI_OnLoad = Cat(Cat(B, F("Minitable")), R("Minitable"))
    BY <1>4 DEF B, A
  <2>2. n \in Nat /\ f + 1 + f + 1 + f \in Nat
    BY <1>1
  <2> QED  BY <1>2, <1>3, <1>8, <2>1, <2>2, ConcatenationElements
<1> HIDE DEF n
<1>10. /\ Elements(JNI_OnLoad, n) \subseteq Known
       /\ \A c \in WithNatives : Register(c) \in Elements(JNI_OnLoad, n)
  <2>1. \A c \in WithNatives : Register(c) \in Known /\ Elements(F(c), f) \subseteq Known
    BY <1>3 DEF Known
  <2> QED  BY <1>2, <1>5, <1>7, <1>9, <2>1
<1>11. JNI_OnLoad \in Seq(StepSet) /\ Len(JNI_OnLoad) = n
  BY <1>9 DEF SeqOf
<1>12. \A s \in Known : s.op \in {"use", "register"} /\ s.class \in WithNatives
  BY DEF Known, Use, Register
<1>13. ASSUME NEW i \in 1..n  PROVE  JNI_OnLoad[i] \in Known
  BY <1>10 DEF Elements
<1>14. ASSUME NEW c \in WithNatives  PROVE  \E i \in 1..n : JNI_OnLoad[i] = Register(c)
  BY <1>10 DEF Elements
<1> QED  BY <1>11, <1>12, <1>13, <1>14

\* The other routines.
LEMMA ShortRoutines ==
  /\ LET r == Initializer("Arena") IN
       /\ r \in Seq(StepSet) /\ Len(r) = 3
       /\ r[1] = Use("Messages") /\ r[2] = LoadLibrary /\ r[3] = StartReaper
  /\ LET r == Initializer("Messages") IN
       r \in Seq(StepSet) /\ Len(r) = 2 /\ r[1] = LoadLibrary /\ r[2] = Native("Messages")
  /\ LET r == Initializer("Minitable") IN
       r \in Seq(StepSet) /\ Len(r) = 1 /\ r[1] = LoadLibrary
  /\ LET r == Initializer("DefaultInstanceArenaHolder") IN
       r \in Seq(StepSet) /\ Len(r) = 2 /\ r[1] = Use("Arena") /\ r[2] = Native("Arena")
  /\ LET r == Entry("Arena") IN
       r \in Seq(StepSet) /\ Len(r) = 2 /\ r[1] = Use("Arena") /\ r[2] = Native("Arena")
  /\ LET r == <<Use("Arena")>> IN
       r \in Seq(StepSet) /\ Len(r) = 1 /\ r[1] = Use("Arena")
<1>1. \A c \in WithNatives : Use(c) \in StepSet /\ Native(c) \in StepSet
  BY NamesApart DEF StepSet, Use, Native
<1>2. LoadLibrary \in StepSet /\ StartReaper \in StepSet
  BY NamesApart DEF StepSet, LoadLibrary, StartReaper, WithNatives
<1>3. Initializer("Arena") = <<Use("Messages"), LoadLibrary, StartReaper>>
  BY NamesApart DEF Initializer
<1>4. Initializer("Messages") = <<LoadLibrary, Native("Messages")>>
  BY NamesApart DEF Initializer
<1>5. Initializer("Minitable") = <<LoadLibrary>>
  BY NamesApart DEF Initializer
<1>6. Initializer("DefaultInstanceArenaHolder") = <<Use("Arena"), Native("Arena")>>
  BY NamesApart DEF Initializer
<1>7. Entry("Arena") = <<Use("Arena"), Native("Arena")>>
  BY NamesApart DEF Entry
<1>8. \A a, b, c \in StepSet :
        /\ <<a, b, c>> \in Seq(StepSet) /\ Len(<<a, b, c>>) = 3
        /\ <<a, b>> \in Seq(StepSet) /\ Len(<<a, b>>) = 2
        /\ <<a>> \in Seq(StepSet) /\ Len(<<a>>) = 1
  OBVIOUS
<1>9. \A c \in {"Arena", "Messages"} : Use(c) \in StepSet /\ Native(c) \in StepSet
  BY <1>1 DEF WithNatives
<1> HIDE DEF StepSet
<1>a. LET r == <<Use("Messages"), LoadLibrary, StartReaper>> IN
      /\ r \in Seq(StepSet) /\ Len(r) = 3
      /\ r[1] = Use("Messages") /\ r[2] = LoadLibrary /\ r[3] = StartReaper
  <2>1. Use("Messages") \in StepSet
    BY <1>9
  <2> QED  BY <1>2, <1>8, <2>1
<1>b. LET r == <<LoadLibrary, Native("Messages")>> IN
      r \in Seq(StepSet) /\ Len(r) = 2 /\ r[1] = LoadLibrary /\ r[2] = Native("Messages")
  BY <1>2, <1>8, <1>9
<1>c. LET r == <<LoadLibrary>> IN
      r \in Seq(StepSet) /\ Len(r) = 1 /\ r[1] = LoadLibrary
  BY <1>2, <1>8
<1>d. LET r == <<Use("Arena"), Native("Arena")>> IN
      r \in Seq(StepSet) /\ Len(r) = 2 /\ r[1] = Use("Arena") /\ r[2] = Native("Arena")
  BY <1>8, <1>9
<1>e. LET r == <<Use("Arena")>> IN
      r \in Seq(StepSet) /\ Len(r) = 1 /\ r[1] = Use("Arena")
  BY <1>8, <1>9
<1> QED  BY <1>a, <1>b, <1>c, <1>d, <1>e, <1>3, <1>4, <1>5, <1>6, <1>7

LEMMA EntryRoutine ==
  ASSUME NEW T \in Generated
  PROVE  LET r == Entry(T) IN
         r \in Seq(StepSet) /\ Len(r) = 2 /\ r[1] = Use(T) /\ r[2] = Deref(T)
<1>1. Use(T) \in StepSet /\ Deref(T) \in StepSet
  BY NamesApart DEF StepSet, Use, Deref
<1>2. Entry(T) = <<Use(T), Deref(T)>>
  BY NamesApart DEF Entry
<1> QED  BY <1>1, <1>2

----------------------------------------------------------------------------
(* Where a routine can be.                                                 *)

GeneratedAt(t, T, s) ==
  \/ /\ s.op = "use"
     /\ s.class \in {"Arena", "DefaultInstanceArenaHolder", "Minitable", "Messages"} \cup Links(T)
  \/ s.op = "native" /\ s.class \in {"Minitable", "Messages"}
  \/ s.op = "deref" /\ s.class \in Links(T) /\ Seen(t, s.class)

MayBeAt(t, n, s) ==
  \/ n \in Generated /\ s = Use("Arena")
  \/ n \in Generated /\ Seen(t, "Arena") /\ GeneratedAt(t, n, s)
  \/ n = "Arena" /\ s = Use("Messages")
  \/ n = "Arena" /\ Seen(t, "Messages") /\ s \in {LoadLibrary, StartReaper}
  \/ n \in {"Messages", "Minitable"} /\ s = LoadLibrary
  \/ n = "Messages" /\ LibrarySeen(t) /\ s = Native("Messages")
  \/ n \in {"DefaultInstanceArenaHolder", "main", "run"} /\ s = Use("Arena")
  \/ n \in {"DefaultInstanceArenaHolder", "main"} /\ Seen(t, "Arena") /\ s = Native("Arena")
  \/ n = "JNI_OnLoad" /\ s.op \in {"use", "register"} /\ s.class \in WithNatives
  \/ n = "main" /\ \E c \in Generated : s = Use(c) \/ (Seen(t, c) /\ s = Deref(c))

MayEnd(t, n) ==
  /\ n = "Arena" => Seen(t, "Messages")
  /\ n = "Messages" => LibrarySeen(t)
  /\ n = "JNI_OnLoad" => WithNatives \subseteq registered

\* Every routine's steps are sequences of steps.
LEMMA RoutineTyped ==
  ASSUME ArenaFirst, NEW n \in Names, NEW r \in Routines(n)
  PROVE  r \in Seq(StepSet)
<1>1. CASE n \in Generated
  <2>1. r = InitGenerated(n)
    BY <1>1, NamesApart DEF Routines, Initializer
  <2> QED  BY <1>1, <2>1, GeneratedRoutine
<1>2. CASE n \in WithNatives \cup {"DefaultInstanceArenaHolder"}
  <2>1. r = Initializer(n)
    BY <1>2, NamesApart DEF Routines
  <2> QED  BY <1>2, <2>1, ShortRoutines DEF WithNatives
<1>3. CASE n = "JNI_OnLoad"
  BY <1>3, NamesApart, OnLoadRoutine DEF Routines
<1>4. CASE n = "main"
  <2>1. PICK c \in EntryPoints : r = Entry(c)
    BY <1>4, NamesApart DEF Routines
  <2>2. c \in Generated \/ c = "Arena"
    BY DEF ArenaFirst
  <2> QED  BY <2>1, <2>2, ShortRoutines, EntryRoutine
<1>5. CASE n = "run"
  <2>1. r = <<Use("Arena")>>
    BY <1>5, NamesApart DEF Routines
  <2> QED  BY <2>1, ShortRoutines
<1> QED  BY <1>1, <1>2, <1>3, <1>4, <1>5 DEF Names, Classes

\* A routine is at one of its steps, with what comes before done; or at its end.
LEMMA AtStep ==
  ASSUME ArenaFirst, NEW t, NEW n \in Names, NEW r \in Routines(n),
         NEW k \in 1..(Len(r) + 1), \A i \in 1..(k - 1) : Past(t, r[i])
  PROVE  /\ k \in 1..Len(r) => r[k] \in StepSet /\ MayBeAt(t, n, r[k])
         /\ k = Len(r) + 1 => MayEnd(t, n)
<1>1. r \in Seq(StepSet)
  BY RoutineTyped
<1>2. k \in 1..Len(r) => r[k] \in StepSet
  BY <1>1
<1>3. CASE n \in Generated
  <2>1. r = InitGenerated(n)
    BY <1>3, NamesApart DEF Routines, Initializer
  <2>2. MayEnd(t, n)
    BY <1>3, NamesApart DEF MayEnd
  <2>3. ASSUME k \in 1..Len(r)  PROVE  MayBeAt(t, n, r[k])
    <3>1. CASE k = 1
      BY <1>3, <2>1, <2>3, <3>1, GeneratedRoutine DEF MayBeAt
    <3>2. CASE k # 1
      <4>1. 1 \in 1..(k - 1) /\ 1 \in 1..Len(r)
        BY <2>3, <3>2
      <4>2. r[1] = Use("Arena")
        BY <1>3, <2>1, <4>1, GeneratedRoutine
      <4>3. Seen(t, "Arena")
        BY <4>1, <4>2 DEF Past, Use
      <4>4. r[k].op = "deref" => r[k].class \in Links(n) /\ Seen(t, r[k].class)
        <5>1. ASSUME r[k].op = "deref"
              PROVE  r[k].class \in Links(n) /\ \E j \in 1..(k - 1) : r[j] = Use(r[k].class)
          BY <1>3, <2>1, <2>3, <5>1, GeneratedRoutine
        <5> QED  BY <5>1 DEF Past, Use
      <4>5. GeneratedAt(t, n, r[k])
        BY <1>3, <2>1, <2>3, <4>4, GeneratedRoutine DEF GeneratedAt
      <4> QED  BY <1>3, <4>3, <4>5 DEF MayBeAt
    <3> QED  BY <3>1, <3>2
  <2> QED  BY <1>2, <2>2, <2>3
<1>4. CASE n = "Arena"
  <2>1. Len(r) = 3 /\ r[1] = Use("Messages") /\ r[2] = LoadLibrary /\ r[3] = StartReaper
    BY <1>4, NamesApart, ShortRoutines DEF Routines, WithNatives
  <2>2. k > 1 => Seen(t, "Messages")
    BY <2>1 DEF Past, Use
  <2>3. k \in {1, 2, 3, 4}
    BY <2>1
  <2> QED  BY <1>2, <1>4, <2>1, <2>2, <2>3 DEF MayBeAt, MayEnd
<1>5. CASE n = "Messages"
  <2>1. Len(r) = 2 /\ r[1] = LoadLibrary /\ r[2] = Native("Messages")
    BY <1>5, NamesApart, ShortRoutines DEF Routines, WithNatives
  <2>2. k > 1 => LibrarySeen(t)
    BY <2>1 DEF Past, LoadLibrary
  <2>3. k \in {1, 2, 3}
    BY <2>1
  <2> QED  BY <1>2, <1>5, <2>1, <2>2, <2>3 DEF MayBeAt, MayEnd
<1>6. CASE n = "Minitable"
  <2>1. Len(r) = 1 /\ r[1] = LoadLibrary
    BY <1>6, NamesApart, ShortRoutines DEF Routines, WithNatives
  <2> QED  BY <1>2, <1>6, <2>1 DEF MayBeAt, MayEnd
<1>7. ASSUME n \in {"DefaultInstanceArenaHolder", "main"},
             Len(r) = 2, r[1] = Use("Arena"), r[2] = Native("Arena")
      PROVE  /\ k \in 1..Len(r) => MayBeAt(t, n, r[k])
             /\ k = Len(r) + 1 => MayEnd(t, n)
  <2>1. k > 1 => Seen(t, "Arena")
    BY <1>7 DEF Past, Use
  <2>2. k \in {1, 2, 3}
    BY <1>7
  <2> QED  BY <1>7, <2>1, <2>2 DEF MayBeAt, MayEnd
<1>8. CASE n = "DefaultInstanceArenaHolder"
  <2>1. Len(r) = 2 /\ r[1] = Use("Arena") /\ r[2] = Native("Arena")
    BY <1>8, NamesApart, ShortRoutines DEF Routines
  <2> QED  BY <1>2, <1>7, <1>8, <2>1
<1>9. CASE n = "main"
  <2>1. PICK c \in EntryPoints : r = Entry(c)
    BY <1>9, NamesApart DEF Routines
  <2>2. CASE c = "Arena"
    BY <1>2, <1>7, <1>9, <2>1, <2>2, ShortRoutines
  <2>3. CASE c \in Generated
    <3>1. Len(r) = 2 /\ r[1] = Use(c) /\ r[2] = Deref(c)
      BY <2>1, <2>3, EntryRoutine
    <3>2. k > 1 => Seen(t, c)
      BY <3>1 DEF Past, Use
    <3>3. k \in {1, 2, 3}
      BY <3>1
    <3>4. MayEnd(t, n)
      BY <1>9 DEF MayEnd
    <3> QED  BY <1>2, <1>9, <2>3, <3>1, <3>2, <3>3, <3>4 DEF MayBeAt
  <2> QED  BY <2>2, <2>3 DEF ArenaFirst
<1>10. CASE n = "JNI_OnLoad"
  <2>1. r = JNI_OnLoad
    BY <1>10, NamesApart DEF Routines
  <2>2. k \in 1..Len(r) => MayBeAt(t, n, r[k])
    BY <1>10, <2>1, OnLoadRoutine DEF MayBeAt
  <2>3. ASSUME k = Len(r) + 1, NEW c \in WithNatives  PROVE  c \in registered
    <3>1. PICK i \in 1..Len(r) : r[i] = Register(c)
      BY <2>1, OnLoadRoutine
    <3>2. i \in 1..(k - 1)
      BY <2>3
    <3> QED  BY <3>1, <3>2 DEF Past, Register
  <2> QED  BY <1>2, <1>10, <2>2, <2>3 DEF MayEnd
<1>11. CASE n = "run"
  <2>1. r = <<Use("Arena")>>
    BY <1>11, NamesApart DEF Routines
  <2>2. Len(r) = 1 /\ r[1] = Use("Arena")
    BY <2>1, ShortRoutines
  <2> QED  BY <1>2, <1>11, <2>2 DEF MayBeAt, MayEnd
<1> QED  BY <1>3, <1>4, <1>5, <1>6, <1>8, <1>9, <1>10, <1>11 DEF Names, Classes, WithNatives

----------------------------------------------------------------------------
(* What actions do to the stacks.                                          *)

LEMMA FrameStays ==
  ASSUME NEW B, NEW C, B \subseteq C, NEW f, FrameOk(B, f)
  PROVE  FrameOk(C, f)
  BY DEF FrameOk

LEMMA FrameBegins ==
  ASSUME ArenaFirst, NEW B, NEW n \in Names, NEW r \in Routines(n)
  PROVE  LET f == [name |-> n, steps |-> r] IN f \in Frame /\ FrameOk(B, f)
<1>1. r \in Seq(StepSet)
  BY RoutineTyped
<1>2. Rest(r, r, 1) /\ 1 \in 1..(Len(r) + 1)
  BY <1>1 DEF Rest
<1> QED  BY <1>1, <1>2 DEF FrameOk, Frame

LEMMA FrameAdvances ==
  ASSUME ArenaFirst, NEW B, NEW C, B \subseteq C, NEW f \in Frame, FrameOk(B, f),
         f.steps # <<>>, Head(f.steps) \in C
  PROVE  LET g == [f EXCEPT !.steps = Tail(@)] IN g \in Frame /\ g.name = f.name /\ FrameOk(C, g)
<1> DEFINE g == [f EXCEPT !.steps = Tail(@)]
<1>1. f.steps \in Seq(StepSet) /\ f.name \in Names
  BY DEF Frame
<1>p. PICK r \in Routines(f.name) : \E k \in 1..(Len(r) + 1) :
        Rest(f.steps, r, k) /\ \A i \in 1..(k - 1) : r[i] \in B
  BY DEF FrameOk
<1>2. PICK k \in 1..(Len(r) + 1) : Rest(f.steps, r, k) /\ \A i \in 1..(k - 1) : r[i] \in B
  BY <1>p
<1>3. r \in Seq(StepSet)
  BY <1>1, <1>2, RoutineTyped
<1>4. /\ Len(f.steps) > 0 /\ Len(Tail(f.steps)) = Len(f.steps) - 1 /\ Len(f.steps) \in Nat
      /\ Tail(f.steps) \in Seq(StepSet) /\ Head(f.steps) = f.steps[1]
      /\ \A i \in 1..(Len(f.steps) - 1) : Tail(f.steps)[i] = f.steps[i + 1]
  BY <1>1
<1>5. Rest(Tail(f.steps), r, k + 1)
  <2>1. k + 1 \in 1..(Len(r) + 1) /\ Len(Tail(f.steps)) = Len(r) + 1 - (k + 1)
    BY <1>2, <1>3, <1>4 DEF Rest
  <2>2. ASSUME NEW i \in 1..Len(Tail(f.steps))
        PROVE  Tail(f.steps)[i] = r[(k + 1) + i - 1]
    <3>1. i + 1 \in 1..Len(f.steps) /\ Tail(f.steps)[i] = f.steps[i + 1]
      BY <1>4
    <3>2. f.steps[i + 1] = r[k + (i + 1) - 1]
      BY <1>2, <3>1 DEF Rest
    <3>3. k + (i + 1) - 1 = (k + 1) + i - 1
      BY <1>3, <1>4
    <3> QED  BY <3>1, <3>2, <3>3
  <2> QED  BY <2>1, <2>2 DEF Rest
<1>6. Head(f.steps) = r[k]
  <2>1. 1 \in 1..Len(f.steps) /\ k + 1 - 1 = k
    BY <1>3, <1>4
  <2> QED  BY <1>2, <1>4, <2>1 DEF Rest
<1>7. \A i \in 1..((k + 1) - 1) : r[i] \in C
  BY <1>2, <1>3, <1>6
<1>8. g \in Frame /\ g.name = f.name /\ g.steps = Tail(f.steps)
  BY <1>4 DEF Frame
<1>9. k + 1 \in 1..(Len(r) + 1)
  BY <1>5 DEF Rest
<1> HIDE DEF g
<1>10. FrameOk(C, g)
  BY <1>2, <1>5, <1>7, <1>8, <1>9 DEF FrameOk
<1> QED  BY <1>8, <1>10 DEF g


LEMMA StackStays ==
  ASSUME NEW B, NEW C, B \subseteq C, NEW s, StackOk(B, s)
  PROVE  StackOk(C, s)
  BY FrameStays DEF StackOk

\* A stack of no routine, and of one.
LEMMA StackBegins ==
  ASSUME ArenaFirst, NEW B, NEW n \in Names, NEW r \in Routines(n)
  PROVE  LET s == <<[name |-> n, steps |-> r]>> IN
         /\ s \in Seq(Frame) /\ StackOk(B, s) /\ On(s) = {n}
         /\ <<>> \in Seq(Frame) /\ StackOk(B, <<>>) /\ On(<<>>) = {}
<1> DEFINE f == [name |-> n, steps |-> r]
<1>1. f \in Frame /\ FrameOk(B, f) /\ f.name = n
  BY FrameBegins
<1> HIDE DEF f
<1>2. <<f>> \in Seq(Frame) /\ DOMAIN <<f>> = {1} /\ <<f>>[1] = f
  BY <1>1
<1>3. StackOk(B, <<f>>) /\ On(<<f>>) = {n}
  BY <1>1, <1>2 DEF StackOk, On
<1>4. <<>> \in Seq(Frame) /\ StackOk(B, <<>>) /\ On(<<>>) = {}
  BY DEF StackOk, On
<1> QED  BY <1>2, <1>3, <1>4 DEF f

\* A stack whose innermost routine takes a step.
LEMMA StackAdvances ==
  ASSUME ArenaFirst, NEW B, NEW C, B \subseteq C, NEW s \in Seq(Frame), StackOk(B, s),
         s # <<>>, s[1].steps # <<>>, Head(s[1].steps) \in C
  PROVE  LET p == [s EXCEPT ![1].steps = Tail(@)] IN
         p \in Seq(Frame) /\ StackOk(C, p) /\ On(p) = On(s)
<1> DEFINE f == s[1]
           g == [f EXCEPT !.steps = Tail(@)]
           p == [s EXCEPT ![1] = g]
<1>1. Len(s) \in Nat /\ Len(s) > 0 /\ f \in Frame /\ DOMAIN s = 1..Len(s)
  OBVIOUS
<1>2. FrameOk(B, f)
  BY <1>1 DEF StackOk
<1> HIDE DEF f
<1>3. g \in Frame /\ g.name = f.name /\ FrameOk(C, g)
  BY <1>1, <1>2, FrameAdvances DEF f
<1>4. [s EXCEPT ![1].steps = Tail(@)] = p
  BY DEF f
<1> HIDE DEF g
<1>5. /\ p \in Seq(Frame) /\ DOMAIN p = 1..Len(s) /\ p[1] = g
      /\ \A i \in 2..Len(s) : p[i] = s[i]
  BY <1>1, <1>3
<1> HIDE DEF p
<1>6. \A i \in 1..Len(s) : p[i].name = s[i].name
  BY <1>1, <1>3, <1>5 DEF f
<1>7. On(p) = On(s)
  BY <1>1, <1>5, <1>6 DEF On
<1>8. \A i \in 1..Len(s) : FrameOk(C, p[i])
  <2>1. \A i \in 2..Len(s) : FrameOk(B, s[i])
    BY <1>1 DEF StackOk
  <2> QED  BY <1>1, <1>3, <1>5, <2>1, FrameStays
<1>9. StackOk(C, p)
  BY <1>1, <1>5, <1>6, <1>8 DEF StackOk
<1> QED  BY <1>4, <1>5, <1>7, <1>9

\* A routine that is called.
LEMMA StackCalls ==
  ASSUME ArenaFirst, NEW B, NEW s \in Seq(Frame), StackOk(B, s),
         NEW n \in Names, NEW r \in Routines(n), \A m \in On(s) : Above(n, m)
  PROVE  LET p == <<[name |-> n, steps |-> r]>> \o s IN
         p \in Seq(Frame) /\ StackOk(B, p) /\ On(p) = On(s) \cup {n}
<1> DEFINE f == [name |-> n, steps |-> r]
           p == <<f>> \o s
<1>1. f \in Frame /\ FrameOk(B, f) /\ f.name = n
  BY FrameBegins
<1> HIDE DEF f
<1>2. /\ p \in Seq(Frame) /\ DOMAIN p = 1..(Len(s) + 1) /\ p[1] = f
      /\ \A i \in 2..(Len(s) + 1) : p[i] = s[i - 1]
      /\ Len(s) \in Nat /\ DOMAIN s = 1..Len(s)
  BY <1>1
<1> HIDE DEF p
<1>3. \A i \in 1..Len(s) : i + 1 \in 2..(Len(s) + 1) /\ p[i + 1] = s[i]
  <2>1. ASSUME NEW i \in 1..Len(s)  PROVE  i + 1 \in 2..(Len(s) + 1) /\ (i + 1) - 1 = i
    BY <1>2
  <2> QED  BY <1>2, <2>1
<1>4. On(p) = On(s) \cup {n}
  <2>1. ASSUME NEW i \in 1..(Len(s) + 1)  PROVE  p[i].name \in On(s) \cup {n}
    <3>1. i = 1 \/ (i \in 2..(Len(s) + 1) /\ i - 1 \in 1..Len(s))
      BY <1>2
    <3> QED  BY <1>1, <1>2, <3>1 DEF On
  <2>2. ASSUME NEW i \in 1..Len(s)  PROVE  s[i].name \in On(p)
    <3>1. i + 1 \in 1..(Len(s) + 1) /\ p[i + 1].name = s[i].name
      BY <1>2, <1>3
    <3> DEFINE k == i + 1
    <3> HIDE DEF k
    <3>2. k \in DOMAIN p /\ p[k].name = s[i].name
      BY <1>2, <3>1 DEF k
    <3> QED  BY <3>2 DEF On
  <2>3. n \in On(p)
    BY <1>1, <1>2 DEF On
  <2> QED  BY <1>2, <2>1, <2>2, <2>3 DEF On
<1>5. ASSUME NEW i \in 1..(Len(s) + 1)  PROVE  FrameOk(B, p[i])
  <2>1. i = 1 \/ (i \in 2..(Len(s) + 1) /\ i - 1 \in 1..Len(s))
    BY <1>2
  <2> QED  BY <1>1, <1>2, <2>1 DEF StackOk
<1>6. ASSUME NEW i \in 1..(Len(s) + 1), NEW j \in 1..(Len(s) + 1), i < j
      PROVE  Above(p[i].name, p[j].name)
  <2>1. j - 1 \in 1..Len(s) /\ p[j] = s[j - 1]
    BY <1>2, <1>6
  <2>2. CASE i = 1
    BY <1>1, <1>2, <2>1, <2>2 DEF On
  <2>3. CASE i # 1
    <3>1. i - 1 \in 1..Len(s) /\ p[i] = s[i - 1] /\ i - 1 < j - 1
      BY <1>2, <1>6, <2>3
    <3> QED  BY <1>2, <2>1, <3>1 DEF StackOk
  <2> QED  BY <2>2, <2>3
<1> QED  BY <1>2, <1>4, <1>5, <1>6 DEF StackOk, f, p

\* A routine that returns.
LEMMA StackReturns ==
  ASSUME NEW B, NEW s \in Seq(Frame), StackOk(B, s), s # <<>>
  PROVE  Tail(s) \in Seq(Frame) /\ StackOk(B, Tail(s)) /\ On(Tail(s)) = On(s) \ {s[1].name}
<1> DEFINE p == Tail(s)
<1>1. /\ p \in Seq(Frame) /\ DOMAIN p = 1..(Len(s) - 1) /\ Len(s) \in Nat /\ Len(s) > 0
      /\ DOMAIN s = 1..Len(s)
      /\ \A i \in 1..(Len(s) - 1) : p[i] = s[i + 1]
  OBVIOUS
<1> HIDE DEF p
<1>2. \A i \in 1..(Len(s) - 1) : i + 1 \in 1..Len(s) /\ i + 1 > 1
  BY <1>1
<1>3. \A n, m : Above(n, m) => n # m
  <2>1. \A n : Level(n) \in Nat
    BY DEF Level
  <2> QED  BY <2>1 DEF Above
<1>4. StackOk(B, p)
  <2>1. ASSUME NEW i \in 1..(Len(s) - 1), NEW j \in 1..(Len(s) - 1), i < j
        PROVE  Above(p[i].name, p[j].name)
    <3>1. i + 1 < j + 1
      BY <2>1
    <3> QED  BY <1>1, <1>2, <3>1 DEF StackOk
  <2> QED  BY <1>1, <1>2, <2>1 DEF StackOk
<1>5. ASSUME NEW i \in 2..Len(s)  PROVE  s[i].name \in On(p) /\ s[i].name # s[1].name
  <2>1. i - 1 \in 1..(Len(s) - 1) /\ (i - 1) + 1 = i /\ 1 < i /\ 1 \in 1..Len(s) /\ i \in 1..Len(s)
    BY <1>1
  <2>2. p[i - 1] = s[i]
    BY <1>1, <2>1
  <2>3. Above(s[1].name, s[i].name)
    BY <1>1, <2>1 DEF StackOk
  <2> QED  BY <1>1, <1>3, <2>1, <2>2, <2>3 DEF On
<1>6. ASSUME NEW i \in 1..(Len(s) - 1)
      PROVE  p[i].name \in On(s) /\ p[i].name # s[1].name
  <2> DEFINE k == i + 1
  <2>1. k \in 2..Len(s) /\ k \in DOMAIN s /\ p[i] = s[k]
    BY <1>1
  <2> HIDE DEF k
  <2>2. s[k].name # s[1].name
    BY <1>5, <2>1
  <2> QED  BY <2>1, <2>2 DEF On
<1>7. ASSUME NEW m \in On(s), m # s[1].name  PROVE  m \in On(p)
  <2>1. PICK i \in DOMAIN s : m = s[i].name
    BY DEF On
  <2>2. i \in 2..Len(s)
    BY <1>1, <1>7, <2>1
  <2> QED  BY <1>5, <2>1, <2>2
<1>8. On(p) \subseteq On(s) \ {s[1].name}
  <2>1. \A m \in On(p) : \E i \in 1..(Len(s) - 1) : m = p[i].name
    BY <1>1 DEF On
  <2> QED  BY <1>6, <2>1
<1>9. On(p) = On(s) \ {s[1].name}
  BY <1>7, <1>8
<1> QED  BY <1>1, <1>4, <1>9 DEF p

----------------------------------------------------------------------------
(* Where a thread can be.                                                  *)

\* U is the type of a field, or of one further down; and so on.
LEMMA ContainsLinks ==
  ASSUME NEW T \in Generated, NEW U \in Links(T)
  PROVE  Contains(T, U)
<1> SUFFICES ASSUME NEW S \in SUBSET Generated, Linking({T} \cup S) \subseteq S  PROVE  U \in S
  BY DEF Contains
<1> QED  BY DEF Linking

LEMMA ContainsTransitive ==
  ASSUME NEW T, NEW U, NEW V, Contains(T, U), Contains(U, V)
  PROVE  Contains(T, V)
<1> SUFFICES ASSUME NEW S \in SUBSET Generated, Linking({T} \cup S) \subseteq S  PROVE  V \in S
  BY DEF Contains
<1>1. U \in S
  BY DEF Contains
<1>2. Linking({U} \cup S) \subseteq S
  BY <1>1 DEF Linking
<1> QED  BY <1>2 DEF Contains

LEMMA Levels ==
  /\ \A T \in Generated : Level(T) = 1
  /\ Level("DefaultInstanceArenaHolder") = 2 /\ Level("Arena") = 3 /\ Level("Messages") = 4
  /\ Level("JNI_OnLoad") = 5 /\ Level("Minitable") = 6 /\ Level("main") = 0 /\ Level("run") = 0
  /\ \A n : Level(n) \in Nat
<1>1. \A n : Level(n) \in Nat
  BY DEF Level
<1> QED  BY <1>1, NamesApart DEF Level

LEMMA AboveTransitive ==
  ASSUME NEW n, NEW m, NEW k, Above(n, m), Above(m, k), n # k
  PROVE  Above(n, k)
  BY Levels, ContainsTransitive DEF Above

\* The name of the routine that t is in.
Top(t) == stack[t][1].name

LEMMA TopStep ==
  ASSUME ArenaFirst, Typed, StacksOk, NEW t \in AllThreads, ~Idle(t)
  PROVE  /\ stack[t] \in Seq(Frame) /\ stack[t] # <<>> /\ stack[t][1] \in Frame
         /\ Top(t) \in On(stack[t]) /\ Top(t) \in Names
         /\ \A m \in On(stack[t]) : m = Top(t) \/ Above(Top(t), m)
         /\ Running(t) => Step(t) \in StepSet /\ MayBeAt(t, Top(t), Step(t))
         /\ ~Running(t) => MayEnd(t, Top(t))
<1> DEFINE s == stack[t]
           f == s[1]
           B == Behind(t)
<1>1. s \in Seq(Frame) /\ s # <<>> /\ StackOk(B, s)
  BY DEF Typed, StacksOk, Idle
<1>2. Running(t) <=> f.steps # <<>>
  BY DEF Running
<1>3. Step(t) = Head(f.steps) /\ Top(t) = f.name
  BY DEF Step, Top
<1> HIDE DEF s, B
<1>4. Len(s) \in Nat /\ Len(s) > 0 /\ DOMAIN s = 1..Len(s) /\ f \in Frame
  BY <1>1
<1>5. FrameOk(B, f) /\ f.name \in On(s)
  BY <1>1, <1>4 DEF StackOk, On
<1>6. ASSUME NEW m \in On(s)  PROVE  m = f.name \/ Above(f.name, m)
  <2>1. PICK i \in DOMAIN s : m = s[i].name
    BY DEF On
  <2>2. i = 1 \/ 1 < i
    BY <1>4
  <2> QED  BY <1>1, <1>4, <2>1, <2>2 DEF StackOk
<1> HIDE DEF f
<1>7. f.name \in Names /\ f.steps \in Seq(StepSet)
  BY <1>4 DEF Frame
<1>8. PICK r \in Routines(f.name) : \E k \in 1..(Len(r) + 1) :
        Rest(f.steps, r, k) /\ \A i \in 1..(k - 1) : r[i] \in B
  BY <1>5 DEF FrameOk
<1>9. PICK k \in 1..(Len(r) + 1) : Rest(f.steps, r, k) /\ \A i \in 1..(k - 1) : r[i] \in B
  BY <1>8
<1>10. \A i \in 1..(k - 1) : Past(t, r[i])
  BY <1>9 DEF B, Behind
<1>11. /\ k \in 1..Len(r) => r[k] \in StepSet /\ MayBeAt(t, f.name, r[k])
       /\ k = Len(r) + 1 => MayEnd(t, f.name)
  BY <1>7, <1>8, <1>9, <1>10, AtStep
<1>12. r \in Seq(StepSet) /\ Len(r) \in Nat
  <2>1. r \in Seq(StepSet)
    BY <1>7, <1>8, RoutineTyped
  <2> QED  BY <2>1
<1>13. ASSUME f.steps # <<>>  PROVE  k \in 1..Len(r) /\ Head(f.steps) = r[k]
  <2>1. Len(f.steps) \in Nat /\ Len(f.steps) > 0 /\ Head(f.steps) = f.steps[1]
    BY <1>7, <1>13
  <2>2. 1 \in 1..Len(f.steps) /\ k + 1 - 1 = k /\ k \in 1..Len(r)
    BY <1>9, <1>12, <2>1 DEF Rest
  <2> QED  BY <1>9, <2>1, <2>2 DEF Rest
<1>14. ASSUME f.steps = <<>>  PROVE  k = Len(r) + 1
  <2>1. Len(f.steps) = 0
    BY <1>14
  <2> QED  BY <1>9, <1>12, <2>1 DEF Rest
<1> QED  BY <1>1, <1>2, <1>3, <1>4, <1>5, <1>6, <1>7, <1>11, <1>13, <1>14 DEF s, f

\* A class that a thread sees, and is not in, is initialised; so is the library.
LEMMA Sees ==
  ASSUME ArenaFirst, Inv, NEW t \in AllThreads, ~Idle(t)
  PROVE  /\ \A c \in WithNatives \cup {"DefaultInstanceArenaHolder"} :
              Level(Top(t)) < Level(c) /\ Seen(t, c) => status[c] = "initialized"
         /\ Level(Top(t)) < 5 /\ LibrarySeen(t) => library = "loaded"
<1>1. \A m \in On(stack[t]) : m = Top(t) \/ Above(Top(t), m)
  BY TopStep DEF Inv
<1>2. \A c : Level(Top(t)) < Level(c) /\ c \notin Generated => c \notin On(stack[t])
  BY <1>1, Levels DEF Above
<1>3. \A c \in WithNatives \cup {"DefaultInstanceArenaHolder"} : c \in Classes /\ c \notin Generated
  BY NamesApart DEF WithNatives
<1>4. ASSUME NEW c \in WithNatives \cup {"DefaultInstanceArenaHolder"},
             Level(Top(t)) < Level(c), Seen(t, c)
      PROVE  status[c] = "initialized"
  BY <1>2, <1>3, <1>4 DEF Inv, Owned, OnStack, Seen
<1>5. ASSUME Level(Top(t)) < 5, LibrarySeen(t)  PROVE  library = "loaded"
  <2>1. "JNI_OnLoad" \notin On(stack[t])
    BY <1>2, <1>5, Levels, NamesApart
  <2> QED  BY <1>5, <2>1 DEF Inv, Owned, OnStack, LibrarySeen
<1> QED  BY <1>4, <1>5

\* With Arena initialised, everything is in place.
LEMMA Ready ==
  ASSUME Inv, status["Arena"] = "initialized"
  PROVE  status["Messages"] = "initialized" /\ library = "loaded" /\ registered = WithNatives
  BY DEF Inv, InOrder

\* The natives that a thread calls are registered.
LEMMA NativesThere ==
  ASSUME ArenaFirst, Inv, NEW t \in AllThreads, At(t, "native")
  PROVE  Step(t).class \in registered
<1> DEFINE n == Top(t)
           s == Step(t)
<1>1. ~Idle(t) /\ Running(t) /\ s.op = "native"
  BY DEF At, Running
<1>2. n \in Names /\ MayBeAt(t, n, s)
  BY <1>1, TopStep DEF Inv
<1> HIDE DEF n, s
<1>3. \/ n \in Generated /\ Seen(t, "Arena") /\ s.class \in {"Minitable", "Messages"}
      \/ n = "Messages" /\ LibrarySeen(t) /\ s.class = "Messages"
      \/ n \in {"DefaultInstanceArenaHolder", "main"} /\ Seen(t, "Arena") /\ s.class = "Arena"
  BY <1>1, <1>2 DEF MayBeAt, GeneratedAt, Use, LoadLibrary, StartReaper, Native, Deref
<1>4. CASE n = "Messages" /\ LibrarySeen(t) /\ s.class = "Messages"
  <2>1. library = "loaded"
    BY <1>1, <1>4, Sees, Levels DEF n
  <2> QED  BY <1>4, <2>1 DEF Inv, InOrder, WithNatives, s
<1>5. CASE n \in Generated \cup {"DefaultInstanceArenaHolder", "main"} /\ Seen(t, "Arena")
             /\ s.class \in WithNatives
  <2>1. Level(n) < Level("Arena")
    BY <1>5, Levels
  <2>2. status["Arena"] = "initialized"
    BY <1>1, <1>5, <2>1, Sees DEF n, WithNatives
  <2> QED  BY <1>5, <2>2, Ready DEF s
<1> QED  BY <1>3, <1>4, <1>5 DEF WithNatives

----------------------------------------------------------------------------
(* The invariant holds at first, and each action keeps it.                 *)

LEMMA InitInv == Init => Inv
<1> SUFFICES ASSUME Init  PROVE  Inv
  OBVIOUS
<1>1. Typed
  BY DEF Init, Typed, WithNatives
<1>2. \A t \in AllThreads : stack[t] = <<>> /\ On(stack[t]) = {} /\ StackOk(Behind(t), stack[t])
  BY DEF Init, On, StackOk
<1>3. Owned
  BY <1>2 DEF Init, Owned, OnStack
<1>4. InOrder /\ ReaperRuns /\ FailuresExplained
  <2>1. "Arena" \in Classes /\ "Messages" \in Classes /\ "Minitable" \in Classes
        /\ "DefaultInstanceArenaHolder" \in Classes
    BY NamesApart DEF WithNatives
  <2>2. Reaper \in AllThreads
    BY DEF AllThreads
  <2> QED  BY <1>2, <2>1, <2>2 DEF Init, InOrder, ReaperRuns, FailuresExplained, OnStack
<1> QED  BY <1>1, <1>2, <1>3, <1>4 DEF Inv, StacksOk

LEMMA OnNames ==
  ASSUME NEW s \in Seq(Frame)
  PROVE  On(s) \subseteq Names
<1>1. ASSUME NEW i \in DOMAIN s  PROVE  s[i].name \in Names
  <2>1. s[i] \in Frame
    OBVIOUS
  <2> QED  BY <2>1 DEF Frame
<1> QED  BY <1>1 DEF On

\* The reaper is in no class.
LEMMA ReaperOn ==
  ASSUME Inv
  PROVE  /\ Reaper \in AllThreads /\ On(stack[Reaper]) \subseteq {"run"}
         /\ On(stack[Reaper]) = {} \/ status["Arena"] # "new"
<1>1. Reaper \in AllThreads
  BY DEF AllThreads
<1>2. On(stack[Reaper]) \subseteq Names
  BY <1>1, OnNames DEF Inv, Typed
<1> QED  BY <1>1, <1>2 DEF Inv, ReaperRuns, OnStack

\* What is seen stays seen.
LEMMA BehindGrows ==
  ASSUME NEW t \in AllThreads, \A c \in Classes : Seen(t, c) => Seen(t, c)',
         LibrarySeen(t) => LibrarySeen(t)', registered \subseteq registered'
  PROVE  Behind(t) \subseteq Behind(t)'
  BY DEF Behind, Past

\* The steps that leave the classes and the library as they are.
LEMMA QuietInv ==
  ASSUME Inv, UNCHANGED <<status, owner, library, loader>>,
         registered \subseteq registered', registered' \subseteq WithNatives,
         stack' \in [AllThreads -> Seq(Frame)],
         \A t \in AllThreads : Behind(t) \subseteq Behind(t)' => StackOk(Behind(t)', stack'[t]),
         \A t \in AllThreads : On(stack'[t]) \cap (Classes \cup {"JNI_OnLoad"}) =
                               On(stack[t]) \cap (Classes \cup {"JNI_OnLoad"}),
         On(stack'[Reaper]) \subseteq {"run"},
         On(stack'[Reaper]) = {} \/ status["Arena"] # "new"
  PROVE  Inv'
<1>1. Typed'
  BY DEF Inv, Typed
<1>2. StacksOk'
  <2>1. \A t \in AllThreads : Behind(t) \subseteq Behind(t)'
    <3> TAKE t \in AllThreads
    <3> QED  BY BehindGrows DEF Seen, LibrarySeen
  <2> QED  BY <2>1 DEF StacksOk
<1>3. Owned'
  BY DEF Inv, Owned, OnStack
<1>4. InOrder'
  BY DEF Inv, InOrder
<1>5. ReaperRuns'
  BY DEF Inv, ReaperRuns, OnStack
<1>6. FailuresExplained'
  BY DEF Inv, FailuresExplained
<1> QED  BY <1>1, <1>2, <1>3, <1>4, <1>5, <1>6 DEF Inv

\* The thread goes on with its routine.
LEMMA AdvanceInv ==
  ASSUME ArenaFirst, Inv, NEW t \in AllThreads, Running(t), stack' = Advanced(t),
         UNCHANGED <<status, owner, library, loader>>,
         registered \subseteq registered', registered' \subseteq WithNatives,
         Step(t) \in Behind(t)'
  PROVE  Inv'
<1>1. stack[t] \in Seq(Frame) /\ stack[t] # <<>> /\ stack[t][1].steps # <<>>
  BY DEF Inv, Typed, Running, Idle
<1>2. stack \in [AllThreads -> Seq(Frame)] /\ \A u \in AllThreads : StackOk(Behind(u), stack[u])
  BY DEF Inv, Typed, StacksOk
<1>3. Head(stack[t][1].steps) \in Behind(t)'
  BY DEF Step
<1> DEFINE p == [stack[t] EXCEPT ![1].steps = Tail(@)]
<1>4. /\ p \in Seq(Frame) /\ On(p) = On(stack[t])
      /\ Behind(t) \subseteq Behind(t)' => StackOk(Behind(t)', p)
  <2>1. StackOk(Behind(t), stack[t])
    BY <1>2
  <2>2. \A C : Behind(t) \subseteq C /\ Head(stack[t][1].steps) \in C =>
          p \in Seq(Frame) /\ On(p) = On(stack[t]) /\ StackOk(C, p)
    BY <1>1, <2>1, StackAdvances
  <2>3. Behind(t) \subseteq Behind(t) \cup {Head(stack[t][1].steps)}
        /\ Head(stack[t][1].steps) \in Behind(t) \cup {Head(stack[t][1].steps)}
    OBVIOUS
  <2> HIDE DEF p
  <2> QED  BY <1>3, <2>2, <2>3
<1>5. stack' = [stack EXCEPT ![t] = p]
  BY DEF Advanced
<1> HIDE DEF p
<1>6. stack' \in [AllThreads -> Seq(Frame)] /\ stack'[t] = p /\ \A u \in AllThreads \ {t} : stack'[u] = stack[u]
  BY <1>2, <1>4, <1>5
<1>7. \A u \in AllThreads : On(stack'[u]) = On(stack[u])
  BY <1>4, <1>6
<1>8. \A u \in AllThreads : Behind(u) \subseteq Behind(u)' => StackOk(Behind(u)', stack'[u])
  <2>1. ASSUME NEW u \in AllThreads \ {t}, Behind(u) \subseteq Behind(u)'
        PROVE  StackOk(Behind(u)', stack'[u])
    <3>1. StackOk(Behind(u), stack[u]) /\ stack'[u] = stack[u]
      BY <1>2, <1>6
    <3> QED  BY <2>1, <3>1, StackStays
  <2> QED  BY <1>4, <1>6, <2>1
<1> QED  BY <1>6, <1>7, <1>8, ReaperOn, QuietInv

\* Steps that are taken in place.
LEMMA StepsInv ==
  ASSUME ArenaFirst, Inv, NEW t \in AllThreads,
         \/ UseAvailable(t) \/ LoadAvailable(t) \/ RegisterNatives(t) \/ NativeCall(t) \/ Dereference(t)
  PROVE  Inv'
<1>1. Running(t) /\ ~Idle(t)
  BY DEF UseAvailable, LoadAvailable, RegisterNatives, NativeCall, Dereference, At, Running
<1>2. Step(t) \in StepSet /\ MayBeAt(t, Top(t), Step(t)) /\ Top(t) \in Names
  BY <1>1, TopStep DEF Inv
<1>3. registered \subseteq WithNatives
  BY DEF Inv, Typed
<1> DEFINE s == Step(t)
           n == Top(t)
<1>4. \A x \in StepSet : x.op \notin {"use", "load", "register"} => x \in Behind(t)'
  BY DEF Behind, Past
<1>5. CASE UseAvailable(t)
  <2>1. s.op = "use" /\ s \in StepSet /\ Seen(t, s.class)
    BY <1>2, <1>5 DEF UseAvailable, At, Seen
  <2>2. s.class \in Classes
    <3> HIDE DEF s, n
    <3>1. n \in Generated => Links(n) \subseteq Generated
      BY GeneratedRoutine
    <3>2. MayBeAt(t, n, s)
      BY <1>2 DEF n, s
    <3> QED  BY <2>1, <3>1, <3>2, NamesApart
             DEF MayBeAt, GeneratedAt, Use, LoadLibrary, StartReaper, Native, Deref, WithNatives
  <2>3. UNCHANGED <<status, owner, library, loader, registered>> /\ stack' = Advanced(t)
    BY <1>5 DEF UseAvailable
  <2>4. \A x \in StepSet : x.op = "use" /\ x.class \in Classes /\ Seen(t, x.class) => x \in Behind(t)'
    BY <2>3 DEF Behind, Past, Seen
  <2>5. s \in Behind(t)'
    BY <2>1, <2>2, <2>4
  <2> QED  BY <1>1, <1>3, <2>3, <2>5, AdvanceInv
<1>6. CASE LoadAvailable(t)
  <2>1. s.op = "load" /\ s \in StepSet /\ LibrarySeen(t)
    BY <1>2, <1>6 DEF LoadAvailable, At, LibrarySeen
  <2>2. UNCHANGED <<status, owner, library, loader, registered>> /\ stack' = Advanced(t)
    BY <1>6 DEF LoadAvailable
  <2>3. \A x \in StepSet : x.op = "load" /\ LibrarySeen(t) => x \in Behind(t)'
    BY <2>2 DEF Behind, Past, LibrarySeen
  <2>4. s \in Behind(t)'
    BY <2>1, <2>3
  <2> QED  BY <1>1, <1>3, <2>2, <2>4, AdvanceInv
<1>7. CASE RegisterNatives(t)
  <2>1. /\ s.op = "register" /\ registered' = registered \cup {s.class}
        /\ UNCHANGED <<status, owner, library, loader>> /\ stack' = Advanced(t)
    BY <1>7 DEF RegisterNatives, At
  <2>2. s.class \in WithNatives
    <3> HIDE DEF s, n
    <3>1. MayBeAt(t, n, s)
      BY <1>2 DEF n, s
    <3> QED  BY <2>1, <3>1
             DEF MayBeAt, GeneratedAt, Use, LoadLibrary, StartReaper, Native, Deref
  <2>3. \A x \in StepSet : x.op = "register" /\ x.class \in registered' => x \in Behind(t)'
    BY DEF Behind, Past
  <2>4. s \in Behind(t)'
    BY <1>2, <2>1, <2>3
  <2> QED  BY <1>1, <1>3, <2>1, <2>2, <2>4, AdvanceInv
<1>8. CASE NativeCall(t) \/ Dereference(t)
  <2>1. /\ s.op \in {"native", "deref"}
        /\ UNCHANGED <<status, owner, library, loader, registered>> /\ stack' = Advanced(t)
    BY <1>8 DEF NativeCall, Dereference, At
  <2>2. s \in Behind(t)'
    BY <1>2, <1>4, <2>1
  <2> QED  BY <1>1, <1>3, <2>1, <2>2, AdvanceInv
<1> QED  BY <1>5, <1>6, <1>7, <1>8

\* A thread begins, and its program's use of a class is all that it is in.
LEMMA BeginInv ==
  ASSUME ArenaFirst, Inv, NEW t \in Threads, NEW c \in EntryPoints, Begin(t, c)
  PROVE  Inv'
<1> DEFINE p == <<[name |-> "main", steps |-> Entry(c)]>>
<1>1. "main" \in Names /\ Entry(c) \in Routines("main")
  BY NamesApart DEF Names, Routines
<1>2. /\ p \in Seq(Frame) /\ On(p) = {"main"} /\ \A B : StackOk(B, p)
      /\ On(<<>>) = {}
  BY <1>1, StackBegins
<1>3. t \in AllThreads /\ t # Reaper
  BY ThreadsAssumption DEF AllThreads
<1>4. /\ stack[t] = <<>> /\ stack' = [stack EXCEPT ![t] = p]
      /\ UNCHANGED <<status, owner, library, loader, registered>>
  BY DEF Begin, Idle
<1>5. stack \in [AllThreads -> Seq(Frame)] /\ registered \subseteq WithNatives
      /\ \A u \in AllThreads : StackOk(Behind(u), stack[u])
  BY DEF Inv, Typed, StacksOk
<1> HIDE DEF p
<1>6. stack' \in [AllThreads -> Seq(Frame)] /\ stack'[t] = p /\ \A u \in AllThreads \ {t} : stack'[u] = stack[u]
  BY <1>2, <1>3, <1>4, <1>5
<1>7. \A u \in AllThreads : Behind(u) \subseteq Behind(u)' => StackOk(Behind(u)', stack'[u])
  <2>1. ASSUME NEW u \in AllThreads \ {t}, Behind(u) \subseteq Behind(u)'
        PROVE  StackOk(Behind(u)', stack'[u])
    BY <1>5, <1>6, <2>1, StackStays
  <2> QED  BY <1>2, <1>6, <2>1
<1>8. \A u \in AllThreads : On(stack'[u]) \cap (Classes \cup {"JNI_OnLoad"}) =
                            On(stack[u]) \cap (Classes \cup {"JNI_OnLoad"})
  BY <1>2, <1>4, <1>6, NamesApart
<1>9. stack'[Reaper] = stack[Reaper]
  BY <1>3, <1>6, ReaperOn
<1> QED  BY <1>4, <1>5, <1>6, <1>7, <1>8, <1>9, ReaperOn, QuietInv

\* The reaper begins, started by the initialiser of Arena.
LEMMA StartInv ==
  ASSUME ArenaFirst, Inv, NEW t \in AllThreads, Start(t)
  PROVE  Inv'
<1> DEFINE p == <<[name |-> "run", steps |-> <<Use("Arena")>>]>>
           q == [stack[t] EXCEPT ![1].steps = Tail(@)]
<1>1. "run" \in Names /\ <<Use("Arena")>> \in Routines("run")
  BY NamesApart DEF Names, Routines
<1>2. p \in Seq(Frame) /\ On(p) = {"run"} /\ \A B : StackOk(B, p)
  BY <1>1, StackBegins
<1>3. Running(t) /\ ~Idle(t) /\ Step(t).op = "start"
  BY DEF Start, At, Running
<1>4. /\ Step(t) \in StepSet /\ MayBeAt(t, Top(t), Step(t)) /\ Top(t) \in Names
      /\ Top(t) \in On(stack[t])
  BY <1>3, TopStep DEF Inv
<1>5. Top(t) = "Arena"
  BY <1>3, <1>4 DEF MayBeAt, GeneratedAt, Use, LoadLibrary, StartReaper, Native, Deref
<1>6. t # Reaper
  BY <1>4, <1>5, ReaperOn
<1>7. status["Arena"] = "initializing"
  BY <1>4, <1>5, NamesApart DEF Inv, Owned, OnStack, WithNatives
<1>8. stack \in [AllThreads -> Seq(Frame)] /\ registered \subseteq WithNatives
      /\ \A u \in AllThreads : StackOk(Behind(u), stack[u])
  BY DEF Inv, Typed, StacksOk
<1>9. stack[t] \in Seq(Frame) /\ stack[t] # <<>> /\ stack[t][1].steps # <<>>
      /\ Step(t) = Head(stack[t][1].steps)
  BY <1>3, <1>8 DEF Running, Idle, Step
<1>10. UNCHANGED <<status, owner, library, loader, registered>>
  BY DEF Start
<1>11. Step(t) \in Behind(t)
  BY <1>3, <1>4 DEF Behind, Past
<1>12. q \in Seq(Frame) /\ On(q) = On(stack[t]) /\ StackOk(Behind(t), q)
  BY <1>8, <1>9, <1>11, StackAdvances
<1>13. stack' = [[stack EXCEPT ![t] = q] EXCEPT ![Reaper] = p]
  BY DEF Start, Advanced
<1> HIDE DEF p, q
<1>14. /\ stack' \in [AllThreads -> Seq(Frame)] /\ stack'[t] = q /\ stack'[Reaper] = p
       /\ \A u \in AllThreads \ {t, Reaper} : stack'[u] = stack[u]
  BY <1>2, <1>6, <1>8, <1>12, <1>13, ReaperOn
<1>15. \A u \in AllThreads : Behind(u) \subseteq Behind(u)' => StackOk(Behind(u)', stack'[u])
  <2>1. ASSUME NEW u \in AllThreads \ {t, Reaper}, Behind(u) \subseteq Behind(u)'
        PROVE  StackOk(Behind(u)', stack'[u])
    BY <1>8, <1>14, <2>1, StackStays
  <2>2. ASSUME Behind(t) \subseteq Behind(t)'  PROVE  StackOk(Behind(t)', stack'[t])
    BY <1>12, <1>14, <2>2, StackStays
  <2> QED  BY <1>2, <1>14, <2>1, <2>2
<1>16. \A u \in AllThreads : On(stack'[u]) \cap (Classes \cup {"JNI_OnLoad"}) =
                             On(stack[u]) \cap (Classes \cup {"JNI_OnLoad"})
  BY <1>2, <1>12, <1>14, NamesApart, ReaperOn
<1> QED  BY <1>2, <1>7, <1>8, <1>10, <1>14, <1>15, <1>16, QuietInv

\* What a call leaves on the stacks.
LEMMA CallStacks ==
  ASSUME ArenaFirst, Inv, NEW t \in AllThreads, Running(t),
         NEW n \in Names, NEW r \in Routines(n), stack' = Called(t, n, r),
         \A u \in AllThreads : Behind(u) \subseteq Behind(u)', Step(t) \in Behind(t)',
         \A m \in On(stack[t]) : Above(n, m)
  PROVE  /\ stack' \in [AllThreads -> Seq(Frame)] /\ StacksOk'
         /\ On(stack'[t]) = On(stack[t]) \cup {n}
         /\ \A u \in AllThreads \ {t} : stack'[u] = stack[u]
<1> DEFINE q == [stack[t] EXCEPT ![1].steps = Tail(@)]
           p == <<[name |-> n, steps |-> r]>> \o q
<1>1. stack \in [AllThreads -> Seq(Frame)] /\ \A u \in AllThreads : StackOk(Behind(u), stack[u])
  BY DEF Inv, Typed, StacksOk
<1>2. stack[t] \in Seq(Frame) /\ stack[t] # <<>> /\ stack[t][1].steps # <<>>
      /\ Step(t) = Head(stack[t][1].steps)
  BY <1>1 DEF Running, Idle, Step
<1>3. PICK C : C = Behind(t)'
  OBVIOUS
<1>4. q \in Seq(Frame) /\ On(q) = On(stack[t]) /\ StackOk(C, q)
  BY <1>1, <1>2, <1>3, StackAdvances
<1>5. Called(t, n, r) = [stack EXCEPT ![t] = p]
  <2>1. Advanced(t) = [stack EXCEPT ![t] = q]
    BY DEF Advanced
  <2> HIDE DEF q
  <2>2. [Advanced(t) EXCEPT ![t] = <<[name |-> n, steps |-> r]>> \o @] = [stack EXCEPT ![t] = p]
    BY <1>1, <2>1
  <2> QED  BY <2>2 DEF Called
<1> HIDE DEF q
<1>6. p \in Seq(Frame) /\ On(p) = On(stack[t]) \cup {n} /\ StackOk(C, p)
  BY <1>4, StackCalls
<1> HIDE DEF p
<1>7. /\ stack' \in [AllThreads -> Seq(Frame)] /\ stack'[t] = p
      /\ \A u \in AllThreads \ {t} : stack'[u] = stack[u]
  BY <1>1, <1>5, <1>6
<1>8. \A u \in AllThreads : StackOk(Behind(u)', stack'[u])
  <2>1. ASSUME NEW u \in AllThreads \ {t}  PROVE  StackOk(Behind(u)', stack'[u])
    BY <1>1, <1>7, StackStays
  <2> QED  BY <1>3, <1>6, <1>7, <2>1
<1> QED  BY <1>6, <1>7, <1>8 DEF StacksOk

\* What a thread knows when it is the first to use a class.
LEMMA UseFirstEnters ==
  ASSUME ArenaFirst, Inv, NEW t \in AllThreads, UseFirst(t)
  PROVE  LET c == Step(t).class IN
         /\ Running(t) /\ Step(t) \in StepSet /\ Step(t).op = "use" /\ c \in Classes /\ status[c] = "new"
         /\ t # Reaper
         /\ \A m \in On(stack[t]) : Above(c, m)
         /\ c = "Messages" => status["Arena"] = "initializing" /\ owner["Arena"] = t
         /\ c = "Minitable" => library = "loaded" \/ (library = "loading" /\ loader = t)
         /\ c = "DefaultInstanceArenaHolder" => status["Arena"] = "initialized"
<1> DEFINE s == Step(t)
           n == Top(t)
           c == s.class
<1>1. Running(t) /\ ~Idle(t) /\ s.op = "use" /\ status[c] = "new"
  BY DEF UseFirst, At, Running
<1>2. /\ s \in StepSet /\ MayBeAt(t, n, s) /\ n \in Names /\ n \in On(stack[t])
      /\ \A m \in On(stack[t]) : m = n \/ Above(n, m)
  BY <1>1, TopStep DEF Inv
<1> HIDE DEF s, n
<1>3. \/ n \in Generated /\ c = "Arena"
      \/ n \in Generated /\ Seen(t, "Arena") /\
           c \in {"Arena", "DefaultInstanceArenaHolder", "Minitable", "Messages"} \cup Links(n)
      \/ n = "Arena" /\ c = "Messages"
      \/ n \in {"DefaultInstanceArenaHolder", "main", "run"} /\ c = "Arena"
      \/ n = "JNI_OnLoad" /\ c \in WithNatives
      \/ n = "main" /\ c \in Generated
  BY <1>1, <1>2 DEF MayBeAt, GeneratedAt, Use, LoadLibrary, StartReaper, Native, Deref
<1>4. n \in Generated => Links(n) \subseteq Generated
  BY GeneratedRoutine
<1>5. c \in Classes
  BY <1>3, <1>4, NamesApart DEF WithNatives
<1>6. \A m \in On(stack[t]) \cap Classes : status[m] = "initializing" /\ owner[m] = t
  BY DEF Inv, Owned, OnStack
<1>7. "JNI_OnLoad" \in On(stack[t]) => library = "loading" /\ loader = t
  BY DEF Inv, Owned, OnStack
<1>8. n \in Generated /\ Seen(t, "Arena") => status["Arena"] = "initialized"
  BY <1>1, Sees, Levels DEF n, WithNatives
<1>9. /\ n = "Arena" => status["Arena"] = "initializing" /\ owner["Arena"] = t
      /\ n = "DefaultInstanceArenaHolder" => status["Arena"] = "initialized"
      /\ n = "JNI_OnLoad" => status["Messages"] = "initializing" /\ status["Arena"] = "initializing"
  BY <1>2, <1>6, <1>7, NamesApart DEF Inv, InOrder, WithNatives
<1>10. status["Arena"] = "initialized" => status["Messages"] = "initialized" /\ library = "loaded"
  BY Ready
<1>11. \/ n \in Generated /\ c = "Arena"
       \/ n \in Generated /\ status["Arena"] = "initialized" /\
            c \in {"DefaultInstanceArenaHolder", "Minitable"} \cup Links(n)
       \/ n = "Arena" /\ c = "Messages"
       \/ n \in {"main", "run"} /\ c = "Arena"
       \/ n = "JNI_OnLoad" /\ c = "Minitable"
       \/ n = "main" /\ c \in Generated
  BY <1>1, <1>3, <1>8, <1>9, <1>10 DEF WithNatives
<1>12. c \notin On(stack[t])
  BY <1>1, <1>5, <1>6
<1>13. Above(c, n)
  <2>1. CASE n \in Generated /\ c \in Links(n)
    <3>1. c # n /\ c \in Generated /\ Contains(n, c)
      BY <1>2, <1>4, <1>12, <2>1, ContainsLinks
    <3> QED  BY <2>1, <3>1 DEF Above
  <2>2. CASE ~(n \in Generated /\ c \in Links(n))
    BY <1>11, <2>2, Levels DEF Above
  <2> QED  BY <2>1, <2>2
<1>14. \A m \in On(stack[t]) : Above(c, m)
  BY <1>2, <1>12, <1>13, AboveTransitive
<1>15. t # Reaper
  <2> SUFFICES ASSUME t = Reaper  PROVE  FALSE
    OBVIOUS
  <2>1. n = "run" /\ status["Arena"] # "new"
    BY <1>2, ReaperOn
  <2> QED  BY <1>1, <1>11, <2>1, NamesApart
<1>16. /\ c = "Messages" => status["Arena"] = "initializing" /\ owner["Arena"] = t
       /\ c = "Minitable" => library = "loaded" \/ (library = "loading" /\ loader = t)
       /\ c = "DefaultInstanceArenaHolder" => status["Arena"] = "initialized"
  BY <1>2, <1>4, <1>7, <1>9, <1>10, <1>11, NamesApart
<1> QED  BY <1>1, <1>2, <1>5, <1>14, <1>15, <1>16 DEF s

\* A class begins to be initialised.
LEMMA UseFirstInv ==
  ASSUME ArenaFirst, Inv, NEW t \in AllThreads, UseFirst(t)
  PROVE  Inv'
<1>1. PICK c : c = Step(t).class
  OBVIOUS
<1>2. /\ Running(t) /\ Step(t) \in StepSet /\ Step(t).op = "use" /\ c \in Classes /\ status[c] = "new"
      /\ t # Reaper
      /\ \A m \in On(stack[t]) : Above(c, m)
      /\ c = "Messages" => status["Arena"] = "initializing" /\ owner["Arena"] = t
      /\ c = "Minitable" => library = "loaded" \/ (library = "loading" /\ loader = t)
      /\ c = "DefaultInstanceArenaHolder" => status["Arena"] = "initialized"
  BY <1>1, UseFirstEnters
<1>3. /\ status' = [status EXCEPT ![c] = "initializing"] /\ owner' = [owner EXCEPT ![c] = t]
      /\ stack' = Called(t, c, Initializer(c))
      /\ UNCHANGED <<library, loader, registered>>
  BY <1>1 DEF UseFirst
<1>4. /\ status \in [Classes -> {"new", "initializing", "initialized", "erroneous"}]
      /\ owner \in [Classes -> AllThreads \cup {NoThread}]
  BY DEF Inv, Typed
<1>5. /\ status'[c] = "initializing" /\ owner'[c] = t
      /\ \A d \in Classes \ {c} : status'[d] = status[d] /\ owner'[d] = owner[d]
  BY <1>2, <1>3, <1>4
<1>6. ASSUME NEW u \in AllThreads  PROVE  Behind(u) \subseteq Behind(u)'
  <2>1. \A d \in Classes : Seen(u, d) => Seen(u, d)'
    BY <1>2, <1>5 DEF Seen
  <2>2. LibrarySeen(u) => LibrarySeen(u)'
    BY <1>3 DEF LibrarySeen
  <2> QED  BY <1>3, <2>1, <2>2, BehindGrows
<1>7. Step(t) \in Behind(t)'
  <2>1. \A x \in StepSet : x.op = "use" /\ x.class = c => x \in Behind(t)'
    BY <1>2, <1>5 DEF Behind, Past, Seen
  <2> QED  BY <1>1, <1>2, <2>1
<1>8. c \in Names /\ Initializer(c) \in Routines(c)
  BY <1>2 DEF Names, Routines
<1>9. /\ stack' \in [AllThreads -> Seq(Frame)] /\ StacksOk'
      /\ On(stack'[t]) = On(stack[t]) \cup {c}
      /\ \A u \in AllThreads \ {t} : stack'[u] = stack[u]
  BY <1>2, <1>3, <1>6, <1>7, <1>8, CallStacks
<1>10. Typed'
  BY <1>2, <1>3, <1>4, <1>9 DEF Inv, Typed
<1>11. Owned'
  <2>1. \A u \in AllThreads : \A d \in Classes :
          d \in On(stack'[u]) <=> status'[d] = "initializing" /\ owner'[d] = u
    <3>1. \A u \in AllThreads : \A d \in Classes :
            d \in On(stack[u]) <=> status[d] = "initializing" /\ owner[d] = u
      BY DEF Inv, Owned, OnStack
    <3> QED  BY <1>2, <1>5, <1>9, <3>1
  <2>2. \A u \in AllThreads : "JNI_OnLoad" \in On(stack'[u]) <=> "JNI_OnLoad" \in On(stack[u])
    BY <1>2, <1>9, NamesApart
  <2>3. \A d \in Classes : status'[d] = "initializing" => owner'[d] \in AllThreads
    BY <1>5 DEF Inv, Owned
  <2> QED  BY <1>3, <2>1, <2>2, <2>3 DEF Inv, Owned, OnStack
<1>12. InOrder'
  <2>1. /\ "Arena" \in Classes /\ "Messages" \in Classes /\ "Minitable" \in Classes
        /\ "DefaultInstanceArenaHolder" \in Classes
    BY NamesApart DEF WithNatives
  <2> QED  BY <1>2, <1>3, <1>5, <2>1 DEF Inv, InOrder
<1>13. ReaperRuns'
  <2>1. stack'[Reaper] = stack[Reaper]
    BY <1>2, <1>9, ReaperOn
  <2>2. status'["Arena"] = "new" => status["Arena"] = "new"
    BY <1>5, NamesApart DEF WithNatives
  <2> QED  BY <2>1, <2>2 DEF Inv, ReaperRuns, OnStack
<1>14. FailuresExplained'
  BY <1>5 DEF Inv, FailuresExplained
<1> QED  BY <1>9, <1>10, <1>11, <1>12, <1>13, <1>14 DEF Inv

\* The library begins to be loaded, by the initialiser of Messages.
LEMMA LoadFirstInv ==
  ASSUME ArenaFirst, Inv, NEW t \in AllThreads, LoadFirst(t)
  PROVE  Inv'
<1> DEFINE s == Step(t)
           n == Top(t)
<1>1. /\ Running(t) /\ ~Idle(t) /\ s.op = "load" /\ library = "unloaded"
      /\ library' = "loading" /\ loader' = t
      /\ stack' = Called(t, "JNI_OnLoad", JNI_OnLoad)
      /\ UNCHANGED <<status, owner, registered>>
  BY DEF LoadFirst, At, Running
<1>2. /\ s \in StepSet /\ MayBeAt(t, n, s) /\ n \in Names /\ n \in On(stack[t])
      /\ \A m \in On(stack[t]) : m = n \/ Above(n, m)
  BY <1>1, TopStep DEF Inv
<1> HIDE DEF s, n
<1>3. (n = "Arena" /\ Seen(t, "Messages")) \/ n \in {"Messages", "Minitable"}
  BY <1>1, <1>2 DEF MayBeAt, GeneratedAt, Use, LoadLibrary, StartReaper, Native, Deref
<1>4. \A m \in On(stack[t]) \cap Classes : status[m] = "initializing" /\ owner[m] = t
  BY DEF Inv, Owned, OnStack
<1>5. n = "Messages" /\ status["Messages"] = "initializing" /\ owner["Messages"] = t
  <2>1. n = "Arena" /\ Seen(t, "Messages") => status["Messages"] = "initialized"
    BY <1>1, Sees, Levels DEF n, WithNatives
  <2>2. n # "Arena"
    BY <1>1, <1>3, <2>1 DEF Inv, InOrder
  <2>3. n # "Minitable"
    BY <1>1, <1>2, <1>4, NamesApart DEF Inv, InOrder, WithNatives
  <2>4. n = "Messages"
    BY <1>3, <2>2, <2>3
  <2> QED  BY <1>2, <1>4, <2>4, NamesApart DEF WithNatives
<1>6. t # Reaper
  BY <1>2, <1>5, ReaperOn
<1>7. ASSUME NEW u \in AllThreads  PROVE  Behind(u) \subseteq Behind(u)'
  <2>1. \A d \in Classes : Seen(u, d) => Seen(u, d)'
    BY <1>1 DEF Seen
  <2>2. LibrarySeen(u) => LibrarySeen(u)'
    BY <1>1 DEF LibrarySeen
  <2> QED  BY <1>1, <2>1, <2>2, BehindGrows
<1>8. s \in Behind(t)'
  <2>1. \A x \in StepSet : x.op = "load" => x \in Behind(t)'
    BY <1>1 DEF Behind, Past, LibrarySeen
  <2> QED  BY <1>1, <1>2, <2>1
<1>9. "JNI_OnLoad" \in Names /\ JNI_OnLoad \in Routines("JNI_OnLoad")
  BY NamesApart DEF Names, Routines
<1>10. \A m \in On(stack[t]) : Above("JNI_OnLoad", m)
  <2>1. Above("JNI_OnLoad", n)
    BY <1>5, Levels DEF Above
  <2>2. "JNI_OnLoad" \notin On(stack[t])
    BY <1>1 DEF Inv, Owned, OnStack
  <2> QED  BY <1>2, <2>1, <2>2, AboveTransitive
<1>11. /\ stack' \in [AllThreads -> Seq(Frame)] /\ StacksOk'
       /\ On(stack'[t]) = On(stack[t]) \cup {"JNI_OnLoad"}
       /\ \A u \in AllThreads \ {t} : stack'[u] = stack[u]
  BY <1>1, <1>7, <1>8, <1>9, <1>10, CallStacks DEF s
<1>12. Typed'
  BY <1>1, <1>11 DEF Inv, Typed
<1>13. Owned'
  <2>1. \A u \in AllThreads : \A d \in Classes : d \in On(stack'[u]) <=> d \in On(stack[u])
    BY <1>11, NamesApart
  <2>2. \A u \in AllThreads : "JNI_OnLoad" \in On(stack'[u]) <=> u = t
    BY <1>1, <1>11 DEF Inv, Owned, OnStack
  <2> QED  BY <1>1, <2>1, <2>2 DEF Inv, Owned, OnStack
<1>14. InOrder'
  BY <1>1, <1>5 DEF Inv, InOrder
<1>15. ReaperRuns'
  BY <1>1, <1>6, <1>11, ReaperOn DEF Inv, ReaperRuns, OnStack
<1>16. FailuresExplained'
  BY <1>1 DEF Inv, FailuresExplained
<1> QED  BY <1>11, <1>12, <1>13, <1>14, <1>15, <1>16 DEF Inv

\* A routine returns: its class is initialised, or the library loaded.
LEMMA ReturnInv ==
  ASSUME ArenaFirst, Inv, NEW t \in AllThreads, Return(t)
  PROVE  Inv'
<1>1. PICK n : n = Top(t)
  OBVIOUS
<1>2. /\ ~Idle(t) /\ ~Running(t)
      /\ status' = IF n \in Classes THEN [status EXCEPT ![n] = "initialized"] ELSE status
      /\ library' = IF n = "JNI_OnLoad" THEN "loaded" ELSE library
      /\ stack' = [stack EXCEPT ![t] = Tail(@)]
      /\ UNCHANGED <<owner, loader, registered>>
  BY <1>1 DEF Return, Running, Top
<1>3. n \in Names /\ n \in On(stack[t]) /\ MayEnd(t, n)
  BY <1>1, <1>2, TopStep DEF Inv
<1>4. /\ status \in [Classes -> {"new", "initializing", "initialized", "erroneous"}]
      /\ owner \in [Classes -> AllThreads \cup {NoThread}]
      /\ registered \subseteq WithNatives
      /\ stack \in [AllThreads -> Seq(Frame)] /\ \A u \in AllThreads : StackOk(Behind(u), stack[u])
  BY DEF Inv, Typed, StacksOk
<1>5. \A d \in Classes : status'[d] = IF d = n THEN "initialized" ELSE status[d]
  BY <1>2, <1>4
<1>6. \A u \in AllThreads : \A d \in Classes :
        d \in On(stack[u]) <=> status[d] = "initializing" /\ owner[d] = u
  BY DEF Inv, Owned, OnStack
<1>7. \A u \in AllThreads : "JNI_OnLoad" \in On(stack[u]) <=> library = "loading" /\ loader = u
  BY DEF Inv, Owned, OnStack
<1>8. ASSUME NEW u \in AllThreads  PROVE  Behind(u) \subseteq Behind(u)'
  <2>1. \A d \in Classes : Seen(u, d) => Seen(u, d)'
    BY <1>2, <1>5 DEF Seen
  <2>2. LibrarySeen(u) => LibrarySeen(u)'
    BY <1>2 DEF LibrarySeen
  <2> QED  BY <1>2, <2>1, <2>2, BehindGrows
<1>9. /\ Tail(stack[t]) \in Seq(Frame) /\ StackOk(Behind(t), Tail(stack[t]))
      /\ On(Tail(stack[t])) = On(stack[t]) \ {n}
  BY <1>1, <1>2, <1>4, StackReturns DEF Idle, Top
<1> DEFINE p == Tail(stack[t])
<1>10. stack' = [stack EXCEPT ![t] = p]
  BY <1>2
<1> HIDE DEF p
<1>11. /\ stack' \in [AllThreads -> Seq(Frame)] /\ stack'[t] = p
       /\ \A u \in AllThreads \ {t} : stack'[u] = stack[u]
  BY <1>4, <1>9, <1>10 DEF p
<1>12. On(stack'[t]) = On(stack[t]) \ {n}
  BY <1>9, <1>11 DEF p
<1>13. StacksOk'
  <2>1. \A u \in AllThreads : StackOk(Behind(u), stack'[u])
    BY <1>4, <1>9, <1>11 DEF p
  <2> QED  BY <1>8, <2>1, StackStays DEF StacksOk
<1>14. Typed'
  <2>1. status' \in [Classes -> {"new", "initializing", "initialized", "erroneous"}]
    BY <1>2, <1>4
  <2> QED  BY <1>2, <1>11, <2>1 DEF Inv, Typed
<1>15. \A u \in AllThreads \ {t} : n \in Classes \cup {"JNI_OnLoad"} => n \notin On(stack[u])
  BY <1>3, <1>6, <1>7
<1>16. Owned'
  <2>1. \A u \in AllThreads : \A d \in Classes :
          d \in On(stack'[u]) <=> status'[d] = "initializing" /\ owner'[d] = u
    BY <1>2, <1>5, <1>6, <1>11, <1>12, <1>15
  <2>2. \A u \in AllThreads : "JNI_OnLoad" \in On(stack'[u]) <=> library' = "loading" /\ loader' = u
    BY <1>2, <1>3, <1>7, <1>11, <1>12, <1>15
  <2>3. \A d \in Classes : status'[d] = "initializing" => owner'[d] \in AllThreads
    BY <1>2, <1>5 DEF Inv, Owned
  <2>4. library' = "loading" => loader' \in AllThreads
    BY <1>2 DEF Inv, Owned
  <2> QED  BY <2>1, <2>2, <2>3, <2>4 DEF Owned, OnStack
<1>17. InOrder'
  <2>1. /\ "Arena" \in Classes /\ "Messages" \in Classes /\ "Minitable" \in Classes
        /\ "DefaultInstanceArenaHolder" \in Classes
    BY NamesApart DEF WithNatives
  <2>a. Level(n) < 4 /\ Seen(t, "Messages") => status["Messages"] = "initialized"
    BY <1>1, <1>2, Sees, Levels DEF WithNatives
  <2>b. Level(n) < 5 /\ LibrarySeen(t) => library = "loaded"
    BY <1>1, <1>2, Sees
  <2>2. n = "Arena" => status["Messages"] = "initialized"
    BY <1>3, <2>a, Levels DEF MayEnd
  <2>3. n = "Messages" => library = "loaded"
    BY <1>3, <2>b, Levels DEF MayEnd
  <2>4. n = "JNI_OnLoad" => registered = WithNatives /\ library = "loading" /\ loader = t
    BY <1>3, <1>4, <1>7 DEF MayEnd
  <2>5. CASE n = "Arena"
    BY <1>2, <1>5, <2>1, <2>2, <2>5 DEF Inv, InOrder
  <2>6. CASE n = "Messages"
    BY <1>2, <1>5, <2>1, <2>3, <2>6 DEF Inv, InOrder
  <2>7. CASE n = "JNI_OnLoad"
    BY <1>2, <1>5, <2>1, <2>4, <2>7, NamesApart DEF Inv, InOrder
  <2>8. CASE n \notin {"Arena", "Messages", "JNI_OnLoad"}
    BY <1>2, <1>5, <2>1, <2>8 DEF Inv, InOrder
  <2> QED  BY <2>5, <2>6, <2>7, <2>8
<1>18. ReaperRuns'
  <2>1. On(stack'[Reaper]) \subseteq On(stack[Reaper])
    BY <1>11, <1>12, ReaperOn
  <2>2. status'["Arena"] = "new" => status["Arena"] = "new"
    BY <1>5, NamesApart DEF WithNatives
  <2> QED  BY <2>1, <2>2 DEF Inv, ReaperRuns, OnStack
<1>19. FailuresExplained'
  BY <1>5 DEF Inv, FailuresExplained
<1> QED  BY <1>13, <1>14, <1>16, <1>17, <1>18, <1>19 DEF Inv

\* Why a thread fails: by what is in error below it, or a type that contains itself.
LEMMA Failing ==
  ASSUME ArenaFirst, Inv, NEW t \in AllThreads, Fails(t)
  PROVE  /\ Level(Top(t)) < 2
         /\ Top(t) \in Generated =>
              \E d \in Generated : Recursive(d) /\ Contains(Top(t), d)
         /\ At(t, "deref") => Recursive(Step(t).class)
<1> DEFINE s == Step(t)
           n == Top(t)
           c == s.class
<1>1. Running(t) /\ ~Idle(t)
  BY DEF Fails, At, Running
<1>2. /\ s \in StepSet /\ MayBeAt(t, n, s) /\ n \in Names /\ n \in On(stack[t])
      /\ \A m \in On(stack[t]) : m = n \/ Above(n, m)
  BY <1>1, TopStep DEF Inv
<1>3. \/ s.op = "deref" /\ status[c] # "initialized"
      \/ s.op = "use" /\ status[c] = "erroneous"
  BY NativesThere DEF Fails, At
<1>4. n \in Generated => Links(n) \subseteq Generated
  BY GeneratedRoutine
<1>5. \A d \in Classes \ Generated : status[d] # "erroneous"
  BY DEF Inv, FailuresExplained
<1>6. At(t, "deref") <=> s.op = "deref"
  BY <1>1 DEF At
<1>7. \A u \in Classes : status[u] = "initializing" /\ owner[u] = t => u \in On(stack[t])
  BY DEF Inv, Owned, OnStack
<1> HIDE DEF s, n
<1>8. CASE s.op = "use"
  <2>1. c \in Classes => c \in Generated
    BY <1>3, <1>5, <1>8
  <2>2. \/ n \in Generated /\ c \in Links(n)
        \/ n = "main" /\ c \in Generated
    BY <1>2, <1>8, <2>1, NamesApart
       DEF MayBeAt, GeneratedAt, Use, LoadLibrary, StartReaper, Native, Deref, WithNatives
  <2>3. c \in Generated
    BY <1>4, <2>2
  <2>4. PICK d \in Generated : Recursive(d) /\ Contains(c, d)
    BY <1>3, <1>8, <2>3, NamesApart DEF Inv, FailuresExplained
  <2>5. n \in Generated => Contains(n, d)
    BY <2>2, <2>4, NamesApart, ContainsLinks, ContainsTransitive
  <2>6. Level(n) < 2
    BY <2>2, Levels
  <2> QED  BY <1>6, <1>8, <2>4, <2>5, <2>6 DEF n
<1>9. CASE s.op = "deref"
  <2>1. \/ n \in Generated /\ c \in Links(n) /\ Seen(t, c)
        \/ n = "main" /\ c \in Generated /\ Seen(t, c)
    BY <1>2, <1>9
       DEF MayBeAt, GeneratedAt, Use, LoadLibrary, StartReaper, Native, Deref
  <2>2. c \in Generated /\ c \in On(stack[t])
    BY <1>3, <1>4, <1>7, <1>9, <2>1, NamesApart DEF Seen
  <2>3. c = n \/ Above(n, c)
    BY <1>2, <2>2
  <2>4. n \in Generated /\ c \in Links(n)
    BY <2>1, <2>2, <2>3, NamesApart, Levels DEF Above
  <2>5. Contains(n, c)
    BY <2>4, ContainsLinks
  <2>6. c = n \/ Contains(c, n)
    BY <2>2, <2>3, <2>4, Levels DEF Above
  <2>7. Contains(c, c)
    BY <2>5, <2>6, ContainsTransitive
  <2> QED  BY <2>2, <2>4, <2>5, <2>7, Levels DEF n, s, Recursive
<1> QED  BY <1>3, <1>8, <1>9

\* An exception ends what the thread is in: initialisers of generated classes.
LEMMA ThrowInv ==
  ASSUME ArenaFirst, Inv, NEW t \in AllThreads, Throw(t)
  PROVE  Inv'
<1> DEFINE n == Top(t)
           E == On(stack[t])
<1>1. Fails(t) /\ ~Idle(t)
  BY DEF Throw, Fails, At, Running
<1>2. n \in Names /\ n \in E /\ \A m \in E : m = n \/ Above(n, m)
  BY <1>1, TopStep DEF Inv
<1>3. /\ Level(n) < 2
      /\ n \in Generated => \E d \in Generated : Recursive(d) /\ Contains(n, d)
  BY <1>1, Failing
<1>4. /\ status' = [c \in Classes |-> IF c \in E THEN "erroneous" ELSE status[c]]
      /\ stack' = [stack EXCEPT ![t] = <<>>]
      /\ UNCHANGED <<owner, library, loader, registered>>
  BY DEF Throw, On
<1>5. /\ status \in [Classes -> {"new", "initializing", "initialized", "erroneous"}]
      /\ registered \subseteq WithNatives
      /\ stack \in [AllThreads -> Seq(Frame)] /\ \A u \in AllThreads : StackOk(Behind(u), stack[u])
  BY DEF Inv, Typed, StacksOk
<1>6. \A c \in Classes : status'[c] = IF c \in E THEN "erroneous" ELSE status[c]
  BY <1>4
<1>7. \A u \in AllThreads : \A d \in Classes :
        d \in On(stack[u]) <=> status[d] = "initializing" /\ owner[d] = u
  BY DEF Inv, Owned, OnStack
<1>8. \A m \in E : Level(m) < 2
  BY <1>2, <1>3, Levels DEF Above
<1>9. \A c \in Classes : c \in E => c \in Generated
  BY <1>8, Levels DEF Classes, WithNatives
<1>10. \A c \in Generated \cap E : \E d \in Generated : Recursive(d) /\ Contains(c, d)
  <2> TAKE c \in Generated \cap E
  <2>1. n \in Generated
    BY <1>2, <1>3, Levels DEF Above
  <2>2. PICK d \in Generated : Recursive(d) /\ Contains(n, d)
    BY <1>3, <2>1
  <2>3. c = n \/ Contains(c, n)
    BY <1>2, <2>1, Levels DEF Above
  <2> QED  BY <2>2, <2>3, ContainsTransitive
<1> HIDE DEF n, E
<1>11. <<>> \in Seq(Frame) /\ On(<<>>) = {} /\ \A B : StackOk(B, <<>>)
  BY DEF On, StackOk
<1>12. /\ stack' \in [AllThreads -> Seq(Frame)] /\ stack'[t] = <<>>
       /\ \A u \in AllThreads \ {t} : stack'[u] = stack[u]
  BY <1>4, <1>5, <1>11
<1>13. Typed'
  <2>1. status' \in [Classes -> {"new", "initializing", "initialized", "erroneous"}]
    BY <1>4, <1>5
  <2> QED  BY <1>4, <1>12, <2>1 DEF Inv, Typed
<1>14. ASSUME NEW u \in AllThreads \ {t}  PROVE  Behind(u) \subseteq Behind(u)'
  <2>1. \A d \in Classes : Seen(u, d) => Seen(u, d)'
    BY <1>4, <1>6, <1>7 DEF Seen, E
  <2>2. LibrarySeen(u) => LibrarySeen(u)'
    BY <1>4 DEF LibrarySeen
  <2> QED  BY <1>4, <2>1, <2>2, BehindGrows
<1>15. StacksOk'
  BY <1>5, <1>11, <1>12, <1>14, StackStays DEF StacksOk
<1>16. Owned'
  <2>1. \A u \in AllThreads : \A d \in Classes :
          d \in On(stack'[u]) <=> status'[d] = "initializing" /\ owner'[d] = u
    BY <1>4, <1>6, <1>7, <1>11, <1>12 DEF E
  <2>2. "JNI_OnLoad" \notin E
    BY <1>8, Levels
  <2>3. \A u \in AllThreads : "JNI_OnLoad" \in On(stack'[u]) <=> library' = "loading" /\ loader' = u
    BY <1>4, <1>11, <1>12, <2>2 DEF Inv, Owned, OnStack, E
  <2>4. \A d \in Classes : status'[d] = "initializing" => owner'[d] \in AllThreads
    BY <1>4, <1>6 DEF Inv, Owned
  <2> QED  BY <1>4, <2>1, <2>3, <2>4 DEF Inv, Owned, OnStack
<1>17. \A c \in Classes \ Generated : status'[c] = status[c]
  BY <1>6, <1>9
<1>18. InOrder'
  <2>1. \A c \in WithNatives \cup {"DefaultInstanceArenaHolder"} : status'[c] = status[c]
    BY <1>17, NamesApart DEF WithNatives
  <2> QED  BY <1>4, <2>1 DEF Inv, InOrder, WithNatives
<1>19. ReaperRuns'
  <2>1. On(stack'[Reaper]) \subseteq On(stack[Reaper])
    BY <1>11, <1>12, ReaperOn
  <2>2. status'["Arena"] = status["Arena"]
    BY <1>17, NamesApart DEF WithNatives
  <2> QED  BY <2>1, <2>2 DEF Inv, ReaperRuns, OnStack
<1>20. FailuresExplained'
  BY <1>6, <1>9, <1>10 DEF Inv, FailuresExplained
<1> QED  BY <1>13, <1>15, <1>16, <1>18, <1>19, <1>20 DEF Inv

LEMMA NextInv == ArenaFirst /\ Inv /\ [Next]_vars => Inv'
<1> SUFFICES ASSUME ArenaFirst, Inv, [Next]_vars  PROVE  Inv'
  OBVIOUS
<1>1. ASSUME NEW t \in Threads, NEW c \in EntryPoints, Begin(t, c)  PROVE  Inv'
  BY <1>1, BeginInv
<1>2. ASSUME NEW t \in AllThreads, ThreadStep(t)  PROVE  Inv'
  BY <1>2, StepsInv, UseFirstInv, LoadFirstInv, StartInv, ReturnInv, ThrowInv DEF ThreadStep
<1>3. ASSUME UNCHANGED vars  PROVE  Inv'
  BY <1>3 DEF vars, Inv, Typed, StacksOk, Behind, Past, Seen, LibrarySeen, Owned, OnStack, InOrder,
              ReaperRuns, FailuresExplained
<1> QED  BY <1>1, <1>2, <1>3 DEF Next

----------------------------------------------------------------------------
(* The theorems.                                                           *)

\* A program that begins with messages and arenas calls no native method before it
\* is registered, whatever the threads and the classes, and whether FindClass
\* initialises the class it finds or not.
THEOREM NoUnsatisfiedLink == ASSUME ArenaFirst PROVE Spec => []NativesRegistered
<1>1. Inv => NativesRegistered
  BY NativesThere DEF NativesRegistered
<1> QED  BY <1>1, InitInv, NextInv, PTL DEF Spec

\* Such a program finds every default instance that it links to built, but of types
\* that contain themselves, and no class but those that contain such a type fails.
THEOREM DefaultsBuilt == ASSUME ArenaFirst PROVE Spec => []DefaultInstancesBuilt
<1>1. Inv => DefaultInstancesBuilt
  <2> SUFFICES ASSUME Inv  PROVE  DefaultInstancesBuilt
    OBVIOUS
  <2>1. ASSUME NEW t \in AllThreads, At(t, "deref"), ~Recursive(Step(t).class)
        PROVE  status[Step(t).class] = "initialized"
    BY <2>1, Failing DEF Fails
  <2> QED  BY <2>1 DEF DefaultInstancesBuilt, Inv, FailuresExplained
<1> QED  BY <1>1, InitInv, NextInv, PTL DEF Spec

----------------------------------------------------------------------------
(* Waiting.                                                                *)

\* Only programs and generated classes wait; and not for themselves.
LEMMA Waiting ==
  ASSUME ArenaFirst, Inv, NEW t \in AllThreads, NEW u \in WaitsFor(t)
  PROVE  LET c == Step(t).class IN
         /\ ~Idle(t) /\ Level(Top(t)) < 2 /\ u \in AllThreads
         /\ c \in Classes /\ c \in On(stack[u])
         /\ Top(t) \in Generated /\ c \in Generated => c \in Links(Top(t)) \ {Top(t)}
<1> DEFINE s == Step(t)
           n == Top(t)
           c == s.class
<1>1. /\ u \in AllThreads /\ u # t /\ Running(t) /\ ~Idle(t)
      /\ \/ s.op = "use" /\ status[c] = "initializing" /\ owner[c] = u
         \/ s.op = "load" /\ library = "loading" /\ loader = u
  BY DEF WaitsFor, At, Running
<1>2. s \in StepSet /\ MayBeAt(t, n, s) /\ n \in Names /\ n \in On(stack[t])
  BY <1>1, TopStep DEF Inv
<1>3. \A v \in AllThreads : \A d \in Classes :
        d \in On(stack[v]) <=> status[d] = "initializing" /\ owner[d] = v
  BY DEF Inv, Owned, OnStack
<1>4. "JNI_OnLoad" \in On(stack[t]) => library = "loading" /\ loader = t
  BY DEF Inv, Owned, OnStack
<1>5. n = "Arena" /\ Seen(t, "Messages") => status["Messages"] = "initialized"
  BY <1>1, Sees, Levels DEF WithNatives
<1>6. n \in Generated => Links(n) \subseteq Generated
  BY GeneratedRoutine
<1>7. WithNatives = {"Arena", "Messages", "Minitable"} /\ WithNatives \subseteq Classes
      /\ "DefaultInstanceArenaHolder" \in Classes
  BY NamesApart DEF WithNatives
<1> HIDE DEF s, n
<1>8. CASE s.op = "use" /\ status[c] = "initializing" /\ owner[c] = u
  <2>1. \/ n \in Generated
           /\ c \in {"Arena", "DefaultInstanceArenaHolder", "Minitable", "Messages"} \cup Links(n)
        \/ n = "Arena" /\ c = "Messages"
        \/ n \in {"DefaultInstanceArenaHolder", "main", "run"} /\ c = "Arena"
        \/ n = "JNI_OnLoad" /\ c \in WithNatives
        \/ n = "main" /\ c \in Generated
    BY <1>2, <1>8 DEF MayBeAt, GeneratedAt, Use, LoadLibrary, StartReaper, Native, Deref
  <2>2. ~(n = "Arena" /\ c = "Messages")
    BY <1>1, <1>2, <1>3, <1>7, <1>8 DEF Inv, InOrder
  <2>3. ~(n = "DefaultInstanceArenaHolder" /\ c = "Arena")
    BY <1>1, <1>2, <1>3, <1>7, <1>8 DEF Inv, InOrder
  <2>4. ~(n = "JNI_OnLoad" /\ c \in WithNatives)
    BY <1>1, <1>2, <1>4, <1>7, <1>8 DEF Inv, InOrder
  <2>5. n \in Generated \/ n \in {"main", "run"}
    BY <2>1, <2>2, <2>3, <2>4
  <2>6. Level(n) < 2
    BY <2>5, Levels
  <2>7. c \in Classes
    BY <1>6, <1>7, <2>1, NamesApart
  <2>8. c \in On(stack[u])
    BY <1>1, <1>3, <1>8, <2>7
  <2>9. c # n
    BY <1>1, <1>2, <1>3, <1>8, <2>7
  <2>10. n \in Generated /\ c \in Generated => c \in Links(n)
    BY <2>1, NamesApart
  <2> QED  BY <1>1, <2>6, <2>7, <2>8, <2>9, <2>10 DEF n, s
<1>9. CASE s.op = "load" /\ library = "loading" /\ loader = u
  <2>1. (n = "Arena" /\ Seen(t, "Messages")) \/ n \in {"Messages", "Minitable"}
    BY <1>2, <1>9 DEF MayBeAt, GeneratedAt, Use, LoadLibrary, StartReaper, Native, Deref
  <2>2. ~(n = "Arena" /\ Seen(t, "Messages"))
    BY <1>5, <1>9 DEF Inv, InOrder
  <2>3. n # "Messages"
    BY <1>1, <1>2, <1>3, <1>7, <1>9 DEF Inv, InOrder
  <2>4. n # "Minitable"
    BY <1>1, <1>2, <1>3, <1>7, <1>9 DEF Inv, InOrder
  <2> QED  BY <2>1, <2>2, <2>3, <2>4
<1> QED  BY <1>1, <1>8, <1>9

\* What a type contains is of its rank or below.
LEMMA RankFalls ==
  ASSUME NEW rank \in [Generated -> Nat],
         \A T \in Generated : \A c \in Links(T) \ {T} : rank[c] < rank[T],
         NEW T \in Generated, NEW U \in Generated, Contains(T, U)
  PROVE  rank[U] <= rank[T]
<1> DEFINE S == {X \in Generated : rank[X] <= rank[T]}
<1>1. ASSUME NEW X \in S, NEW c \in Links(X)  PROVE  c \in S
  <2>1. X \in Generated /\ c \in Generated /\ rank[X] <= rank[T]
    BY GeneratedRoutine
  <2>2. rank[c] <= rank[X]
    BY <2>1
  <2> QED  BY <2>1, <2>2
<1>2. T \in S
  OBVIOUS
<1> HIDE DEF S
<1>3. Linking({T} \cup S) \subseteq S
  BY <1>1, <1>2 DEF Linking
<1>4. U \in S
  <2>1. S \in SUBSET Generated
    BY DEF S
  <2> QED  BY <1>3, <2>1 DEF Contains
<1> QED  BY <1>4 DEF S

LEMMA NoCycle ==
  ASSUME ArenaFirst, NoMutualRecursion, Inv
  PROVE  NoWaitCycle
<1> SUFFICES ASSUME NEW S \in SUBSET AllThreads, S # {},
                    \A t \in S : WaitsFor(t) \cap S # {}
             PROVE  FALSE
  BY DEF NoWaitCycle
<1>1. PICK rank \in [Generated -> Nat] :
        \A T \in Generated : \A c \in Links(T) \ {T} : rank[c] < rank[T]
  BY DEF NoMutualRecursion
<1> DEFINE C(t) == Step(t).class
<1>2. \A t \in S : Level(Top(t)) < 2 /\ ~Idle(t) /\ C(t) \in Classes
  <2> TAKE t \in S
  <2>1. PICK u \in S : u \in WaitsFor(t)
    OBVIOUS
  <2> QED  BY <2>1, Waiting
<1>3. \A t \in S : \E u \in S :
        /\ C(t) \in Generated /\ Top(u) \in Generated
        /\ rank[Top(u)] <= rank[C(t)]
  <2> TAKE t \in S
  <2>1. PICK u \in S : u \in WaitsFor(t)
    OBVIOUS
  <2>2. C(t) \in On(stack[u]) /\ C(t) \in Classes /\ u \in AllThreads
    BY <2>1, Waiting
  <2>3. C(t) = Top(u) \/ Above(Top(u), C(t))
    BY <1>2, <2>2, TopStep DEF Inv
  <2> HIDE DEF C
  <2>4. Level(C(t)) < 2
    BY <1>2, <2>3, Levels DEF Above
  <2>5. C(t) \in Generated
    BY <2>2, <2>4, Levels DEF Classes, WithNatives
  <2>6. Top(u) \in Generated
    BY <1>2, <2>3, <2>5, Levels DEF Above
  <2>7. C(t) = Top(u) \/ Contains(C(t), Top(u))
    BY <2>3, <2>5, <2>6, Levels DEF Above
  <2>8. rank[Top(u)] <= rank[C(t)]
    <3>1. rank[C(t)] \in Nat
      BY <1>1, <2>5
    <3> QED  BY <1>1, <2>5, <2>6, <2>7, <3>1, RankFalls
  <2> QED  BY <2>5, <2>6, <2>8
<1>4. \A u \in S : Top(u) \in Generated => C(u) \in Generated /\ rank[C(u)] < rank[Top(u)]
  <2> TAKE u \in S
  <2>1. PICK v \in S : v \in WaitsFor(u)
    OBVIOUS
  <2>2. C(u) \in Generated
    BY <1>3
  <2>3. Top(u) \in Generated => C(u) \in Links(Top(u)) \ {Top(u)}
    BY <2>1, <2>2, Waiting
  <2> QED  BY <1>1, <2>2, <2>3
<1>5. \A t \in S : C(t) \in Generated /\ \E u \in S : rank[C(u)] < rank[C(t)]
  <2> TAKE t \in S
  <2> HIDE DEF C
  <2>1. PICK u \in S : C(t) \in Generated /\ Top(u) \in Generated /\ rank[Top(u)] <= rank[C(t)]
    BY <1>3
  <2>2. C(u) \in Generated /\ rank[C(u)] < rank[Top(u)]
    BY <1>4, <2>1
  <2>3. rank[C(u)] \in Nat /\ rank[Top(u)] \in Nat /\ rank[C(t)] \in Nat
    BY <1>1, <2>1, <2>2
  <2>4. rank[C(u)] < rank[C(t)]
    BY <2>1, <2>2, <2>3
  <2> QED  BY <2>1, <2>4
<1> HIDE DEF C
<1> DEFINE R == {rank[C(t)] : t \in S}
<1>6. R \subseteq Nat /\ R # {}
  BY <1>1, <1>5
<1>7. PICK x \in R : \A y \in R : ~(<<y, x>> \in OpToRel(<, Nat))
  <2> HIDE DEF R
  <2> QED  BY <1>6, NatLessThanWellFounded, WFMin, Zenon
<1>8. \A y \in R : ~(y < x)
  BY <1>6, <1>7 DEF OpToRel
<1> QED  BY <1>5, <1>8

\* Where types contain only themselves by way of fields of their own, threads never
\* wait for each other in a circle, neither for classes nor for the library.
THEOREM NoDeadlock == ASSUME ArenaFirst, NoMutualRecursion PROVE Spec => []NoWaitCycle
  BY NoCycle, InitInv, NextInv, PTL DEF Spec

=============================================================================
