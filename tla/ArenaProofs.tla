---------------------------- MODULE ArenaProofs ----------------------------
(***************************************************************************)
(* Proofs about Arena, for any threads and any finite set of arenas, when  *)
(* the operands of a call stay reachable until it returns (FrameRoots).    *)
(*                                                                         *)
(* The argument: IInv is inductive, and implies the invariants; along a    *)
(* step from a state of IInv, Arena takes a step of ArenaLifetime or none  *)
(* of its variables changes.                                               *)
(***************************************************************************)
EXTENDS Arena, FiniteSetTheorems, TLAPS

----------------------------------------------------------------------------
(* Counting owners.                                                        *)

LEMMA OwnersFinite ==
  ASSUME NEW r
  PROVE  IsFiniteSet(Owners(r)) /\ Cardinality(Owners(r)) \in Nat
<1>1. Owners(r) \in SUBSET Arenas
  BY DEF Owners
<1>2. IsFiniteSet(Owners(r))
  BY <1>1, ArenasAssumption, FS_Subset
<1> QED
  BY <1>2, FS_CardinalityType

LEMMA DisjointUnion ==
  ASSUME NEW S, NEW T, IsFiniteSet(S), IsFiniteSet(T), S \cap T = {}
  PROVE  Cardinality(S \cup T) = Cardinality(S) + Cardinality(T)
<1>1. Cardinality(S) \in Nat /\ Cardinality(T) \in Nat
  BY FS_CardinalityType
<1>2. Cardinality(S \cup T) = Cardinality(S) + Cardinality(T) - Cardinality({})
  BY FS_Union
<1> QED
  BY <1>1, <1>2, FS_EmptySet
(* What upb_Arena_Fuse does to two different groups, pointwise.            *)

LEMMA FuseEffect ==
  ASSUME root \in [Arenas -> Arenas], refcount \in [Arenas -> Nat],
         NEW a \in Arenas, NEW b \in Arenas, root[a] # root[b], upb_Arena_Fuse(a, b)
  PROVE  /\ root' \in [Arenas -> Arenas]
         /\ \A x \in Arenas : root'[x] = IF root[x] = root[b] THEN root[a] ELSE root[x]
         /\ refcount' \in [Arenas -> Nat]
         /\ refcount'[root[a]] = refcount[root[a]] + refcount[root[b]]
         /\ refcount'[root[b]] = 0
         /\ \A x \in Arenas \ {root[a], root[b]} : refcount'[x] = refcount[x]
         /\ released' = released
<1> DEFINE ra == root[a]
           rb == root[b]
           sum == refcount[ra] + refcount[rb]
<1>1. ra \in Arenas /\ rb \in Arenas /\ sum \in Nat
  OBVIOUS
<1>2. /\ root' = [x \in Arenas |-> IF root[x] = rb THEN ra ELSE root[x]]
      /\ refcount' = [refcount EXCEPT ![ra] = sum, ![rb] = 0]
      /\ released' = released
  BY DEF upb_Arena_Fuse
<1>3. root' \in [Arenas -> Arenas]
  BY <1>1, <1>2
<1> HIDE DEF sum
<1>4. refcount' \in [Arenas -> Nat]
  BY <1>1, <1>2
<1>5. /\ refcount'[ra] = sum
      /\ refcount'[rb] = 0
      /\ \A x \in Arenas \ {ra, rb} : refcount'[x] = refcount[x]
  BY <1>1, <1>2
<1> QED
  BY <1>2, <1>3, <1>4, <1>5 DEF sum

(* What a constructor does to the groups: nothing, the arena was alone.    *)

LEMMA ConstructEffect ==
  ASSUME TypeOK, UnbornAlone,
         NEW t \in Threads, NEW a \in Arenas, NEW method, Construct(t, a, method)
  PROVE  /\ life[a] = "unborn" /\ life' = [life EXCEPT ![a] = "live"]
         /\ root' = root
         /\ \A x \in Arenas : root[x] = a <=> x = a
         /\ refcount' = [refcount EXCEPT ![a] = 1]
         /\ released' = released
<1>1. root[a] = a /\ \A x \in Arenas : root[x] = a => x = a
  BY DEF Construct, UnbornAlone
<1>2. root' = [root EXCEPT ![a] = a]
  BY DEF Construct, upb_Arena_New
<1>3. root' = root
  BY <1>1, <1>2 DEF TypeOK
<1> QED
  BY <1>1, <1>3 DEF Construct, upb_Arena_New

----------------------------------------------------------------------------
(* Type correctness is preserved, given the counts: refcount is a natural  *)
(* number after upb_Arena_Free because the freed arena was counted.        *)

LEMMA TypeStep ==
  ASSUME TypeOK, OperandsLive, ReaperOwnsRef, OwnersCounted, Next
  PROVE  TypeOK'
<1> USE DEF TypeOK, MaybeArena, Methods, Idle
<1>1. ASSUME NEW t \in Threads, NEW a \in Arenas, NewArena(t, a)
      PROVE  TypeOK'
  BY <1>1 DEF NewArena, Construct, reaperVars, upb_Arena_New
<1>2. ASSUME NEW t \in Threads, NEW a \in Arenas, InitDefaultInstanceArena(t, a)
      PROVE  TypeOK'
  BY <1>2 DEF InitDefaultInstanceArena, Construct, reaperVars, upb_Arena_New
<1>3. ASSUME NEW t \in Threads, NEW a \in Arenas, Drop(t, a)
      PROVE  TypeOK'
  BY <1>3 DEF Drop, reaperVars, upbVars
<1>4. ASSUME NEW t \in Threads, Register(t)
      PROVE  TypeOK'
  BY <1>4 DEF Register, upbVars, OperandsLive
<1>5. ASSUME NEW t \in Threads, RegisterDefault(t)
      PROVE  TypeOK'
  BY <1>5 DEF RegisterDefault, upbVars, OperandsLive
<1>6. ASSUME NEW t \in Threads, GetDefaultInstanceArena(t)
      PROVE  TypeOK'
  BY <1>6 DEF GetDefaultInstanceArena, reaperVars, upbVars
<1>7. ASSUME NEW t \in Threads, FuseNative(t)
      PROVE  TypeOK'
  <2>1. frame[t].a \in Arenas /\ frame[t].b \in Arenas
    BY <1>7 DEF FuseNative, OperandsLive
  <2>2. /\ root' \in [Arenas -> Arenas]
        /\ refcount' \in [Arenas -> Nat]
        /\ released' \subseteq Arenas
    <3>1. CASE root[frame[t].a] = root[frame[t].b]
      BY <1>7, <3>1 DEF FuseNative, upb_Arena_Fuse, upbVars
    <3>2. CASE root[frame[t].a] # root[frame[t].b]
      BY <1>7, <2>1, <3>2, FuseEffect DEF FuseNative
    <3> QED
      BY <3>1, <3>2
  <2> QED
    BY <1>7, <2>2 DEF FuseNative, reaperVars
<1>8. ASSUME NEW t \in Threads, NEW a \in Arenas, NEW b \in Arenas, FuseEnter(t, a, b)
      PROVE  TypeOK'
  BY <1>8 DEF FuseEnter, reaperVars, upbVars
<1>9. ASSUME NEW t \in Threads, NEW u \in Threads, NEW a \in Arenas, Pass(t, u, a)
      PROVE  TypeOK'
  BY <1>9 DEF Pass, reaperVars, upbVars
<1>10. ASSUME NEW a \in Arenas, Collect(a)
       PROVE  TypeOK'
  BY <1>10 DEF Collect, upbVars
<1>11. ASSUME NEW a \in Arenas, ReaperRemove(a)
       PROVE  TypeOK'
  BY <1>11 DEF ReaperRemove, javaVars, upbVars
<1>12. ASSUME ReaperFree
       PROVE  TypeOK'
  <2> DEFINE a == reaper.ref
  <2>1. a \in Arenas /\ life[a] = "collected"
    BY <1>12 DEF ReaperFree, ReaperOwnsRef
  <2>2. a \in Owners(root[a]) /\ root[a] \in Arenas
    BY <2>1 DEF Owners
  <2>3. refcount[root[a]] # 0
    BY <2>2, OwnersFinite, FS_EmptySet DEF OwnersCounted
  <2>4. refcount' \in [Arenas -> Nat]
    BY <1>12, <2>2, <2>3 DEF ReaperFree, upb_Arena_Free
  <2>5. released' \subseteq Arenas /\ root' = root
    BY <1>12, <2>1 DEF ReaperFree, upb_Arena_Free, Group
  <2> QED
    BY <1>12, <2>1, <2>4, <2>5 DEF ReaperFree
<1>13. ASSUME ReaperUnregister
       PROVE  TypeOK'
  BY <1>13 DEF ReaperUnregister, Waiting, javaVars, upbVars
<1> QED
  BY <1>1, <1>2, <1>3, <1>4, <1>5, <1>6, <1>7, <1>8, <1>9, <1>10, <1>11, <1>12, <1>13
  DEF Next
----------------------------------------------------------------------------
(* The other parts of the inductive invariant.                             *)

(* Collect is the step that could break OperandsLive: it takes no arena that is *)
(* held, or is an operand, because both are Reachable.                          *)
LEMMA OperandsStep ==
  ASSUME FrameRoots = TRUE, TypeOK, OperandsLive, ReaperOwnsRef, Next
  PROVE  OperandsLive'
<1> USE DEF TypeOK, OperandsLive, Idle, MaybeArena, Methods, javaVars, reaperVars, upbVars
<1>1. ASSUME NEW t \in Threads, NEW a \in Arenas, NewArena(t, a)
      PROVE  OperandsLive'
  BY <1>1 DEF NewArena, Construct
<1>2. ASSUME NEW t \in Threads, NEW a \in Arenas, InitDefaultInstanceArena(t, a)
      PROVE  OperandsLive'
  BY <1>2 DEF InitDefaultInstanceArena, Construct
<1>3. ASSUME NEW t \in Threads, NEW a \in Arenas, Drop(t, a)
      PROVE  OperandsLive'
  BY <1>3 DEF Drop
<1>4. ASSUME NEW t \in Threads, Register(t)
      PROVE  OperandsLive'
  BY <1>4 DEF Register
<1>5. ASSUME NEW t \in Threads, RegisterDefault(t)
      PROVE  OperandsLive'
  BY <1>5 DEF RegisterDefault
<1>6. ASSUME NEW t \in Threads, GetDefaultInstanceArena(t)
      PROVE  OperandsLive'
  BY <1>6 DEF GetDefaultInstanceArena
<1>7. ASSUME NEW t \in Threads, FuseNative(t)
      PROVE  OperandsLive'
  BY <1>7 DEF FuseNative
<1>8. ASSUME NEW t \in Threads, NEW a \in Arenas, NEW b \in Arenas, FuseEnter(t, a, b)
      PROVE  OperandsLive'
  BY <1>8 DEF FuseEnter
<1>9. ASSUME NEW t \in Threads, NEW u \in Threads, NEW a \in Arenas, Pass(t, u, a)
      PROVE  OperandsLive'
  BY <1>9 DEF Pass
<1>10. ASSUME NEW a \in Arenas, Collect(a)
       PROVE  OperandsLive'
  <2>1. holder # a /\ \A t \in Threads : a \notin held[t]
    BY <1>10, NoArenaAssumption DEF Collect, Reachable
  <2>2. \A t \in Threads : a \notin FrameRefs(t)
    BY <1>10 DEF Collect, Reachable
  <2>3. \A t \in Threads : frame[t].a # a /\ frame[t].b # a
    BY <2>2, NoArenaAssumption DEF FrameRefs
  <2>4. /\ \A x \in Arenas \ {a} : life'[x] = life[x]
        /\ UNCHANGED <<held, frame, holder>>
    BY <1>10 DEF Collect
  <2> QED
    BY <2>1, <2>3, <2>4
<1>11. ASSUME NEW a \in Arenas, ReaperRemove(a)
       PROVE  OperandsLive'
  BY <1>11 DEF ReaperRemove
<1>12. ASSUME ReaperFree
       PROVE  OperandsLive'
  <2>1. reaper.ref \in Arenas /\ life[reaper.ref] = "collected"
    BY <1>12 DEF ReaperFree, ReaperOwnsRef
  <2>2. /\ \A x \in Arenas \ {reaper.ref} : life'[x] = life[x]
        /\ UNCHANGED <<held, frame, holder>>
    BY <1>12, <2>1 DEF ReaperFree
  <2> QED
    BY <2>1, <2>2
<1>13. ASSUME ReaperUnregister
       PROVE  OperandsLive'
  BY <1>13 DEF ReaperUnregister
<1> QED
  BY <1>1, <1>2, <1>3, <1>4, <1>5, <1>6, <1>7, <1>8, <1>9, <1>10, <1>11, <1>12, <1>13
  DEF Next

(* What the reaper takes leaves the queue, and Collect queues live arenas only. *)
LEMMA ReaperOwnsStep ==
  ASSUME TypeOK, OperandsLive, ReaperOwnsRef, Next
  PROVE  ReaperOwnsRef'
<1> USE DEF TypeOK, ReaperOwnsRef, Waiting, MaybeArena, javaVars, reaperVars, upbVars
<1>1. ASSUME NEW t \in Threads, NEW a \in Arenas, NewArena(t, a)
      PROVE  ReaperOwnsRef'
  BY <1>1 DEF NewArena, Construct
<1>2. ASSUME NEW t \in Threads, NEW a \in Arenas, InitDefaultInstanceArena(t, a)
      PROVE  ReaperOwnsRef'
  BY <1>2 DEF InitDefaultInstanceArena, Construct
<1>3. ASSUME NEW t \in Threads, NEW a \in Arenas, Drop(t, a)
      PROVE  ReaperOwnsRef'
  BY <1>3 DEF Drop
<1>4. ASSUME NEW t \in Threads, Register(t)
      PROVE  ReaperOwnsRef'
  BY <1>4 DEF Register
<1>5. ASSUME NEW t \in Threads, RegisterDefault(t)
      PROVE  ReaperOwnsRef'
  BY <1>5 DEF RegisterDefault
<1>6. ASSUME NEW t \in Threads, GetDefaultInstanceArena(t)
      PROVE  ReaperOwnsRef'
  BY <1>6 DEF GetDefaultInstanceArena
<1>7. ASSUME NEW t \in Threads, FuseNative(t)
      PROVE  ReaperOwnsRef'
  BY <1>7 DEF FuseNative
<1>8. ASSUME NEW t \in Threads, NEW a \in Arenas, NEW b \in Arenas, FuseEnter(t, a, b)
      PROVE  ReaperOwnsRef'
  BY <1>8 DEF FuseEnter
<1>9. ASSUME NEW t \in Threads, NEW u \in Threads, NEW a \in Arenas, Pass(t, u, a)
      PROVE  ReaperOwnsRef'
  BY <1>9 DEF Pass
<1>10. ASSUME NEW a \in Arenas, Collect(a)
       PROVE  ReaperOwnsRef'
  BY <1>10 DEF Collect
<1>11. ASSUME NEW a \in Arenas, ReaperRemove(a)
       PROVE  ReaperOwnsRef'
  BY <1>11 DEF ReaperRemove
<1>12. ASSUME ReaperFree
       PROVE  ReaperOwnsRef'
  BY <1>12 DEF ReaperFree
<1>13. ASSUME ReaperUnregister
       PROVE  ReaperOwnsRef'
  BY <1>13 DEF ReaperUnregister
<1> QED
  BY <1>1, <1>2, <1>3, <1>4, <1>5, <1>6, <1>7, <1>8, <1>9, <1>10, <1>11, <1>12, <1>13
  DEF Next

(* An arena's phantom reference is in refs before the constructor's frame goes,
   and leaves refs only when the arena has been freed.                          *)
LEMMA NoArenaLostStep ==
  ASSUME TypeOK, OperandsLive, ReaperOwnsRef, NoArenaLost, Next
  PROVE  NoArenaLost'
<1> USE DEF TypeOK, NoArenaLost, PhantomReachable, Idle, Waiting, javaVars, reaperVars, upbVars
<1>1. ASSUME NEW t \in Threads, NEW a \in Arenas, NewArena(t, a)
      PROVE  NoArenaLost'
  BY <1>1 DEF NewArena, Construct
<1>2. ASSUME NEW t \in Threads, NEW a \in Arenas, InitDefaultInstanceArena(t, a)
      PROVE  NoArenaLost'
  BY <1>2 DEF InitDefaultInstanceArena, Construct
<1>3. ASSUME NEW t \in Threads, NEW a \in Arenas, Drop(t, a)
      PROVE  NoArenaLost'
  BY <1>3 DEF Drop
<1>4. ASSUME NEW t \in Threads, Register(t)
      PROVE  NoArenaLost'
  BY <1>4 DEF Register
<1>5. ASSUME NEW t \in Threads, RegisterDefault(t)
      PROVE  NoArenaLost'
  BY <1>5 DEF RegisterDefault
<1>6. ASSUME NEW t \in Threads, GetDefaultInstanceArena(t)
      PROVE  NoArenaLost'
  BY <1>6 DEF GetDefaultInstanceArena
<1>7. ASSUME NEW t \in Threads, FuseNative(t)
      PROVE  NoArenaLost'
  BY <1>7 DEF FuseNative
<1>8. ASSUME NEW t \in Threads, NEW a \in Arenas, NEW b \in Arenas, FuseEnter(t, a, b)
      PROVE  NoArenaLost'
  BY <1>8 DEF FuseEnter
<1>9. ASSUME NEW t \in Threads, NEW u \in Threads, NEW a \in Arenas, Pass(t, u, a)
      PROVE  NoArenaLost'
  BY <1>9 DEF Pass
<1>10. ASSUME NEW a \in Arenas, Collect(a)
       PROVE  NoArenaLost'
  BY <1>10 DEF Collect
<1>11. ASSUME NEW a \in Arenas, ReaperRemove(a)
       PROVE  NoArenaLost'
  BY <1>11 DEF ReaperRemove
<1>12. ASSUME ReaperFree
       PROVE  NoArenaLost'
  BY <1>12 DEF ReaperFree
<1>13. ASSUME ReaperUnregister
       PROVE  NoArenaLost'
  BY <1>13 DEF ReaperUnregister, ReaperOwnsRef
<1> QED
  BY <1>1, <1>2, <1>3, <1>4, <1>5, <1>6, <1>7, <1>8, <1>9, <1>10, <1>11, <1>12, <1>13
  DEF Next

(* upb_Arena_Fuse joins live arenas only. *)
LEMMA UnbornAloneStep ==
  ASSUME TypeOK, OperandsLive, ReaperOwnsRef, UnbornAlone, Next
  PROVE  UnbornAlone'
<1> USE DEF TypeOK, UnbornAlone, javaVars, reaperVars, upbVars
<1>1. ASSUME NEW t \in Threads, NEW a \in Arenas, NewArena(t, a)
      PROVE  UnbornAlone'
  <2>1. Construct(t, a, "register")
    BY <1>1 DEF NewArena
  <2> QED
    BY <2>1, ConstructEffect
<1>2. ASSUME NEW t \in Threads, NEW a \in Arenas, InitDefaultInstanceArena(t, a)
      PROVE  UnbornAlone'
  <2>1. Construct(t, a, "registerDefault")
    BY <1>2 DEF InitDefaultInstanceArena
  <2> QED
    BY <2>1, ConstructEffect
<1>3. ASSUME NEW t \in Threads, NEW a \in Arenas, Drop(t, a)
      PROVE  UnbornAlone'
  BY <1>3 DEF Drop
<1>4. ASSUME NEW t \in Threads, Register(t)
      PROVE  UnbornAlone'
  BY <1>4 DEF Register
<1>5. ASSUME NEW t \in Threads, RegisterDefault(t)
      PROVE  UnbornAlone'
  BY <1>5 DEF RegisterDefault
<1>6. ASSUME NEW t \in Threads, GetDefaultInstanceArena(t)
      PROVE  UnbornAlone'
  BY <1>6 DEF GetDefaultInstanceArena
<1>7. ASSUME NEW t \in Threads, FuseNative(t)
      PROVE  UnbornAlone'
  <2> DEFINE a == frame[t].a
             b == frame[t].b
  <2>1. /\ a \in Arenas /\ b \in Arenas
        /\ life[a] = "live" /\ life[b] = "live"
        /\ upb_Arena_Fuse(a, b) /\ life' = life
    BY <1>7 DEF FuseNative, OperandsLive, Idle
  <2> HIDE DEF a, b
  <2>2. CASE root[a] = root[b]
    <3>1. root' = root
      BY <2>1, <2>2 DEF upb_Arena_Fuse
    <3> QED
      BY <2>1, <3>1
  <2>3. CASE root[a] # root[b]
    <3>1. \A x \in Arenas : root'[x] = IF root[x] = root[b] THEN root[a] ELSE root[x]
      BY <2>1, <2>3, FuseEffect
    <3>2. ASSUME NEW x \in Arenas, life[x] = "unborn"
          PROVE  root[a] # x /\ root[b] # x
      BY <2>1, <3>2
    <3> QED
      BY <2>1, <3>1, <3>2
  <2> QED
    BY <2>2, <2>3
<1>8. ASSUME NEW t \in Threads, NEW a \in Arenas, NEW b \in Arenas, FuseEnter(t, a, b)
      PROVE  UnbornAlone'
  BY <1>8 DEF FuseEnter
<1>9. ASSUME NEW t \in Threads, NEW u \in Threads, NEW a \in Arenas, Pass(t, u, a)
      PROVE  UnbornAlone'
  BY <1>9 DEF Pass
<1>10. ASSUME NEW a \in Arenas, Collect(a)
       PROVE  UnbornAlone'
  BY <1>10 DEF Collect
<1>11. ASSUME NEW a \in Arenas, ReaperRemove(a)
       PROVE  UnbornAlone'
  BY <1>11 DEF ReaperRemove
<1>12. ASSUME ReaperFree
       PROVE  UnbornAlone'
  BY <1>12 DEF ReaperFree, ReaperOwnsRef, upb_Arena_Free
<1>13. ASSUME ReaperUnregister
       PROVE  UnbornAlone'
  BY <1>13 DEF ReaperUnregister
<1> QED
  BY <1>1, <1>2, <1>3, <1>4, <1>5, <1>6, <1>7, <1>8, <1>9, <1>10, <1>11, <1>12, <1>13
  DEF Next
(* The four steps that change a group or the life of one of its arenas.    *)

LEMMA OwnersCountedConstruct ==
  ASSUME TypeOK, UnbornAlone, OwnersCounted,
         NEW t \in Threads, NEW a \in Arenas, NEW method, Construct(t, a, method)
  PROVE  OwnersCounted'
<1> DEFINE New(s) == {x \in Arenas : root'[x] = s /\ life'[x] \in {"live", "collected"}}
<1>1. /\ life[a] = "unborn" /\ life' = [life EXCEPT ![a] = "live"]
      /\ root' = root
      /\ \A x \in Arenas : root[x] = a <=> x = a
      /\ refcount' = [refcount EXCEPT ![a] = 1]
      /\ released' = released
  BY ConstructEffect
<1>2. New(a) = {a}
  BY <1>1 DEF Owners, TypeOK
<1>3. \A r \in Arenas \ {a} : New(r) = Owners(r)
  BY <1>1 DEF Owners, TypeOK
<1> HIDE DEF New
<1>4. \A r \in Arenas : refcount'[r] = Cardinality(New(r))
  BY <1>1, <1>2, <1>3, FS_Singleton DEF OwnersCounted, TypeOK
<1>5. \A x \in Arenas : x \in released' <=> life'[x] # "unborn" /\ New(root[x]) = {}
  <2>1. a \notin released
    BY <1>1 DEF OwnersCounted
  <2>2. ASSUME NEW x \in Arenas \ {a}
        PROVE  /\ root[x] \in Arenas \ {a}
               /\ life'[x] = life[x]
    BY <1>1 DEF TypeOK
  <2> QED
    BY <1>1, <1>2, <1>3, <2>1, <2>2 DEF OwnersCounted
<1> QED
  BY <1>1, <1>4, <1>5 DEF OwnersCounted, Owners, New

LEMMA OwnersCountedFuse ==
  ASSUME TypeOK, OwnersCounted,
         NEW a \in Arenas, NEW b \in Arenas, root[a] # root[b],
         life[a] = "live", life[b] = "live",
         upb_Arena_Fuse(a, b), life' = life
  PROVE  OwnersCounted'
<1> DEFINE New(s) == {x \in Arenas : root'[x] = s /\ life'[x] \in {"live", "collected"}}
<1> DEFINE ra == root[a]
           rb == root[b]
<1>1. /\ \A x \in Arenas : root'[x] = IF root[x] = rb THEN ra ELSE root[x]
      /\ refcount'[ra] = refcount[ra] + refcount[rb]
      /\ refcount'[rb] = 0
      /\ \A x \in Arenas \ {ra, rb} : refcount'[x] = refcount[x]
      /\ released' = released
  BY FuseEffect DEF TypeOK
<1>2. ra \in Arenas /\ rb \in Arenas /\ ra # rb
  BY DEF TypeOK
<1>3. a \in Owners(ra) /\ b \in Owners(rb) /\ Owners(ra) \cap Owners(rb) = {}
  BY DEF Owners
<1> HIDE DEF ra, rb
<1>4. /\ New(ra) = Owners(ra) \cup Owners(rb)
      /\ New(rb) = {}
      /\ \A r \in Arenas \ {ra, rb} : New(r) = Owners(r)
  BY <1>1, <1>2 DEF Owners
<1> HIDE DEF New
<1>5. refcount'[ra] = Cardinality(New(ra))
  <2>1. Cardinality(Owners(ra) \cup Owners(rb)) = Cardinality(Owners(ra)) + Cardinality(Owners(rb))
    BY <1>3, OwnersFinite, DisjointUnion
  <2>2. refcount[ra] = Cardinality(Owners(ra)) /\ refcount[rb] = Cardinality(Owners(rb))
    BY <1>2 DEF OwnersCounted
  <2> QED
    BY <1>1, <1>4, <2>1, <2>2
<1>6. refcount'[rb] = Cardinality(New(rb))
  <2>1. Cardinality({}) = 0
    BY FS_EmptySet
  <2> QED
    BY <1>1, <1>4, <2>1
<1>7. \A r \in Arenas : refcount'[r] = Cardinality(New(r))
  <2>1. ASSUME NEW r \in Arenas \ {ra, rb}
        PROVE  refcount'[r] = Cardinality(New(r))
    <3>1. refcount'[r] = refcount[r] /\ New(r) = Owners(r)
      BY <1>1, <1>4
    <3>2. refcount[r] = Cardinality(Owners(r))
      BY DEF OwnersCounted
    <3> QED
      BY <3>1, <3>2
  <2> QED
    BY <1>5, <1>6, <2>1
<1>8. ASSUME NEW x \in Arenas
      PROVE  x \in released' <=> life'[x] # "unborn" /\ New(root'[x]) = {}
  <2>1. root[x] \in Arenas
    BY DEF TypeOK
  <2>2. CASE root[x] \in {ra, rb}
    <3>1. x \notin released
      BY <1>3, <2>2 DEF OwnersCounted
    <3>2. root'[x] = ra
      BY <1>1, <2>2
    <3> QED
      BY <1>1, <1>3, <1>4, <3>1, <3>2
  <2>3. CASE root[x] \notin {ra, rb}
    <3>1. root'[x] = root[x]
      BY <1>1, <2>3
    <3>2. New(root'[x]) = Owners(root[x])
      BY <1>4, <2>1, <2>3, <3>1
    <3> QED
      BY <1>1, <3>2 DEF OwnersCounted
  <2> QED
    BY <2>2, <2>3
<1> QED
  BY <1>7, <1>8 DEF OwnersCounted, Owners, New

LEMMA OwnersCountedCollect ==
  ASSUME TypeOK, OwnersCounted, NEW a \in Arenas, Collect(a)
  PROVE  OwnersCounted'
<1> DEFINE New(s) == {x \in Arenas : root'[x] = s /\ life'[x] \in {"live", "collected"}}
<1>1. life[a] = "live" /\ life' = [life EXCEPT ![a] = "collected"]
  BY DEF Collect
<1>2. root' = root /\ refcount' = refcount /\ released' = released
  BY DEF Collect, upbVars
<1>3. \A r : New(r) = Owners(r)
  BY <1>1, <1>2 DEF Owners, TypeOK
<1>4. \A x \in Arenas : life'[x] = "unborn" <=> life[x] = "unborn"
  BY <1>1 DEF TypeOK
<1>5. \A r \in Arenas : refcount'[r] = Cardinality(New(r))
  BY <1>2, <1>3 DEF OwnersCounted
<1>6. \A x \in Arenas : x \in released' <=> life'[x] # "unborn" /\ New(root'[x]) = {}
  BY <1>2, <1>3, <1>4 DEF OwnersCounted
<1> QED
  BY <1>5, <1>6 DEF OwnersCounted, Owners

(* The reaper frees a: upb's count says whether a was the last of its group. *)

LEMMA FreeEffect ==
  ASSUME TypeOK, ReaperOwnsRef, UnbornAlone, OwnersCounted, ReaperFree
  PROVE  LET a == reaper.ref
             r == root[a]
         IN  /\ a \in Arenas /\ life[a] = "collected" /\ a \notin released
             /\ r \in Arenas /\ a \in Owners(r)
             /\ life' = [life EXCEPT ![a] = "freed"]
             /\ root' = root
             /\ refcount' = [refcount EXCEPT ![r] = refcount[r] - 1]
             /\ \/ Owners(r) = {a} /\ released' = released \cup Group(a)
                \/ Owners(r) # {a} /\ released' = released
             /\ \A x \in Group(a) : life[x] # "unborn"
<1> DEFINE a == reaper.ref
           r == root[a]
<1>1. a \in Arenas /\ life[a] = "collected"
  BY DEF ReaperFree, ReaperOwnsRef
<1>2. r \in Arenas /\ a \in Owners(r)
  BY <1>1 DEF Owners, TypeOK
<1>3. a \notin released
  BY <1>1, <1>2 DEF OwnersCounted
<1>4. /\ life' = [life EXCEPT ![a] = "freed"]
      /\ root' = root
      /\ refcount' = [refcount EXCEPT ![r] = refcount[r] - 1]
      /\ released' = IF refcount[r] = 1 THEN released \cup Group(a) ELSE released
  BY DEF ReaperFree, upb_Arena_Free
<1>5. refcount[r] = 1 <=> Owners(r) = {a}
  <2>1. refcount[r] = Cardinality(Owners(r))
    BY <1>2 DEF OwnersCounted
  <2>2. Cardinality(Owners(r)) = 1 <=> \E x : Owners(r) = {x}
    BY OwnersFinite, FS_Singleton
  <2> QED
    BY <1>2, <2>1, <2>2
<1>6. \A x \in Group(a) : life[x] # "unborn"
  BY <1>1 DEF Group, UnbornAlone, TypeOK
<1> QED
  BY <1>1, <1>2, <1>3, <1>4, <1>5, <1>6

LEMMA OwnersCountedFree ==
  ASSUME TypeOK, ReaperOwnsRef, UnbornAlone, OwnersCounted, ReaperFree
  PROVE  OwnersCounted'
<1> DEFINE New(s) == {x \in Arenas : root'[x] = s /\ life'[x] \in {"live", "collected"}}
<1> DEFINE a == reaper.ref
           r == root[a]
<1>1. /\ a \in Arenas /\ life[a] = "collected" /\ a \notin released
      /\ r \in Arenas /\ a \in Owners(r)
      /\ life' = [life EXCEPT ![a] = "freed"]
      /\ root' = root
      /\ refcount' = [refcount EXCEPT ![r] = refcount[r] - 1]
      /\ \/ Owners(r) = {a} /\ released' = released \cup Group(a)
         \/ Owners(r) # {a} /\ released' = released
      /\ \A x \in Group(a) : life[x] # "unborn"
  BY FreeEffect
<1>2. New(r) = Owners(r) \ {a}
  BY <1>1 DEF Owners, TypeOK
<1>3. \A s \in Arenas \ {r} : New(s) = Owners(s)
  BY <1>1 DEF Owners, TypeOK
<1> HIDE DEF New, r
<1>4. refcount'[r] = Cardinality(New(r))
  <2>1. Cardinality(Owners(r) \ {a}) = Cardinality(Owners(r)) - 1
    BY <1>1, OwnersFinite, FS_RemoveElement
  <2>2. refcount[r] = Cardinality(Owners(r))
    BY <1>1 DEF OwnersCounted
  <2> QED
    BY <1>1, <1>2, <2>1, <2>2 DEF TypeOK
<1>5. \A s \in Arenas : refcount'[s] = Cardinality(New(s))
  BY <1>1, <1>3, <1>4 DEF OwnersCounted, TypeOK
<1>6. ASSUME NEW x \in Arenas
      PROVE  x \in released' <=> life'[x] # "unborn" /\ New(root[x]) = {}
  <2> HIDE DEF a, r
  <2>1. life'[x] = "unborn" <=> life[x] = "unborn"
    BY <1>1 DEF TypeOK
  <2>2. x \in Group(a) <=> root[x] = r
    BY DEF Group, r
  <2>3. CASE root[x] = r
    <3>1. x \notin released
      BY <1>1, <2>3 DEF OwnersCounted
    <3>2. life[x] # "unborn"
      BY <1>1, <2>2, <2>3
    <3>3. New(root[x]) = {} <=> Owners(r) = {a}
      BY <1>1, <1>2, <2>3
    <3> QED
      BY <1>1, <2>1, <2>2, <2>3, <3>1, <3>2, <3>3
  <2>4. CASE root[x] # r
    <3>1. New(root[x]) = Owners(root[x])
      BY <1>3, <2>4 DEF TypeOK
    <3>2. x \in released' <=> x \in released
      BY <1>1, <2>2, <2>4
    <3> QED
      BY <2>1, <3>1, <3>2 DEF OwnersCounted
  <2> QED
    BY <2>3, <2>4
<1> QED
  BY <1>1, <1>5, <1>6 DEF OwnersCounted, Owners, New
LEMMA OwnersCountedStep ==
  ASSUME TypeOK, OperandsLive, ReaperOwnsRef, UnbornAlone, OwnersCounted, Next
  PROVE  OwnersCounted'
<1> DEFINE Same == UNCHANGED <<life, upbVars>>
<1>1. ASSUME NEW t \in Threads, NEW a \in Arenas,
             NewArena(t, a) \/ InitDefaultInstanceArena(t, a)
      PROVE  OwnersCounted'
  BY <1>1, OwnersCountedConstruct DEF NewArena, InitDefaultInstanceArena
<1>2. ASSUME NEW t \in Threads, FuseNative(t)
      PROVE  OwnersCounted'
  <2>1. /\ frame[t].a \in Arenas /\ frame[t].b \in Arenas
        /\ life[frame[t].a] = "live" /\ life[frame[t].b] = "live"
        /\ upb_Arena_Fuse(frame[t].a, frame[t].b) /\ life' = life
    BY <1>2 DEF FuseNative, OperandsLive, Idle
  <2>2. CASE root[frame[t].a] = root[frame[t].b]
    BY <2>1, <2>2 DEF upb_Arena_Fuse, upbVars, OwnersCounted, Owners
  <2>3. CASE root[frame[t].a] # root[frame[t].b]
    BY <2>1, <2>3, OwnersCountedFuse
  <2> QED
    BY <2>2, <2>3
<1>3. ASSUME NEW a \in Arenas, Collect(a)
      PROVE  OwnersCounted'
  BY <1>3, OwnersCountedCollect
<1>4. CASE ReaperFree
  BY <1>4, OwnersCountedFree
<1>5. CASE Same
  BY <1>5 DEF OwnersCounted, Owners, upbVars
<1>6. ASSUME NEW t \in Threads, NEW u \in Threads, NEW a \in Arenas, NEW b \in Arenas,
             Drop(t, a) \/ FuseEnter(t, a, b) \/ Pass(t, u, a)
      PROVE  Same
  BY <1>6 DEF Drop, FuseEnter, Pass
<1>7. ASSUME ReaperUnregister \/ \E a \in Arenas : ReaperRemove(a)
      PROVE  Same
  BY <1>7 DEF ReaperRemove, ReaperUnregister, javaVars
<1>8. ASSUME NEW t \in Threads, Register(t) \/ RegisterDefault(t) \/ GetDefaultInstanceArena(t)
      PROVE  Same
  BY <1>8 DEF Register, RegisterDefault, GetDefaultInstanceArena
<1> QED
  BY <1>1, <1>2, <1>3, <1>4, <1>5, <1>6, <1>7, <1>8 DEF Next

----------------------------------------------------------------------------
(* The invariants, for every state SafetySpec reaches.                     *)

LEMMA InitIInv ==
  ASSUME Init
  PROVE  IInv
<1> USE DEF Init, UpbInit
<1>1. TypeOK
  BY DEF TypeOK, Idle, Waiting, Methods, MaybeArena
<1>2. OperandsLive
  BY DEF OperandsLive
<1>3. ReaperOwnsRef
  BY DEF ReaperOwnsRef, Waiting
<1>4. NoArenaLost
  BY DEF NoArenaLost
<1>5. UnbornAlone
  BY DEF UnbornAlone
<1>6. OwnersCounted
  <2>1. \A r \in Arenas : Owners(r) = {}
    BY DEF Owners
  <2>2. Cardinality({}) = 0
    BY FS_EmptySet
  <2> QED
    BY <2>1, <2>2 DEF OwnersCounted
<1> QED
  BY <1>1, <1>2, <1>3, <1>4, <1>5, <1>6 DEF IInv

LEMMA StutterIInv ==
  ASSUME IInv, UNCHANGED vars
  PROVE  IInv'
BY DEF IInv, vars, TypeOK, OperandsLive, ReaperOwnsRef, NoArenaLost, PhantomReachable,
       UnbornAlone, OwnersCounted, Owners

\* IInv holds in every state the system reaches when the operands of a running
\* call are reachable.
THEOREM InductiveInvariant ==
  ASSUME FrameRoots = TRUE
  PROVE  SafetySpec => []IInv
<1>1. Init => IInv
  BY InitIInv
<1>2. IInv /\ [Next]_vars => IInv'
  <2> SUFFICES ASSUME IInv, [Next]_vars
               PROVE  IInv'
    OBVIOUS
  <2>1. CASE Next
    BY <2>1, TypeStep, OperandsStep, ReaperOwnsStep, NoArenaLostStep, UnbornAloneStep,
       OwnersCountedStep
    DEF IInv
  <2>2. CASE UNCHANGED vars
    BY <2>2, StutterIInv
  <2> QED
    BY <2>1, <2>2
<1> QED
  BY <1>1, <1>2, PTL DEF SafetySpec

\* The variables keep their types; in particular no reference count of upb is
\* ever taken below zero.
THEOREM TypeCorrect ==
  ASSUME FrameRoots = TRUE
  PROVE  SafetySpec => []TypeOK
<1>1. IInv => TypeOK
  BY DEF IInv
<1> QED
  BY <1>1, InductiveInvariant, PTL

\* The native memory of a reachable Arena and of all it was fused with stays.
THEOREM MemoryKept ==
  ASSUME FrameRoots = TRUE
  PROVE  SafetySpec => []ReachableMemoryKept
<1>1. ASSUME IInv
      PROVE  ReachableMemoryKept
  <2> SUFFICES ASSUME NEW a \in Arenas, life[a] = "live",
                      NEW x \in Group(a), x \in released
               PROVE  FALSE
    BY DEF ReachableMemoryKept
  <2>1. x \in Arenas /\ root[x] = root[a]
    BY DEF Group
  <2>2. Owners(root[a]) = {}
    BY <1>1, <2>1 DEF IInv, OwnersCounted
  <2>3. a \in Owners(root[a])
    BY DEF Owners
  <2> QED
    BY <2>2, <2>3
<1> QED
  BY <1>1, InductiveInvariant, PTL

\* No native call gets the address of memory that was given back; the reaper
\* frees no address twice.
THEOREM OperandsValid ==
  ASSUME FrameRoots = TRUE
  PROVE  SafetySpec => []NativeOperandsValid
<1>1. ASSUME IInv
      PROVE  NativeOperandsValid
  <2>1. ASSUME NEW a \in Arenas, life[a] \in {"live", "collected"}
        PROVE  a \notin released
    <3>1. a \in Owners(root[a])
      BY <2>1 DEF Owners
    <3> QED
      BY <1>1, <3>1 DEF IInv, OwnersCounted
  <2>2. ASSUME NEW t \in Threads, frame[t].method = "fuse"
        PROVE  {frame[t].a, frame[t].b} \cap released = {}
    BY <1>1, <2>1, <2>2 DEF IInv, OperandsLive, Idle
  <2>3. reaper.pc = "free" => life[reaper.ref] = "collected" /\ reaper.ref \notin released
    BY <1>1, <2>1 DEF IInv, ReaperOwnsRef
  <2> QED
    BY <2>2, <2>3 DEF NativeOperandsValid
<1> QED
  BY <1>1, InductiveInvariant, PTL

\* Every arena's phantom reference is kept, queued or being worked on until the
\* native arena is freed.
THEOREM NoneLost ==
  ASSUME FrameRoots = TRUE
  PROVE  SafetySpec => []NoArenaLost
<1>1. IInv => NoArenaLost
  BY DEF IInv
<1> QED
  BY <1>1, InductiveInvariant, PTL

\* upb's reference counts are the numbers of arenas the reaper has still to free.
THEOREM CountsExact ==
  ASSUME FrameRoots = TRUE
  PROVE  SafetySpec => []OwnersCounted
<1>1. IInv => OwnersCounted
  BY DEF IInv
<1> QED
  BY <1>1, InductiveInvariant, PTL
----------------------------------------------------------------------------
(* Arena implements ArenaLifetime (its safety part).                       *)

LEMMA LifetimeUnchanged ==
  ASSUME \A a \in Arenas : life'[a] = life[a]
                           \/ (life[a] = "collected" /\ life'[a] = "freed"),
         root' = root, released' = released
  PROVE  UNCHANGED Lifetime!vars
BY DEF Lifetime!vars, Group

LEMMA LifetimeCreate ==
  ASSUME IInv, NEW t \in Threads, NEW a \in Arenas, NEW method, Construct(t, a, method)
  PROVE  Lifetime!Create(a)
<1>1. /\ life[a] = "unborn" /\ life' = [life EXCEPT ![a] = "live"]
      /\ root' = root /\ released' = released
  BY ConstructEffect DEF IInv
<1> QED
  BY <1>1 DEF Lifetime!Create, Group, IInv, TypeOK

LEMMA LifetimeFuse ==
  ASSUME IInv, NEW a \in Arenas, NEW b \in Arenas,
         life[a] = "live", life[b] = "live", root[a] # root[b],
         upb_Arena_Fuse(a, b), life' = life
  PROVE  Lifetime!Fuse(a, b)
<1>1. /\ \A x \in Arenas : root'[x] = IF root[x] = root[b] THEN root[a] ELSE root[x]
      /\ released' = released
  BY FuseEffect DEF IInv, TypeOK
<1> DEFINE joined == Group(a) \cup Group(b)
<1>2. ASSUME NEW x \in Arenas
      PROVE  {y \in Arenas : root'[y] = root'[x]} = IF x \in joined THEN joined ELSE Group(x)
  BY <1>1 DEF Group
<1> QED
  BY <1>1, <1>2 DEF Lifetime!Fuse, Group

LEMMA LifetimeReclaim ==
  ASSUME IInv, ReaperFree
  PROVE  (\E a \in Arenas : Lifetime!Reclaim(a)) \/ UNCHANGED Lifetime!vars
<1> DEFINE a == reaper.ref
           r == root[a]
<1>1. /\ a \in Arenas /\ life[a] = "collected" /\ a \notin released
      /\ life' = [life EXCEPT ![a] = "freed"]
      /\ root' = root
      /\ \/ Owners(r) = {a} /\ released' = released \cup Group(a)
         \/ Owners(r) # {a} /\ released' = released
      /\ \A x \in Group(a) : life[x] # "unborn"
  BY FreeEffect DEF IInv
<1> HIDE DEF a
<1>2. \A x \in Arenas : life'[x] = life[x] \/ (life[x] = "collected" /\ life'[x] = "freed")
  BY <1>1 DEF IInv, TypeOK
<1>3. CASE Owners(r) # {a}
  BY <1>1, <1>2, <1>3, LifetimeUnchanged
<1>4. CASE Owners(r) = {a}
  <2>1. \A x \in Group(a) : life[x] \in {"collected", "freed"}
    <3> SUFFICES ASSUME NEW x \in Group(a), life[x] = "live"
                 PROVE  FALSE
      BY <1>1 DEF Group, IInv, TypeOK
    <3>1. x \in Owners(r)
      BY DEF Owners, Group
    <3> QED
      BY <1>1, <1>4, <3>1
  <2>2. Lifetime!Reclaim(a)
    BY <1>1, <1>2, <1>4, <2>1 DEF Lifetime!Reclaim, Group
  <2> QED
    BY <1>1, <2>2
<1> QED
  BY <1>3, <1>4

LEMMA LifetimeStep ==
  ASSUME IInv, Next
  PROVE  [Lifetime!Next]_(Lifetime!vars)
<1>1. ASSUME NEW t \in Threads, NEW a \in Arenas,
             NewArena(t, a) \/ InitDefaultInstanceArena(t, a)
      PROVE  Lifetime!Next
  BY <1>1, LifetimeCreate DEF NewArena, InitDefaultInstanceArena, Lifetime!Next
<1>2. ASSUME NEW t \in Threads, FuseNative(t)
      PROVE  Lifetime!Next \/ UNCHANGED Lifetime!vars
  <2>1. /\ frame[t].a \in Arenas /\ frame[t].b \in Arenas
        /\ life[frame[t].a] = "live" /\ life[frame[t].b] = "live"
        /\ upb_Arena_Fuse(frame[t].a, frame[t].b) /\ life' = life
    BY <1>2 DEF FuseNative, OperandsLive, Idle, IInv
  <2>2. CASE root[frame[t].a] = root[frame[t].b]
    BY <2>1, <2>2, LifetimeUnchanged DEF upb_Arena_Fuse, upbVars
  <2>3. CASE root[frame[t].a] # root[frame[t].b]
    BY <2>1, <2>3, LifetimeFuse DEF Lifetime!Next
  <2> QED
    BY <2>2, <2>3
<1>3. ASSUME NEW a \in Arenas, Collect(a)
      PROVE  Lifetime!Next
  <2>1. Lifetime!Die(a)
    BY <1>3 DEF Collect, upbVars, Lifetime!Die, Group, IInv, TypeOK
  <2> QED
    BY <2>1 DEF Lifetime!Next
<1>4. CASE ReaperFree
  BY <1>4, LifetimeReclaim DEF Lifetime!Next
<1>5. ASSUME UNCHANGED <<life, upbVars>>
      PROVE  UNCHANGED Lifetime!vars
  BY <1>5, LifetimeUnchanged DEF upbVars
<1>6. ASSUME NEW t \in Threads, NEW u \in Threads, NEW a \in Arenas, NEW b \in Arenas,
             Drop(t, a) \/ FuseEnter(t, a, b) \/ Pass(t, u, a)
      PROVE  UNCHANGED Lifetime!vars
  BY <1>5, <1>6 DEF Drop, FuseEnter, Pass
<1>7. ASSUME NEW t \in Threads, Register(t) \/ RegisterDefault(t) \/ GetDefaultInstanceArena(t)
      PROVE  UNCHANGED Lifetime!vars
  BY <1>5, <1>7 DEF Register, RegisterDefault, GetDefaultInstanceArena
<1>8. ASSUME ReaperUnregister \/ \E a \in Arenas : ReaperRemove(a)
      PROVE  UNCHANGED Lifetime!vars
  BY <1>5, <1>8 DEF ReaperRemove, ReaperUnregister, javaVars
<1> QED
  BY <1>1, <1>2, <1>3, <1>4, <1>6, <1>7, <1>8 DEF Next

\* Every behaviour of Arena is one of ArenaLifetime: the memory of a group of fused
\* arenas is given back only as a whole, and only when none of them is reachable.
THEOREM LifetimeRefinement ==
  ASSUME FrameRoots = TRUE
  PROVE  SafetySpec => ImplementsLifetimeSafety
<1>1. Init => Lifetime!Init
  BY DEF Init, UpbInit, Lifetime!Init, Group
<1>2. IInv /\ [Next]_vars => [Lifetime!Next]_(Lifetime!vars)
  <2> SUFFICES ASSUME IInv, [Next]_vars
               PROVE  [Lifetime!Next]_(Lifetime!vars)
    OBVIOUS
  <2>1. CASE Next
    BY <2>1, LifetimeStep
  <2>2. CASE UNCHANGED vars
    BY <2>2, LifetimeUnchanged DEF vars
  <2> QED
    BY <2>1, <2>2
<1> QED
  BY <1>1, <1>2, InductiveInvariant, PTL
  DEF SafetySpec, ImplementsLifetimeSafety, Lifetime!SafetySpec
=============================================================================
