---------------------------- MODULE RuntimeProofs ----------------------------
(***************************************************************************)
(* Proofs about Runtime, for any number of threads, arenas, levels and     *)
(* calls, on the assumption that the JVM keeps the operands of a running   *)
(* call (FrameRoots).                                                      *)
(*                                                                         *)
(* The argument: what a thread holds is in an arena fused with the one     *)
(* that it carries for it, and so is a submessage with the message above   *)
(* it, but for the one pointer that a call has stored and not yet fused;   *)
(* arenas that are carried are live, and whole groups are released at      *)
(* once, all of them dead.  Apart from that, what a builder writes to is   *)
(* held by nobody else, and arenas to allocate in have one owner.          *)
(* Classes are initialised from the linked one up, each by one thread, so  *)
(* every message there is belongs to a class whose default instance exists *)
(* with those of the classes under it.                                     *)
(***************************************************************************)
EXTENDS Runtime, TLAPS

----------------------------------------------------------------------------
(* The inductive invariant.                                                *)

Setting == {"clone", "store", "fuse", "hasbit"}
Parsing == {"build", "decode"}
Loading == {"link", "table", "default"}
PCs == {"idle", "get", "encode"} \cup Setting \cup Parsing \cup Loading

Frame == [pc : PCs, ptr : Address \cup {None}, in : Arenas \cup {None},
          value : Message \cup {None}, operands : SUBSET Arenas]

Typed ==
  /\ DOMAIN mem \subseteq Address
  /\ mem \in [DOMAIN mem -> [arena : Arenas, sub : Address \cup {None}]]
  /\ group \in [Arenas -> Arenas]
  /\ life \in [Arenas -> {"unborn", "live", "freed"}]
  /\ released \subseteq Arenas
  /\ local \in [Threads -> [arena : Arenas \cup {None}, message : Message \cup {None},
                            builder : Builder \cup {None}]]
  /\ frame \in [Threads -> Frame]
  /\ calls \in [Threads -> 0..MaxCalls]
  /\ initializer \in [Level -> Threads \cup {None}]

\* m is what thread t reads through, or is about to set.
Holds(t, m) ==
  \/ local[t].message # None /\ m = local[t].message
  \/ local[t].builder # None /\ m = local[t].builder.instance
  \/ frame[t].value # None /\ m = frame[t].value

\* Thread t has the reference to arena a.
Carries(t, a) ==
  /\ a # None
  /\ \/ a = local[t].arena
     \/ local[t].message # None /\ a = local[t].message.arena
     \/ local[t].builder # None /\ (a = local[t].builder.arena \/ a = local[t].builder.instance.arena)
     \/ a \in frame[t].operands

\* Thread t allocates in arena a, or will.
Owns(t, a) ==
  /\ a # None
  /\ \/ a = local[t].arena
     \/ local[t].builder # None /\ a = local[t].builder.arena
     \/ frame[t].pc \in Setting \cup Parsing /\ a = frame[t].in

\* Thread t's builder writes to its instance, which it has copied.
Dirty(t) == local[t].builder # None /\ local[t].builder.isDirty /\ frame[t].pc # "clone"

\* The frame of a call agrees with the variables that the call uses.
FrameOK(t) ==
  LET f == frame[t]
      b == local[t].builder
  IN  /\ f.pc # "idle" => f.in \in f.operands
      /\ f.value # None => f.value.arena \in f.operands
      /\ f.pc \in {"get", "encode"} =>
           f.ptr \in DOMAIN mem /\ group[mem[f.ptr].arena] = group[f.in]
      /\ f.pc \in Setting =>
           /\ b # None /\ b.isDirty
           /\ f.ptr = b.instance.ptr /\ f.in = b.arena
           /\ b.instance.arena \in f.operands
           /\ f.value # None => f.value.ptr[3] + 1 = f.ptr[3]
      /\ f.pc \in {"store", "fuse"} => f.value # None
      /\ f.pc \notin Setting => f.value = None
      /\ f.pc \in Parsing => \E n \in Level : f.ptr = NextAddress(t, n)
      /\ f.pc \in Parsing \cup {"clone"} => CallsLeft(t)

FramesOK == \A t \in Threads : FrameOK(t)

HeldFused ==
  \A t \in Threads : \A m \in Message :
    Holds(t, m) => m.ptr \in DOMAIN mem /\ group[mem[m.ptr].arena] = group[m.arena]

DirtyInOwnArena ==
  \A t \in Threads : Dirty(t) => local[t].builder.instance.arena = local[t].builder.arena

\* The pointer at p has been stored and its arena not yet fused.
Unfused(p) ==
  \E t \in Threads :
    frame[t].pc = "fuse" /\ frame[t].ptr = p /\ frame[t].value.ptr = mem[p].sub

SubFused ==
  \A p \in DOMAIN mem :
    mem[p].sub # None =>
      /\ mem[p].sub \in DOMAIN mem
      /\ mem[p].sub[3] + 1 = p[3]
      /\ group[mem[mem[p].sub].arena] = group[mem[p].arena] \/ Unfused(p)

CarriedLive == \A t \in Threads : \A a \in Arenas : Carries(t, a) => life[a] = "live"

DefaultsThere ==
  /\ life[DefaultArena] = "live"
  /\ \A n \in Level : Initialized(n) => mem[DefaultAddress(n)].arena = DefaultArena

\* Thread t initialises the class that its frame is about, after the linked class.
LoadOK(t) ==
  frame[t].pc \in Loading =>
    \E n \in Level : /\ frame[t] = LoadFrame(frame[t].pc, n) /\ initializer[n] = t
                     /\ frame[t].pc # "link" /\ n > 0 => Initialized(n - 1)

\* A message is of an initialised class, and so are those that may be under it.
Classes ==
  /\ \A t \in Threads : LoadOK(t)
  /\ \A t \in Threads : frame[t].pc \in Parsing => Initialized(frame[t].ptr[3])
  /\ \A p \in DOMAIN mem : \A n \in Level : n <= p[3] => Initialized(n)
  /\ \A n \in Level : initializer[n] # None => ~Initialized(n)

GroupsReleased ==
  \A a \in released :
    life[a] = "freed" /\ \A b \in Arenas : group[b] = group[a] => b \in released

Allocated == \A p \in DOMAIN mem : \A t \in Threads : p[1] = t => p[2] <= calls[t]

\* What t writes to is its own and nobody holds it or points to it.
Private(t) ==
  LET d == local[t].builder.instance.ptr
  IN  /\ d[2] # 0
      /\ local[t].message # None => local[t].message.ptr # d
      /\ frame[t].value # None => frame[t].value.ptr # d
      /\ \A q \in DOMAIN mem : mem[q].sub # d
      /\ \A u \in Threads \ {t} :
           /\ frame[u].pc # "idle" => frame[u].ptr # d
           /\ \A m \in Message : Holds(u, m) => m.ptr # d

DirtyPrivate == \A t \in Threads : Dirty(t) => Private(t)

OwnedOnce ==
  \A t \in Threads : \A a \in Arenas :
    Owns(t, a) => a # DefaultArena /\ \A u \in Threads \ {t} : ~Owns(u, a)

IInv ==
  /\ Typed /\ FramesOK /\ HeldFused /\ DirtyInOwnArena /\ SubFused /\ CarriedLive
  /\ DefaultsThere /\ Classes /\ GroupsReleased /\ Allocated /\ DirtyPrivate /\ OwnedOnce

----------------------------------------------------------------------------
(* Addresses and what allocating makes of memory.                          *)

LEMMA AddressFacts ==
  /\ \A p \in Address : p[2] \in Nat /\ p[3] \in Level
  /\ \A n \in Level : /\ DefaultAddress(n) \in Address
                      /\ DefaultAddress(n)[2] = 0 /\ DefaultAddress(n)[3] = n
BY RuntimeAssumption DEF Address, DefaultAddress, Level

LEMMA NextAddressFacts ==
  ASSUME Typed, NEW t \in Threads, CallsLeft(t), NEW n \in Level
  PROVE  /\ NextAddress(t, n) \in Address
         /\ NextAddress(t, n)[1] = t /\ NextAddress(t, n)[2] = calls[t] + 1
         /\ NextAddress(t, n)[2] # 0 /\ NextAddress(t, n)[3] = n
<1>1. calls[t] + 1 \in 1..MaxCalls
  BY RuntimeAssumption DEF Typed, CallsLeft
<1> QED
  BY <1>1 DEF NextAddress, Address, Typed

\* The messages C that a call of thread t allocates, at level n and below, are new, in
\* arena a, and point to nothing else.
Extends(new, C, t, n, a) ==
  /\ DOMAIN new = DOMAIN mem \cup C /\ C \subseteq Address
  /\ C \cap DOMAIN mem = {} /\ NextAddress(t, n) \in C
  /\ \A q \in DOMAIN mem : new[q] = mem[q]
  /\ \A q \in C : /\ q[1] = t /\ q[2] = calls[t] + 1 /\ q[3] <= n
                  /\ new[q] \in [arena : Arenas, sub : Address \cup {None}]
                  /\ new[q].arena = a
                  /\ new[q].sub # None => new[q].sub \in C /\ new[q].sub[3] + 1 = q[3]

LEMMA AllocateFacts ==
  ASSUME Typed, Allocated, NEW t \in Threads, CallsLeft(t),
         NEW n \in Level, NEW last \in Level, last <= n, NEW a \in Arenas
  PROVE  Extends(Allocate(NextAddress(t, n), last, a), Chain(NextAddress(t, n), last), t, n, a)
<1> DEFINE p == NextAddress(t, n)
           C == Chain(p, last)
           new == Allocate(p, last, a)
<1>1. n \in Nat /\ last \in Nat /\ last..n \subseteq Level
  BY RuntimeAssumption DEF Level
<1>2. C = {<<t, calls[t] + 1, m>> : m \in last..n}
  BY NextAddressFacts DEF Chain, NextAddress
<1>3. \A m \in last..n : <<t, calls[t] + 1, m>> \in Address
  BY <1>1, NextAddressFacts DEF NextAddress
<1>4. C \subseteq Address /\ p \in C
  BY <1>1, <1>2, <1>3 DEF NextAddress
<1>5. \A q \in C : q[1] = t /\ q[2] = calls[t] + 1 /\ q[3] <= n
  BY <1>1, <1>2
<1>6. C \cap DOMAIN mem = {}
  BY <1>5 DEF Allocated, Typed
<1>7. DOMAIN new = DOMAIN mem \cup C
  BY DEF Allocate
<1>8. \A q \in DOMAIN mem : new[q] = mem[q]
  BY <1>6 DEF Allocate
<1>9. ASSUME NEW q \in C
      PROVE  /\ new[q] \in [arena : Arenas, sub : Address \cup {None}]
             /\ new[q].arena = a
             /\ new[q].sub # None => new[q].sub \in C /\ new[q].sub[3] + 1 = q[3]
  <2>1. new[q] = [arena |-> a, sub |-> IF q[3] = last THEN None ELSE <<q[1], q[2], q[3] - 1>>]
    BY DEF Allocate
  <2>2. PICK m \in last..n : q = <<t, calls[t] + 1, m>>
    BY <1>2
  <2>3. CASE m = last
    BY <2>1, <2>2, <2>3
  <2>4. CASE m # last
    <3>1. m - 1 \in last..n /\ (m - 1) + 1 = m
      BY <1>1, <2>4
    <3>2. new[q].sub = <<t, calls[t] + 1, m - 1>>
      BY <2>1, <2>2, <2>4
    <3>3. new[q].sub \in C
      BY <1>2, <3>1, <3>2
    <3> QED
      BY <1>4, <2>1, <2>2, <3>1, <3>2, <3>3
  <2> QED
    BY <2>3, <2>4
<1> QED
  BY <1>4, <1>5, <1>6, <1>7, <1>8, <1>9 DEF Extends

\* The levels under a message are not above its own.
LEMMA LowestIsBelow ==
  ASSUME Typed, SubFused, NEW p \in DOMAIN mem, NEW last \in Level, Lowest(p, last)
  PROVE  last <= p[3]
<1> DEFINE S == {q \in DOMAIN mem : q[3] <= p[3]}
<1>1. \A q \in DOMAIN mem : q[3] \in Nat
  BY AddressFacts DEF Typed, Level
<1>2. Closed(S)
  BY <1>1 DEF Closed, SubFused
<1>3. p \in S
  BY <1>1
<1>4. Tree(p) \subseteq S
  BY <1>2, <1>3 DEF Tree
<1> QED
  BY <1>4 DEF Lowest


----------------------------------------------------------------------------
(* What a thread may come to hold.                                         *)

\* m can be read, and goes on being there.
Sound(m) ==
  /\ m \in Message /\ m.ptr \in DOMAIN mem
  /\ group[mem[m.ptr].arena] = group[m.arena] /\ life[m.arena] = "live"

\* Thread t may hold m: no other thread writes to it.
Fit(t, m) ==
  Sound(m) /\ \A u \in Threads \ {t} : Dirty(u) => local[u].builder.instance.ptr # m.ptr

LEMMA HeldIsFit ==
  ASSUME IInv, NEW t \in Threads, NEW m \in Message, Holds(t, m)
  PROVE  Fit(t, m)
<1>1. m.ptr \in DOMAIN mem /\ group[mem[m.ptr].arena] = group[m.arena]
  BY DEF IInv, HeldFused
<1>2. Carries(t, m.arena)
  BY RuntimeAssumption DEF IInv, FramesOK, FrameOK, Holds, Carries, Message
<1>3. life[m.arena] = "live"
  BY <1>2 DEF IInv, CarriedLive, Message
<1>4. \A u \in Threads \ {t} : Dirty(u) => local[u].builder.instance.ptr # m.ptr
  BY DEF IInv, DirtyPrivate, Private
<1> QED
  BY <1>1, <1>3, <1>4 DEF Fit, Sound

LEMMA DefaultIsFit ==
  ASSUME IInv, NEW t \in Threads, NEW n \in Level, Initialized(n)
  PROVE  /\ Fit(t, DefaultInstance(n))
         /\ Dirty(t) => local[t].builder.instance.ptr # DefaultInstance(n).ptr
<1> DEFINE m == DefaultInstance(n)
<1>1. m \in Message /\ m.ptr = DefaultAddress(n) /\ m.arena = DefaultArena
  BY AddressFacts, RuntimeAssumption DEF DefaultInstance, Message
<1>2. Sound(m)
  BY <1>1 DEF IInv, DefaultsThere, Sound, Initialized
<1>3. \A u \in Threads : Dirty(u) => local[u].builder.instance.ptr # m.ptr
  BY <1>1, AddressFacts DEF IInv, DirtyPrivate, Private
<1> QED
  BY <1>2, <1>3 DEF Fit

\* The variables of thread t, as they may be after a step: nothing new but what is
\* fit to be held, and a builder that is dirty only if it was before.
LocalFit(t, l) ==
  /\ l \in [arena : Arenas \cup {None}, message : Message \cup {None}, builder : Builder \cup {None}]
  /\ l.arena = local[t].arena \/ l.arena = None
  /\ l.message # None =>
       /\ Fit(t, l.message)
       /\ l.builder # None /\ l.builder.isDirty => l.builder.instance.ptr # l.message.ptr
  /\ l.builder # None =>
       /\ Fit(t, l.builder.instance)
       /\ \/ l.builder.arena = local[t].arena
          \/ local[t].builder # None /\ l.builder.arena = local[t].builder.arena
       /\ l.builder.isDirty => Dirty(t) /\ l.builder = local[t].builder

\* A thread goes on initialising its class whatever other threads do.
LEMMA LoadKept ==
  ASSUME NEW u \in Threads, LoadOK(u), frame'[u] = frame[u],
         \A k \in Level : initializer[k] = u => initializer'[k] = u,
         \A k \in Level : Initialized(k) => Initialized(k)'
  PROVE  LoadOK(u)'
<1>1. SUFFICES ASSUME frame[u].pc \in Loading PROVE LoadOK(u)'
  BY DEF LoadOK
<1>2. PICK n \in Level : /\ frame[u] = LoadFrame(frame[u].pc, n) /\ initializer[n] = u
                         /\ frame[u].pc # "link" /\ n > 0 => Initialized(n - 1)
  BY <1>1 DEF LoadOK
<1>3. n > 0 => n - 1 \in Level
  BY RuntimeAssumption DEF Level
<1>4. frame'[u].pc # "link" /\ n > 0 => Initialized(n - 1)'
  BY <1>2, <1>3
<1> QED
  BY <1>2, <1>4 DEF LoadOK, LoadFrame

\* Steps that initialise no class, and begin no parse, leave Classes as it is.
LEMMA ClassesKept ==
  ASSUME Typed, Classes, NEW t \in Threads,
         DOMAIN mem' = DOMAIN mem, initializer' = initializer,
         \A u \in Threads \ {t} : frame'[u] = frame[u],
         frame'[t].pc \notin Loading \cup Parsing \/ frame'[t] = frame[t]
  PROVE  Classes'
<1>1. \A n \in Level : Initialized(n)' <=> Initialized(n)
  BY DEF Initialized
<1>3. \A u \in Threads : LoadOK(u)'
  <2>1. frame'[t].pc \notin Loading => LoadOK(t)'
    BY DEF LoadOK
  <2>2. \A u \in Threads : LoadOK(u)
    BY DEF Classes
  <2>3. \A u \in Threads : frame'[u] = frame[u] => LoadOK(u)'
    BY <1>1, <2>2, LoadKept
  <2> QED
    BY <2>1, <2>3
<1>4. \A u \in Threads : (frame[u].pc \in Parsing => Initialized(frame[u].ptr[3]))'
  BY DEF Classes, Initialized
<1> QED
  BY <1>1, <1>3, <1>4 DEF Classes

\* Steps of a thread outside of calls, and returns from calls, keep the invariant.
LEMMA LocalStep ==
  ASSUME IInv, NEW t \in Threads, NEW l, LocalFit(t, l),
         local' = [local EXCEPT ![t] = l],
         frame' = [frame EXCEPT ![t] = Idle], frame[t].pc \notin {"fuse", "clone"},
         UNCHANGED <<mem, group, life, released, calls, initializer>>
  PROVE  IInv'
<1> USE DEF IInv
<1>1. /\ local'[t] = l /\ \A u \in Threads \ {t} : local'[u] = local[u]
      /\ frame'[t] = Idle /\ \A u \in Threads \ {t} : frame'[u] = frame[u]
  BY DEF Typed
<1>2. Idle \in Frame /\ Idle.pc = "idle" /\ Idle.value = None /\ Idle.operands = {}
  BY DEF Idle, Frame, PCs
<1>3. Typed'
  BY <1>2 DEF Typed, LocalFit
<1>4. FramesOK'
  <2>1. FrameOK(t)'
    BY <1>1, <1>2 DEF FrameOK, Setting, Parsing
  <2>2. \A u \in Threads \ {t} : FrameOK(u)'
    BY <1>1 DEF FramesOK, FrameOK, NextAddress, CallsLeft
  <2> QED
    BY <2>1, <2>2 DEF FramesOK
<1>5. /\ \A m : Holds(t, m)' =>
              \/ l.message # None /\ m = l.message
              \/ l.builder # None /\ m = l.builder.instance
      /\ \A u \in Threads \ {t} : \A m : Holds(u, m)' <=> Holds(u, m)
  BY <1>1, <1>2 DEF Holds
<1>6. HeldFused'
  <2>1. ASSUME NEW m \in Message, Holds(t, m)'
        PROVE  m.ptr \in DOMAIN mem /\ group[mem[m.ptr].arena] = group[m.arena]
    BY <1>5, <2>1 DEF LocalFit, Fit, Sound, Holds
  <2>2. ASSUME NEW u \in Threads \ {t}, NEW m \in Message, Holds(u, m)'
        PROVE  m.ptr \in DOMAIN mem /\ group[mem[m.ptr].arena] = group[m.arena]
    BY <1>5, <2>2 DEF HeldFused
  <2> QED
    BY <2>1, <2>2 DEF HeldFused
<1>7. /\ Dirty(t)' => Dirty(t) /\ l.builder = local[t].builder /\ l.builder # None /\ l.builder.isDirty
      /\ \A u \in Threads \ {t} : Dirty(u)' <=> Dirty(u)
  BY <1>1 DEF Dirty, LocalFit
<1>8. DirtyInOwnArena'
  BY <1>1, <1>7 DEF DirtyInOwnArena
<1>9. SubFused'
  <2>1. \A p \in DOMAIN mem : Unfused(p) => Unfused(p)'
    BY <1>1 DEF Unfused
  <2> QED
    BY <2>1 DEF SubFused
<1>10. CarriedLive'
  <2>1. \A u \in Threads \ {t} : \A a : Carries(u, a)' <=> Carries(u, a)
    BY <1>1 DEF Carries
  <2>2. \A a \in Arenas : Carries(t, a)' => life[a] = "live"
    BY <1>1, <1>2 DEF Carries, CarriedLive, LocalFit, Fit, Sound
  <2> QED
    BY <2>1, <2>2 DEF CarriedLive
<1>11. DefaultsThere' /\ GroupsReleased' /\ Allocated'
  BY DEF DefaultsThere, GroupsReleased, Allocated, Initialized
<1>14. Classes'
  BY <1>1, <1>2, ClassesKept DEF Loading, Parsing
<1>12. DirtyPrivate'
  <2>1. ASSUME NEW u \in Threads, Dirty(u)'
        PROVE  Private(u)'
    <3>1. Dirty(u) /\ local'[u].builder = local[u].builder
      BY <1>1, <1>7, <2>1
    <3>2. Private(u)
      BY <3>1 DEF DirtyPrivate
    <3>3. CASE u = t
      BY <1>1, <1>2, <1>5, <1>7, <2>1, <3>1, <3>2, <3>3 DEF Private, LocalFit
    <3>4. CASE u # t
      <4> DEFINE d == local[u].builder.instance.ptr
      <4>1. d[2] # 0 /\ \A q \in DOMAIN mem : mem[q].sub # d
        BY <3>2 DEF Private
      <4>2. /\ local[u].message # None => local[u].message.ptr # d
            /\ frame[u].value # None => frame[u].value.ptr # d
        BY <3>2 DEF Private
      <4>3. \A m \in Message : Holds(t, m)' => m.ptr # d
        BY <1>5, <3>1, <3>4 DEF LocalFit, Fit
      <4>4. \A w \in Threads \ {t, u} :
              /\ frame[w].pc # "idle" => frame[w].ptr # d
              /\ \A m \in Message : Holds(w, m)' => m.ptr # d
        BY <1>5, <3>2 DEF Private
      <4> QED
        BY <1>1, <1>2, <3>1, <3>4, <4>1, <4>2, <4>3, <4>4 DEF Private
    <3> QED
      BY <3>3, <3>4
  <2> QED
    BY <2>1 DEF DirtyPrivate
<1>13. OwnedOnce'
  <2>1. /\ \A a : Owns(t, a)' => Owns(t, a)
        /\ \A u \in Threads \ {t} : \A a : Owns(u, a)' => Owns(u, a)
    BY <1>1, <1>2 DEF Owns, LocalFit, Setting, Parsing
  <2> QED
    BY <2>1 DEF OwnedOnce
<1> QED
  BY <1>3, <1>4, <1>6, <1>8, <1>9, <1>10, <1>11, <1>12, <1>13, <1>14

----------------------------------------------------------------------------
(* The steps outside of calls, and the returns.                            *)

LEMMA IdleFacts ==
  ASSUME Typed, NEW t \in Threads
  PROVE  /\ frame[t] = Idle => frame = [frame EXCEPT ![t] = Idle] /\ frame[t].pc = "idle"
         /\ local[t] \in [arena : Arenas \cup {None}, message : Message \cup {None},
                          builder : Builder \cup {None}]
<1>1. frame[t] = Idle => frame = [frame EXCEPT ![t] = Idle]
  BY DEF Typed
<1>2. frame[t] = Idle => frame[t].pc = "idle"
  BY DEF Idle
<1> QED
  BY <1>1, <1>2 DEF Typed

\* What thread t has is fit for it to have.
LEMMA OwnIsFit ==
  ASSUME IInv, NEW t \in Threads
  PROVE  /\ local[t].message # None =>
              /\ Fit(t, local[t].message)
              /\ Dirty(t) => local[t].builder.instance.ptr # local[t].message.ptr
         /\ local[t].builder # None => Fit(t, local[t].builder.instance)
         /\ frame[t].pc # "clone" => LocalFit(t, local[t])
<1>1. local[t] \in [arena : Arenas \cup {None}, message : Message \cup {None},
                    builder : Builder \cup {None}]
  BY DEF IInv, Typed
<1>2. local[t].message # None => Fit(t, local[t].message)
  BY <1>1, HeldIsFit DEF Holds
<1>3. local[t].builder # None => Fit(t, local[t].builder.instance)
  BY <1>1, HeldIsFit DEF Holds, Builder
<1>4. Dirty(t) /\ local[t].message # None =>
        local[t].builder.instance.ptr # local[t].message.ptr
  BY DEF IInv, DirtyPrivate, Private
<1>5. frame[t].pc # "clone" => LocalFit(t, local[t])
  BY <1>1, <1>2, <1>3, <1>4 DEF LocalFit, Dirty
<1> QED
  BY <1>2, <1>3, <1>4, <1>5

LEMMA DefaultInstanceStep ==
  ASSUME IInv, NEW t \in Threads, NEW n \in Level, GetDefaultInstance(t, n)
  PROVE  IInv'
<1> DEFINE l == [local[t] EXCEPT !.message = DefaultInstance(n)]
<1>1. LocalFit(t, l)
  <2>1. frame[t].pc # "clone" /\ LocalFit(t, local[t])
    BY OwnIsFit, IdleFacts DEF IInv, GetDefaultInstance
  <2>2. DefaultInstance(n) \in Message
    BY DefaultIsFit DEF Fit, Sound, GetDefaultInstance
  <2> QED
    BY <2>1, <2>2, DefaultIsFit, IdleFacts DEF IInv, LocalFit, Dirty, GetDefaultInstance
<1> QED
  BY <1>1, LocalStep, IdleFacts DEF IInv, GetDefaultInstance

LEMMA StartBuilderStep ==
  ASSUME IInv, NEW t \in Threads, NEW m \in Message, Fit(t, m), StartBuilder(t, m)
  PROVE  IInv'
<1> DEFINE b == [arena |-> local[t].arena, instance |-> m, isDirty |-> FALSE]
           l == [local[t] EXCEPT !.builder = b]
<1>1. LocalFit(t, l)
  <2>1. frame[t].pc # "clone" /\ LocalFit(t, local[t])
    BY OwnIsFit, IdleFacts DEF IInv, StartBuilder
  <2>2. b \in Builder
    BY IdleFacts DEF IInv, StartBuilder, Builder
  <2> QED
    BY <2>1, <2>2, IdleFacts DEF IInv, LocalFit
<1> QED
  BY <1>1, LocalStep, IdleFacts DEF IInv, StartBuilder

LEMMA BuildStep ==
  ASSUME IInv, NEW t \in Threads, Build(t)
  PROVE  IInv'
<1> DEFINE b == [local[t].builder EXCEPT !.isDirty = FALSE]
           l == [local[t] EXCEPT !.message = local[t].builder.instance, !.builder = b]
<1>1. LocalFit(t, l)
  <2>1. local[t].builder \in Builder /\ Fit(t, local[t].builder.instance)
    BY OwnIsFit, IdleFacts DEF IInv, Build
  <2>2. b \in Builder /\ b.arena = local[t].builder.arena /\ ~b.isDirty
        /\ b.instance = local[t].builder.instance
    BY <2>1 DEF Builder
  <2> QED
    BY <2>1, <2>2, IdleFacts DEF IInv, LocalFit, Builder, Build
<1>2. local' = [local EXCEPT ![t] = l]
  BY DEF IInv, Typed, Build
<1> QED
  BY <1>1, <1>2, LocalStep, IdleFacts DEF IInv, Build

LEMMA PassStep ==
  ASSUME IInv, NEW t \in Threads, NEW u \in Threads \ {t}, Pass(t, u)
  PROVE  IInv'
<1> DEFINE m == local[t].message
           l == [local[u] EXCEPT !.message = m]
<1>1. m \in Message /\ Holds(t, m)
  BY IdleFacts DEF IInv, Pass, Holds
<1>2. Fit(t, m) /\ (Dirty(t) => local[t].builder.instance.ptr # m.ptr)
  BY <1>1, OwnIsFit DEF Pass
<1>3. Fit(u, m)
  BY <1>2 DEF Fit
<1>4. Dirty(u) => local[u].builder.instance.ptr # m.ptr
  BY <1>2 DEF Fit
<1>5. LocalFit(u, l)
  <2>1. frame[u].pc # "clone" /\ LocalFit(u, local[u])
    BY OwnIsFit, IdleFacts DEF IInv, Pass
  <2> QED
    BY <1>1, <1>3, <1>4, <2>1, IdleFacts DEF IInv, LocalFit
<1> QED
  BY <1>5, LocalStep, IdleFacts DEF IInv, Pass

LEMMA DropStep ==
  ASSUME IInv, FrameRoots = TRUE, NEW t \in Threads, DropMessage(t) \/ DropArena(t)
  PROVE  IInv'
<1>1. frame[t] = Idle
  BY DEF DropMessage, DropArena, MayDrop
<1>2. LocalFit(t, local[t])
  BY <1>1, OwnIsFit, IdleFacts DEF IInv
<1>3. CASE DropMessage(t)
  <2> DEFINE l == [local[t] EXCEPT !.message = None]
  <2>1. LocalFit(t, l)
    BY <1>2, IdleFacts DEF IInv, LocalFit
  <2> QED
    BY <1>1, <1>3, <2>1, LocalStep, IdleFacts DEF IInv, DropMessage
<1>4. CASE DropArena(t)
  <2> DEFINE l == [local[t] EXCEPT !.arena = None, !.builder = None]
  <2>1. LocalFit(t, l)
    BY <1>2, IdleFacts DEF IInv, LocalFit
  <2>2. local' = [local EXCEPT ![t] = l]
    BY <1>4 DEF IInv, Typed, DropArena
  <2> QED
    BY <1>1, <1>4, <2>1, <2>2, LocalStep, IdleFacts DEF IInv, DropArena
<1> QED
  BY <1>3, <1>4

LEMMA ReturnStep ==
  ASSUME IInv, NEW t \in Threads, SetHasBit(t) \/ GetReturns(t) \/ EncodeReturns(t)
  PROVE  IInv'
<1>1. local' = [local EXCEPT ![t] = local[t]]
  BY DEF IInv, Typed, SetHasBit, GetReturns, EncodeReturns
<1>2. LocalFit(t, local[t])
  BY OwnIsFit DEF SetHasBit, GetReturns, EncodeReturns
<1> QED
  BY <1>1, <1>2, LocalStep DEF SetHasBit, GetReturns, EncodeReturns, Return, Enter

\* A view carries the arena of the message it was read from.
LEMMA GetMessageStep ==
  ASSUME IInv, NEW t \in Threads, GetMessageReturns(t)
  PROVE  IInv'
<1> DEFINE r == frame[t].ptr
           p == mem[r].sub
           view == IF p = None THEN DefaultInstance(r[3] - 1) ELSE [ptr |-> p, arena |-> frame[t].in]
           l == [local[t] EXCEPT !.message = view]
<1>1. /\ r \in DOMAIN mem /\ group[mem[r].arena] = group[frame[t].in]
      /\ frame[t].in \in frame[t].operands /\ frame[t].in \in Arenas
  BY DEF IInv, Typed, FramesOK, FrameOK, GetMessageReturns, Frame
<1>2. Fit(t, view) /\ (Dirty(t) => local[t].builder.instance.ptr # view.ptr)
  <2>1. CASE p = None
    <3>1. r[3] - 1 \in Level
      BY <1>1, AddressFacts, RuntimeAssumption DEF IInv, Typed, Level, GetMessageReturns
    <3>2. Initialized(r[3] - 1)
      BY <1>1, <3>1, AddressFacts, RuntimeAssumption DEF IInv, Typed, Classes, Level
    <3> QED
      BY <2>1, <3>1, <3>2, DefaultIsFit
  <2>2. CASE p # None
    <3>1. p \in DOMAIN mem /\ (group[mem[p].arena] = group[mem[r].arena] \/ Unfused(r))
      BY <1>1, <2>2 DEF IInv, SubFused
    <3>2. \A u \in Threads : Dirty(u) => local[u].builder.instance.ptr # p
      BY <1>1 DEF IInv, DirtyPrivate, Private
    <3>3. ~Unfused(r)
      <4>1. SUFFICES ASSUME NEW u \in Threads, frame[u].pc = "fuse", frame[u].ptr = r
                     PROVE  FALSE
        BY DEF Unfused
      <4>2. Dirty(u) /\ r = local[u].builder.instance.ptr
        BY <4>1 DEF IInv, FramesOK, FrameOK, Dirty, Setting
      <4>3. u # t /\ frame[t].pc # "idle"
        BY <4>1 DEF GetMessageReturns
      <4> QED
        BY <4>2, <4>3 DEF IInv, DirtyPrivate, Private
    <3>4. life[frame[t].in] = "live"
      BY <1>1, RuntimeAssumption DEF IInv, CarriedLive, Carries
    <3>5. view \in Message /\ view.ptr = p /\ view.arena = frame[t].in
      BY <1>1, <2>2, <3>1 DEF IInv, Typed, Message
    <3> QED
      BY <1>1, <3>1, <3>2, <3>3, <3>4, <3>5 DEF Fit, Sound
  <2> QED
    BY <2>1, <2>2
<1>3. LocalFit(t, l)
  <2>1. LocalFit(t, local[t])
    BY OwnIsFit DEF GetMessageReturns
  <2>2. view \in Message
    BY <1>2 DEF Fit, Sound
  <2> QED
    BY <1>2, <2>1, <2>2, IdleFacts DEF IInv, LocalFit, Dirty, GetMessageReturns
<1>4. local' = [local EXCEPT ![t] = l]
  BY DEF IInv, Typed, GetMessageReturns
<1> QED
  BY <1>3, <1>4, LocalStep DEF GetMessageReturns, Return, Enter

\* An arena that is made is nobody's yet.
LEMMA NewArenaStep ==
  ASSUME IInv, NEW t \in Threads, NEW a \in Arenas, NewArena(t, a)
  PROVE  IInv'
<1> USE DEF IInv
<1> DEFINE l == [local[t] EXCEPT !.arena = a]
<1>1. frame[t] = Idle /\ frame[t].pc = "idle" /\ Idle.operands = {}
  BY IdleFacts DEF NewArena, Idle
<1>2. /\ local' = [local EXCEPT ![t] = l]
      /\ local'[t] = l /\ \A u \in Threads \ {t} : local'[u] = local[u]
      /\ l.arena = a /\ l.message = local[t].message /\ l.builder = local[t].builder
      /\ l \in [arena : Arenas \cup {None}, message : Message \cup {None},
                builder : Builder \cup {None}]
  BY DEF Typed, NewArena
<1>3. \A u \in Threads : ~Carries(u, a)
  BY DEF CarriedLive, NewArena
<1>4. \A u \in Threads : ~Owns(u, a)
  BY <1>3 DEF Owns, Carries, FramesOK, FrameOK, Setting, Parsing
<1>5. Typed'
  BY <1>2 DEF Typed, NewArena
<1>6. /\ \A u \in Threads : \A m : Holds(u, m)' <=> Holds(u, m)
      /\ \A u \in Threads : Dirty(u)' <=> Dirty(u)
      /\ \A u \in Threads : local'[u].builder = local[u].builder /\ local'[u].message = local[u].message
  BY <1>2 DEF Holds, Dirty, NewArena
<1>7. FramesOK'
  BY <1>6 DEF FramesOK, FrameOK, NewArena, NextAddress, CallsLeft
<1>8. HeldFused' /\ DirtyInOwnArena' /\ DirtyPrivate'
  BY <1>6 DEF HeldFused, DirtyInOwnArena, DirtyPrivate, Private, NewArena
<1>9. SubFused' /\ Allocated'
  BY DEF SubFused, Unfused, Allocated, NewArena
<1>10. CarriedLive'
  <2>1. \A u \in Threads : \A c \in Arenas : Carries(u, c)' => c = a \/ Carries(u, c)
    BY <1>2 DEF Carries, NewArena
  <2> QED
    BY <2>1 DEF CarriedLive, NewArena, Typed
<1>11. DefaultsThere' /\ GroupsReleased'
  BY DEF DefaultsThere, GroupsReleased, NewArena, Typed, Initialized
<1>13. Classes'
  BY ClassesKept DEF NewArena
<1>12. OwnedOnce'
  <2>1. a # DefaultArena
    BY DEF DefaultsThere, NewArena
  <2>2. \A c \in Arenas : Owns(t, c)' => c = a \/ Owns(t, c)
    BY <1>2 DEF Owns, NewArena
  <2>3. \A u \in Threads \ {t} : \A c \in Arenas : Owns(u, c)' <=> Owns(u, c)
    BY <1>2 DEF Owns, NewArena
  <2> QED
    BY <1>4, <2>1, <2>2, <2>3 DEF OwnedOnce
<1> QED
  BY <1>5, <1>7, <1>8, <1>9, <1>10, <1>11, <1>12, <1>13

----------------------------------------------------------------------------
(* Calls that begin, or go from one access to the next.                    *)

\* Steps that leave native memory alone and change what a thread is doing.
LEMMA FrameStep ==
  ASSUME IInv, NEW t \in Threads, NEW l, NEW f \in Frame,
         local' = [local EXCEPT ![t] = l], frame' = [frame EXCEPT ![t] = f],
         frame[t].pc \notin {"fuse", "clone"},
         FrameOK(t)',
         l \in [arena : Arenas \cup {None}, message : Message \cup {None},
                builder : Builder \cup {None}],
         l.arena = local[t].arena, l.message = local[t].message,
         \/ l.builder = local[t].builder
         \/ /\ f.pc = "clone" /\ local[t].builder # None
            /\ l.builder.arena = local[t].builder.arena
            /\ l.builder.instance = local[t].builder.instance,
         f.value # None => f.value = local[t].message,
         \A a \in f.operands : Carries(t, a) \/ a = DefaultArena,
         f.pc \in Setting \cup Parsing => Owns(t, f.in),
         \A u \in Threads \ {t} : Dirty(u) => local[u].builder.instance.ptr # f.ptr,
         UNCHANGED <<mem, group, life, released, calls>>,
         initializer' \in [Level -> Threads \cup {None}], Classes'
  PROVE  IInv'
<1> USE DEF IInv
<1>1. /\ local'[t] = l /\ \A u \in Threads \ {t} : local'[u] = local[u]
      /\ frame'[t] = f /\ \A u \in Threads \ {t} : frame'[u] = frame[u]
  BY DEF Typed
<1>2. Typed'
  BY DEF Typed
<1>3. FramesOK'
  <2>1. \A u \in Threads \ {t} : FrameOK(u)'
    BY <1>1 DEF FramesOK, FrameOK, NextAddress, CallsLeft
  <2> QED
    BY <2>1 DEF FramesOK
<1>4. \A u \in Threads : \A m : Holds(u, m)' => Holds(u, m)
  BY <1>1 DEF Holds
<1>5. /\ Dirty(t)' => Dirty(t) /\ l.builder = local[t].builder
      /\ \A u \in Threads \ {t} : Dirty(u)' <=> Dirty(u)
  BY <1>1 DEF Dirty
<1>6. HeldFused'
  BY <1>4 DEF HeldFused
<1>7. DirtyInOwnArena'
  BY <1>1, <1>5 DEF DirtyInOwnArena
<1>8. SubFused'
  <2>1. \A p \in DOMAIN mem : Unfused(p) => Unfused(p)'
    BY <1>1 DEF Unfused
  <2> QED
    BY <2>1 DEF SubFused
<1>9. CarriedLive'
  <2>1. \A u \in Threads : \A a : Carries(u, a)' => Carries(u, a) \/ a = DefaultArena
    BY <1>1 DEF Carries
  <2> QED
    BY <2>1 DEF CarriedLive, DefaultsThere
<1>10. DefaultsThere' /\ GroupsReleased' /\ Allocated'
  BY DEF DefaultsThere, GroupsReleased, Allocated, Initialized
<1>11. DirtyPrivate'
  <2>1. ASSUME NEW u \in Threads, Dirty(u)'
        PROVE  Private(u)'
    <3>1. Dirty(u) /\ local'[u].builder = local[u].builder
      BY <1>1, <1>5, <2>1
    <3>2. Private(u)
      BY <3>1 DEF DirtyPrivate
    <3>3. \A w \in Threads \ {u} : \A m \in Message :
            Holds(w, m)' => m.ptr # local[u].builder.instance.ptr
      BY <1>4, <3>2 DEF Private
    <3>4. CASE u = t
      BY <1>1, <3>1, <3>2, <3>3, <3>4 DEF Private
    <3>5. CASE u # t
      BY <1>1, <3>1, <3>2, <3>3, <3>5 DEF Private
    <3> QED
      BY <3>4, <3>5
  <2> QED
    BY <2>1 DEF DirtyPrivate
<1>12. OwnedOnce'
  <2>1. \A u \in Threads : \A a : Owns(u, a)' => Owns(u, a)
    BY <1>1 DEF Owns
  <2> QED
    BY <2>1 DEF OwnedOnce
<1> QED
  BY <1>2, <1>3, <1>6, <1>7, <1>8, <1>9, <1>10, <1>11, <1>12

\* getInt, getLong, getHasBit, getMessage and toByteArray begin.
LEMMA UseStep ==
  ASSUME IInv, NEW t \in Threads, NEW m \in Readable(t), NEW pc \in {"get", "encode"},
         Use(t, m, pc)
  PROVE  IInv'
<1> DEFINE f == [pc |-> pc, ptr |-> m.ptr, in |-> m.arena, value |-> None,
                 operands |-> {m.arena}]
<1>1. m \in Message /\ Holds(t, m) /\ Carries(t, m.arena)
  BY RuntimeAssumption, IdleFacts DEF IInv, Readable, Holds, Carries, Builder, Message
<1>2. Fit(t, m)
  BY <1>1, HeldIsFit
<1>3. f \in Frame
  BY <1>1 DEF Frame, PCs, Message
<1>4. local' = [local EXCEPT ![t] = local[t]] /\ frame' = [frame EXCEPT ![t] = f]
  BY DEF IInv, Typed, Use, Enter
<1>5. frame[t].pc = "idle" /\ frame'[t] = f
  BY <1>4, IdleFacts DEF IInv, Typed, Use
<1>6. FrameOK(t)'
  BY <1>2, <1>5 DEF FrameOK, Setting, Parsing, Fit, Sound, Use
<1>7. UNCHANGED <<mem, group, life, released, calls, initializer>>
  BY DEF Use
<1>9. Classes' /\ initializer' \in [Level -> Threads \cup {None}]
  <2>1. frame'[t].pc \notin Loading \cup Parsing
    BY <1>5 DEF Loading, Parsing
  <2>2. \A u \in Threads \ {t} : frame'[u] = frame[u]
    BY <1>4 DEF IInv, Typed
  <2> QED
    BY <1>7, <2>1, <2>2, ClassesKept DEF IInv, Typed
<1>8. /\ f.value = None /\ f.pc \notin Setting \cup Parsing
      /\ \A a \in f.operands : Carries(t, a)
      /\ \A u \in Threads \ {t} : Dirty(u) => local[u].builder.instance.ptr # f.ptr
  BY <1>1, <1>2 DEF Fit, Setting, Parsing
<1> HIDE DEF f
<1> QED
  BY <1>3, <1>4, <1>5, <1>6, <1>7, <1>8, <1>9, FrameStep, IdleFacts DEF IInv

\* A parse begins, or goes on, of an initialised class.
LEMMA ParsingStarts ==
  ASSUME IInv, NEW t \in Threads, UNCHANGED <<mem, initializer>>,
         \A u \in Threads \ {t} : frame'[u] = frame[u],
         frame'[t].pc \in Parsing, Initialized(frame'[t].ptr[3])
  PROVE  Classes'
<1>1. \A n : Initialized(n)' <=> Initialized(n)
  BY DEF Initialized
<1>2. \A u \in Threads : LoadOK(u)'
  <2>1. LoadOK(t)'
    BY DEF LoadOK, Loading, Parsing
  <2>2. \A u \in Threads \ {t} : LoadOK(u)'
    BY <1>1, LoadKept DEF IInv, Classes
  <2> QED
    BY <2>1, <2>2
<1> QED
  BY <1>1, <1>2 DEF IInv, Classes, Initialized

\* parseFrom begins: nobody has the addresses of what it will make.
LEMMA ParseFromStep ==
  ASSUME IInv, NEW t \in Threads, NEW n \in Level, ParseFrom(t, n)
  PROVE  IInv'
<1> DEFINE p == NextAddress(t, n)
           a == local[t].arena
           f == [pc |-> "build", ptr |-> p, in |-> a, value |-> None, operands |-> {a}]
<1>1. p \in Address /\ p \notin DOMAIN mem
  BY NextAddressFacts DEF IInv, Typed, Allocated, ParseFrom
<1>2. a \in Arenas /\ Carries(t, a) /\ Owns(t, a)
  BY IdleFacts DEF IInv, Carries, Owns, ParseFrom
<1>3. f \in Frame
  BY <1>1, <1>2 DEF Frame, PCs, Parsing
<1>4. local' = [local EXCEPT ![t] = local[t]] /\ frame' = [frame EXCEPT ![t] = f]
  BY DEF IInv, Typed, ParseFrom, Enter
<1>5. frame[t].pc = "idle" /\ frame'[t] = f
  BY <1>4, IdleFacts DEF IInv, Typed, ParseFrom
<1>6. FrameOK(t)'
  BY <1>5 DEF FrameOK, Setting, Parsing, NextAddress, CallsLeft, ParseFrom
<1>7. \A u \in Threads : Dirty(u) => local[u].builder.instance.ptr # p
  BY <1>1, IdleFacts DEF IInv, HeldFused, Dirty, Holds, Builder
<1>8. UNCHANGED <<mem, group, life, released, calls, initializer>>
  BY DEF ParseFrom
<1>11. Classes' /\ initializer' \in [Level -> Threads \cup {None}]
  <2>1. p[3] = n /\ Initialized(n)
    BY NextAddressFacts DEF IInv, ParseFrom
  <2>2. \A u \in Threads \ {t} : frame'[u] = frame[u]
    BY <1>4 DEF IInv, Typed
  <2> QED
    BY <1>5, <1>8, <2>1, <2>2, ParsingStarts DEF IInv, Typed, Parsing
<1>9. /\ f.value = None /\ (\A c \in f.operands : Carries(t, c)) /\ Owns(t, f.in)
      /\ \A u \in Threads \ {t} : Dirty(u) => local[u].builder.instance.ptr # f.ptr
      /\ frame[t].pc \notin {"fuse", "clone"}
  BY <1>2, <1>5, <1>7
<1>10. local[t] \in [arena : Arenas \cup {None}, message : Message \cup {None},
                     builder : Builder \cup {None}]
  BY IdleFacts DEF IInv
<1> HIDE DEF f
<1> QED
  BY <1>3, <1>4, <1>6, <1>8, <1>9, <1>10, <1>11, FrameStep

LEMMA BuildMinitableStep ==
  ASSUME IInv, NEW t \in Threads, BuildMinitable(t)
  PROVE  IInv'
<1> DEFINE f == [frame[t] EXCEPT !.pc = "decode"]
<1>1. /\ frame[t] \in Frame /\ frame[t].pc = "build" /\ frame[t].value = None
      /\ CallsLeft(t) /\ frame[t].in \in frame[t].operands
      /\ \E n \in Level : frame[t].ptr = NextAddress(t, n)
  BY DEF IInv, Typed, FramesOK, FrameOK, Parsing, Setting, BuildMinitable
<1>2. /\ f \in Frame /\ f.pc = "decode" /\ f.ptr = frame[t].ptr /\ f.in = frame[t].in
      /\ f.value = None /\ f.operands = frame[t].operands
  BY <1>1 DEF Frame, PCs, Parsing
<1>3. local' = [local EXCEPT ![t] = local[t]] /\ frame' = [frame EXCEPT ![t] = f]
  BY DEF IInv, Typed, BuildMinitable, Enter
<1>4. frame'[t] = f
  BY <1>3 DEF IInv, Typed
<1>5. FrameOK(t)'
  BY <1>1, <1>2, <1>4 DEF FrameOK, Setting, Parsing, NextAddress, CallsLeft, BuildMinitable
<1>6. f.ptr \notin DOMAIN mem
  BY <1>1, <1>2, NextAddressFacts DEF IInv, Typed, Allocated
<1>7. \A u \in Threads : Dirty(u) => local[u].builder.instance.ptr # f.ptr
  BY <1>6, IdleFacts DEF IInv, HeldFused, Dirty, Holds, Builder
<1>8. frame[t].in \in Arenas
  BY <1>1, RuntimeAssumption DEF Frame
<1>9. (\A a \in f.operands : Carries(t, a)) /\ Owns(t, f.in)
  BY <1>1, <1>2, <1>8, RuntimeAssumption DEF Carries, Owns, Parsing, Frame
<1>10. UNCHANGED <<mem, group, life, released, calls, initializer>>
  BY DEF BuildMinitable
<1>13. Classes' /\ initializer' \in [Level -> Threads \cup {None}]
  <2>1. Initialized(f.ptr[3]) /\ f.pc \in Parsing
    BY <1>1, <1>2 DEF IInv, Classes, Parsing
  <2>2. \A u \in Threads \ {t} : frame'[u] = frame[u]
    BY <1>3 DEF IInv, Typed
  <2> QED
    BY <1>4, <1>10, <2>1, <2>2, ParsingStarts DEF IInv, Typed
<1>11. frame[t].pc \notin {"fuse", "clone"} /\ f \in Frame /\ f.value = None
       /\ \A u \in Threads \ {t} : Dirty(u) => local[u].builder.instance.ptr # f.ptr
  BY <1>1, <1>2, <1>7
<1>12. local[t] \in [arena : Arenas \cup {None}, message : Message \cup {None},
                     builder : Builder \cup {None}]
  BY IdleFacts DEF IInv
<1> HIDE DEF f
<1> QED
  BY <1>3, <1>5, <1>9, <1>10, <1>11, <1>12, <1>13, FrameStep

\* A setter begins: copyOnWrite, if the builder's instance is not its own.
LEMMA SetStep ==
  ASSUME IInv, NEW t \in Threads, NEW v,
         v = None \/ (local[t].message # None /\ v = local[t].message), Set(t, v)
  PROVE  IInv'
<1> DEFINE b == local[t].builder
           b2 == [b EXCEPT !.isDirty = TRUE]
           w == WriteFrame(b, v)
           f == IF b.isDirty THEN w ELSE [w EXCEPT !.pc = "clone"]
           l == [local[t] EXCEPT !.builder = b2]
<1>1. /\ b \in Builder /\ b # None /\ frame[t].pc = "idle"
      /\ v # None => v \in Message /\ v.arena \in Arenas
  BY IdleFacts DEF IInv, Set, Message
<1>2. /\ b2 \in Builder /\ b2 # None /\ b2.isDirty /\ b2.arena = b.arena
      /\ b2.instance = b.instance /\ (b.isDirty => b2 = b)
  BY <1>1, NoneAssumption DEF Builder
<1>3. /\ f.ptr = b.instance.ptr /\ f.in = b.arena /\ f.value = v
      /\ f.operands = {b.arena, b.instance.arena} \cup IF v = None THEN {} ELSE {v.arena}
      /\ f.pc = (IF b.isDirty THEN IF v = None THEN "hasbit" ELSE "store" ELSE "clone")
  BY DEF WriteFrame
<1>4. b.arena \in Arenas /\ b.instance \in Message /\ b.instance.ptr \in Address
      /\ b.instance.arena \in Arenas
  BY <1>1 DEF Builder, Message
<1>5. f \in Frame
  <2>1. f.pc \in PCs
    BY <1>3 DEF PCs, Setting
  <2>2. f.operands \subseteq Arenas
    BY <1>1, <1>3, <1>4
  <2>3. f.value \in Message \cup {None}
    BY <1>1, <1>3
  <2>4. f = [pc |-> f.pc, ptr |-> f.ptr, in |-> f.in, value |-> f.value, operands |-> f.operands]
    BY DEF WriteFrame
  <2> QED
    BY <1>3, <1>4, <2>1, <2>2, <2>3, <2>4 DEF Frame
<1>6. local' = [local EXCEPT ![t] = l] /\ frame' = [frame EXCEPT ![t] = f]
  BY DEF IInv, Typed, Set, Enter
<1>7. frame'[t] = f /\ local'[t] = l /\ l.builder = b2 /\ l.arena = local[t].arena
      /\ l.message = local[t].message
  BY <1>6, IdleFacts DEF IInv, Typed
<1> HIDE DEF f, l, b2
<1>8. FrameOK(t)'
  <2>1. f.pc \in Setting /\ f.pc \notin Parsing \cup {"idle", "get", "encode", "fuse"}
    BY <1>3 DEF Setting, Parsing
  <2>2. f.pc = "clone" => CallsLeft(t)'
    BY <1>3 DEF Set, CallsLeft
  <2>3. v # None => v.ptr[3] + 1 = b.instance.ptr[3]
    BY DEF Set, LevelOf
  <2>4. f.pc = "store" => v # None
    BY <1>3
  <2> QED
    BY <1>2, <1>3, <1>7, <2>1, <2>2, <2>3, <2>4 DEF FrameOK
<1>9. \A a \in f.operands : Carries(t, a)
  BY <1>1, <1>3, <1>4, RuntimeAssumption DEF Carries
<1>10. Owns(t, f.in)
  BY <1>1, <1>3, <1>4, RuntimeAssumption DEF Owns
<1>11. Holds(t, b.instance)
  BY <1>1 DEF Holds
<1>12. \A u \in Threads \ {t} : Dirty(u) => local[u].builder.instance.ptr # f.ptr
  BY <1>3, <1>4, <1>11 DEF IInv, DirtyPrivate, Private
<1>13. /\ l \in [arena : Arenas \cup {None}, message : Message \cup {None},
                 builder : Builder \cup {None}]
       /\ UNCHANGED <<mem, group, life, released, calls, initializer>>
  BY <1>2, IdleFacts DEF IInv, Set, l
<1>16. Classes' /\ initializer' \in [Level -> Threads \cup {None}]
  <2>1. frame'[t].pc \notin Loading \cup Parsing
    BY <1>3, <1>7 DEF Loading, Parsing
  <2>2. \A u \in Threads \ {t} : frame'[u] = frame[u]
    BY <1>6 DEF IInv, Typed
  <2> QED
    BY <1>13, <2>1, <2>2, ClassesKept DEF IInv, Typed
<1>14. /\ f.value # None => f.value = local[t].message
       /\ \/ l.builder = b
          \/ f.pc = "clone" /\ l.builder.arena = b.arena /\ l.builder.instance = b.instance
  BY <1>2, <1>3, <1>7
<1>15. frame[t].pc \notin {"fuse", "clone"}
  BY <1>1
<1> QED
  BY <1>1, <1>5, <1>6, <1>7, <1>8, <1>9, <1>10, <1>12, <1>13, <1>14, <1>15, <1>16, FrameStep

----------------------------------------------------------------------------
(* The initialisation of classes.                                          *)

LEMMA LoadFrameFacts ==
  ASSUME NEW n \in Level, NEW pc \in Loading
  PROVE  LET f == LoadFrame(pc, n)
         IN  /\ f \in Frame /\ f.pc = pc /\ f.ptr = DefaultAddress(n) /\ f.ptr[2] = 0 /\ f.ptr[3] = n
             /\ f.in = DefaultArena /\ f.value = None /\ f.operands = {DefaultArena}
             /\ f.pc \notin Setting \cup Parsing \cup {"idle", "get", "encode", "clone"}
<1>1. DefaultAddress(n) \in Address /\ DefaultAddress(n)[2] = 0 /\ DefaultAddress(n)[3] = n
  BY AddressFacts
<1>2. pc \in PCs /\ pc \notin Setting \cup Parsing \cup {"idle", "get", "encode", "clone"}
  BY DEF PCs, Loading, Setting, Parsing
<1> QED
  BY <1>1, <1>2, RuntimeAssumption DEF LoadFrame, Frame

\* A frame that initialises a class agrees with every variable of its thread.
LEMMA LoadStep ==
  ASSUME IInv, NEW t \in Threads, NEW n \in Level, NEW pc \in Loading,
         frame[t].pc \in {"idle"} \cup Loading, Enter(t, LoadFrame(pc, n)),
         UNCHANGED <<mem, group, life, released, local, calls>>,
         initializer' \in [Level -> Threads \cup {None}], Classes'
  PROVE  IInv'
<1> DEFINE f == LoadFrame(pc, n)
<1>1. /\ f \in Frame /\ f.pc = pc /\ f.ptr = DefaultAddress(n) /\ f.ptr[2] = 0
      /\ f.in = DefaultArena /\ f.value = None /\ f.operands = {DefaultArena}
      /\ f.pc \notin Setting \cup Parsing \cup {"idle", "get", "encode", "clone"}
  BY LoadFrameFacts
<1>2. local' = [local EXCEPT ![t] = local[t]] /\ frame' = [frame EXCEPT ![t] = f]
  BY DEF IInv, Typed, Enter
<1> HIDE DEF f
<1>3. frame'[t] = f
  BY <1>2 DEF IInv, Typed
<1>4. FrameOK(t)'
  BY <1>1, <1>3 DEF FrameOK, Setting
<1>5. frame[t].pc \notin {"fuse", "clone"}
  BY DEF Loading
<1>6. \A u \in Threads \ {t} : Dirty(u) => local[u].builder.instance.ptr # f.ptr
  BY <1>1 DEF IInv, DirtyPrivate, Private
<1>7. local[t] \in [arena : Arenas \cup {None}, message : Message \cup {None},
                    builder : Builder \cup {None}]
  BY IdleFacts DEF IInv
<1> QED
  BY <1>1, <1>2, <1>4, <1>5, <1>6, <1>7, FrameStep

\* The class of the frame of thread t, which is the one to initialise it.
LEMMA LoadingFacts ==
  ASSUME IInv, NEW t \in Threads, frame[t].pc \in Loading
  PROVE  LET n == frame[t].ptr[3]
         IN  /\ n \in Level /\ frame[t] = LoadFrame(frame[t].pc, n) /\ initializer[n] = t
             /\ ~Initialized(n) /\ (frame[t].pc # "link" /\ n > 0 => Initialized(n - 1))
<1>1. PICK n \in Level : /\ frame[t] = LoadFrame(frame[t].pc, n) /\ initializer[n] = t
                         /\ frame[t].pc # "link" /\ n > 0 => Initialized(n - 1)
  BY DEF IInv, Classes, LoadOK
<1>2. frame[t].ptr = DefaultAddress(n)
  BY <1>1, LoadFrameFacts
<1>3. frame[t].ptr[3] = n
  BY <1>2, AddressFacts
<1>4. ~Initialized(n)
  BY <1>1, RuntimeAssumption DEF IInv, Classes
<1> QED
  BY <1>1, <1>3, <1>4

\* It begins with it, or goes on when the linked class is there.
LEMMA LoadEntered ==
  ASSUME NEW t \in Threads, NEW n \in Level, NEW pc \in Loading,
         frame'[t] = LoadFrame(pc, n), initializer'[n] = t,
         pc # "link" /\ n > 0 => Initialized(n - 1)'
  PROVE  LoadOK(t)'
<1>1. frame'[t].pc = pc
  BY LoadFrameFacts
<1>2. LoadFrame(pc, n)' = LoadFrame(pc, n)
  BY DEF LoadFrame
<1> QED
  BY <1>1, <1>2 DEF LoadOK

LEMMA InitializeStep ==
  ASSUME IInv, NEW t \in Threads,
         InitializeLinked(t) \/ \E n \in Level : InitializeClass(t, n)
  PROVE  IInv'
<1>1. PICK n \in Level : Begin(t, n) /\ frame[t].pc \in {"idle"} \cup Loading
  <2>1. ASSUME InitializeLinked(t) PROVE frame[t].ptr[3] - 1 \in Level /\ frame[t].pc \in Loading
    BY <2>1, LoadingFacts, RuntimeAssumption DEF InitializeLinked, Loading, Level
  <2> QED
    BY <2>1, IdleFacts DEF IInv, InitializeLinked, InitializeClass
<1>2. /\ initializer' \in [Level -> Threads \cup {None}]
      /\ initializer'[n] = t /\ initializer[n] = None /\ ~Initialized(n)
      /\ \A k \in Level \ {n} : initializer'[k] = initializer[k]
  BY <1>1 DEF IInv, Typed, Begin
<1>3. mem' = mem /\ frame'[t] = LoadFrame("link", n) /\ \A u \in Threads \ {t} : frame'[u] = frame[u]
  BY <1>1 DEF IInv, Typed, Begin, Enter
<1>4. \A k : Initialized(k)' <=> Initialized(k)
  BY <1>3 DEF Initialized
<1>5. Classes'
  <2>1. LoadOK(t)'
    BY <1>2, <1>3, LoadEntered DEF Loading
  <2>2. ASSUME NEW u \in Threads \ {t} PROVE LoadOK(u)'
    <3>1. \A k \in Level : initializer[k] = u => initializer'[k] = u
      BY <1>2, RuntimeAssumption
    <3> QED
      BY <1>3, <1>4, <3>1, LoadKept DEF IInv, Classes
  <2>3. \A u \in Threads : (frame[u].pc \in Parsing => Initialized(frame[u].ptr[3]))'
    BY <1>3, <1>4 DEF IInv, Classes, LoadFrame, Parsing
  <2> QED
    BY <1>2, <1>3, <1>4, <2>1, <2>2, <2>3 DEF IInv, Classes
<1> QED
  BY <1>1, <1>2, <1>5, LoadStep DEF Begin, Loading

\* From one access of an initialiser to the next.
LEMMA LoadNext ==
  ASSUME IInv, NEW t \in Threads, frame[t].pc \in Loading, NEW pc \in Loading,
         frame[t].ptr[3] > 0 => Initialized(frame[t].ptr[3] - 1),
         Enter(t, LoadFrame(pc, frame[t].ptr[3])),
         UNCHANGED <<mem, group, life, released, local, calls, initializer>>
  PROVE  IInv'
<1>1. PICK n \in Level : n = frame[t].ptr[3] /\ initializer[n] = t
  BY LoadingFacts
<1>2. frame'[t] = LoadFrame(pc, n) /\ \A u \in Threads \ {t} : frame'[u] = frame[u]
  BY <1>1 DEF IInv, Typed, Enter
<1>3. \A k : Initialized(k)' <=> Initialized(k)
  BY DEF Initialized
<1>4. Classes'
  <2>1. LoadOK(t)'
    BY <1>1, <1>2, <1>3, LoadEntered
  <2>2. \A u \in Threads \ {t} : LoadOK(u)'
    BY <1>2, <1>3, LoadKept DEF IInv, Classes
  <2>3. \A u \in Threads : (frame[u].pc \in Parsing => Initialized(frame[u].ptr[3]))'
    BY <1>2, <1>3 DEF IInv, Classes, LoadFrame, Parsing, Loading
  <2> QED
    BY <1>3, <2>1, <2>2, <2>3 DEF IInv, Classes
<1>5. initializer' \in [Level -> Threads \cup {None}]
  BY DEF IInv, Typed
<1> QED
  BY <1>1, <1>4, <1>5, LoadStep

LEMMA LinkedInitializedStep ==
  ASSUME IInv, NEW t \in Threads, LinkedInitialized(t)
  PROVE  IInv'
BY LoadNext DEF LinkedInitialized, Loading

LEMMA BuildClassMinitableStep ==
  ASSUME IInv, NEW t \in Threads, BuildClassMinitable(t)
  PROVE  IInv'
<1>1. frame[t].pc \in Loading /\ frame[t].pc # "link"
  BY DEF BuildClassMinitable, Loading
<1> QED
  BY <1>1, LoadingFacts, LoadNext DEF BuildClassMinitable, Loading

\* The default instance is a message that nobody has yet, in the arena that is never
\* collected; its class, and the ones under it, are initialised.
LEMMA CreateDefaultStep ==
  ASSUME IInv, NEW t \in Threads, CreateDefaultInstance(t)
  PROVE  IInv'
<1> USE DEF IInv
<1>1. frame[t].pc = "default" /\ frame[t].pc \in Loading /\ frame[t].pc # "link"
  BY DEF CreateDefaultInstance, Loading
<1>20. PICK n \in Level : n = frame[t].ptr[3]
  BY <1>1, LoadingFacts
<1> DEFINE d == DefaultAddress(n)
           f == IF n + 1 \in Level /\ initializer[n + 1] = t THEN LoadFrame("table", n + 1) ELSE Idle
<1>2. /\ n \in Level /\ n \in Nat /\ initializer[n] = t /\ ~Initialized(n)
      /\ n > 0 => n - 1 \in Level /\ Initialized(n - 1)
  BY <1>1, <1>20, LoadingFacts, RuntimeAssumption DEF Level
<1>3. d \in Address /\ d[2] = 0 /\ d[3] = n /\ d \notin DOMAIN mem /\ d # None
  BY <1>2, AddressFacts, NoneAssumption DEF Initialized
<1>4. /\ DOMAIN mem' = DOMAIN mem \cup {d} /\ \A q \in DOMAIN mem : mem'[q] = mem[q]
      /\ mem'[d] = [arena |-> DefaultArena, sub |-> None]
      /\ mem' = [q \in DOMAIN mem' |-> mem'[q]]
  <2>1. Chain(d, n) = {d}
    BY <1>2 DEF Chain, DefaultAddress
  <2>2. mem' = Allocate(d, n, DefaultArena)
    BY <1>20 DEF CreateDefaultInstance
  <2> QED
    BY <1>3, <2>1, <2>2 DEF Allocate
<1>5. /\ frame' = [frame EXCEPT ![t] = f]
      /\ initializer' = [initializer EXCEPT ![n] = None]
      /\ group' = group /\ life' = life /\ released' = released /\ local' = local /\ calls' = calls
  BY <1>20 DEF CreateDefaultInstance, Enter
<1>6. /\ frame'[t] = f /\ \A u \in Threads \ {t} : frame'[u] = frame[u]
      /\ initializer'[n] = None /\ \A k \in Level \ {n} : initializer'[k] = initializer[k]
      /\ initializer' \in [Level -> Threads \cup {None}]
  BY <1>2, <1>5 DEF Typed
<1>7. Idle \in Frame /\ Idle.pc = "idle" /\ Idle.value = None /\ Idle.operands = {}
  BY DEF Idle, Frame, PCs
<1>8. /\ f \in Frame /\ f.value = None /\ f.operands \subseteq {DefaultArena}
      /\ f.pc # "idle" => f.in = DefaultArena /\ f.operands = {DefaultArena} /\ f.ptr[2] = 0
      /\ f.pc \in {"idle", "table"}
  BY <1>7, LoadFrameFacts DEF Loading
<1>9. f.pc = "table" => f = LoadFrame("table", n + 1) /\ n + 1 \in Level /\ initializer[n + 1] = t
  BY <1>7
<1> HIDE DEF f
<1>10. Typed'
  <2>1. \A q \in DOMAIN mem' : mem'[q] \in [arena : Arenas, sub : Address \cup {None}]
    BY <1>4, RuntimeAssumption DEF Typed
  <2> QED
    BY <1>3, <1>4, <1>5, <1>6, <1>8, <2>1 DEF Typed
<1>11. FramesOK'
  <2>1. FrameOK(t)'
    BY <1>6, <1>8 DEF FrameOK, Setting, Parsing
  <2>2. ASSUME NEW u \in Threads \ {t} PROVE FrameOK(u)'
    <3>1. frame[u].ptr \in DOMAIN mem =>
            frame[u].ptr \in DOMAIN mem' /\ mem'[frame[u].ptr] = mem[frame[u].ptr]
      BY <1>4
    <3> QED
      BY <1>5, <1>6, <3>1 DEF FramesOK, FrameOK, NextAddress, CallsLeft
  <2> QED
    BY <2>1, <2>2 DEF FramesOK
<1>12. /\ \A u \in Threads : \A m : Holds(u, m)' => Holds(u, m)
       /\ \A u \in Threads : Dirty(u)' => Dirty(u)
       /\ \A u \in Threads : \A a : Carries(u, a)' => Carries(u, a) \/ a = DefaultArena
       /\ \A u \in Threads : \A a : Owns(u, a)' => Owns(u, a)
  <2>1. frame'[t].pc \notin Setting \cup Parsing
    BY <1>6, <1>8 DEF Setting, Parsing
  <2>2. \A u \in Threads \ {t} : Dirty(u)' => Dirty(u)
    BY <1>5, <1>6 DEF Dirty
  <2>3. Dirty(t)' => Dirty(t)
    BY <1>1, <1>5 DEF Dirty
  <2> QED
    BY <1>5, <1>6, <1>8, <2>1, <2>2, <2>3 DEF Holds, Carries, Owns
<1>13. HeldFused' /\ DirtyInOwnArena' /\ CarriedLive' /\ OwnedOnce' /\ GroupsReleased'
  BY <1>4, <1>5, <1>12 DEF HeldFused, DirtyInOwnArena, CarriedLive, OwnedOnce, GroupsReleased,
                           DefaultsThere
<1>14. SubFused'
  <2>1. \A q \in DOMAIN mem : Unfused(q) => Unfused(q)'
    BY <1>1, <1>4, <1>6 DEF Unfused
  <2> QED
    BY <1>4, <1>5, <2>1 DEF SubFused
<1>15. \A k \in Level : Initialized(k)' <=> k = n \/ Initialized(k)
  <2>1. \A k \in Level : DefaultAddress(k) = d => k = n
    BY <1>2 DEF DefaultAddress
  <2> QED
    BY <1>2, <1>4, <2>1 DEF Initialized
<1>16. DefaultsThere'
  BY <1>2, <1>4, <1>5, <1>15 DEF DefaultsThere, Initialized
<1>17. Allocated'
  <2>1. \A u \in Threads : calls[u] \in Nat
    BY DEF Typed
  <2> QED
    BY <1>3, <1>4, <1>5, <2>1 DEF Allocated
<1>18. DirtyPrivate'
  <2>1. ASSUME NEW u \in Threads, Dirty(u)
        PROVE  Private(u)'
    <3> DEFINE e == local[u].builder.instance.ptr
    <3>1. Private(u) /\ e[2] # 0
      BY <2>1 DEF DirtyPrivate, Private
    <3>2. \A q \in DOMAIN mem' : mem'[q].sub # e
      <4>1. e # None
        BY <2>1, IdleFacts, NoneAssumption DEF Dirty, Builder, Message
      <4> QED
        BY <1>4, <3>1, <4>1 DEF Private
    <3>3. frame'[t].pc # "idle" => frame'[t].ptr # e
      BY <1>6, <1>8, <3>1
    <3>4. frame'[u].value # None => frame'[u].value.ptr # e
      BY <1>6, <1>8, <3>1 DEF Private
    <3>5. \A w \in Threads \ {u} : frame'[w].pc # "idle" => frame'[w].ptr # e
      BY <1>6, <3>1, <3>3 DEF Private
    <3> QED
      BY <1>5, <1>12, <3>1, <3>2, <3>4, <3>5 DEF Private
  <2> QED
    BY <1>12, <2>1 DEF DirtyPrivate
<1>19. Classes'
  <2>1. \A u \in Threads : LoadOK(u)'
    <3>1. LoadOK(t)'
      <4>1. f.pc = "table" => initializer'[n + 1] = t /\ Initialized((n + 1) - 1)'
        <5>1. (n + 1) - 1 = n /\ n + 1 # n /\ Initialized(n)'
          BY <1>2, <1>15
        <5> QED
          BY <1>6, <1>9, <5>1
      <4>2. f.pc \in Loading => f.pc = "table"
        BY <1>8 DEF Loading
      <4> QED
        BY <1>6, <1>9, <4>1, <4>2, LoadEntered DEF LoadOK
    <3>2. ASSUME NEW u \in Threads \ {t} PROVE LoadOK(u)'
      <4>1. \A k \in Level : initializer[k] = u => initializer'[k] = u
        BY <1>2, <1>6
      <4> QED
        BY <1>6, <1>15, <4>1, LoadKept DEF Classes
    <3> QED
      BY <3>1, <3>2
  <2>2. \A u \in Threads : (frame[u].pc \in Parsing => Initialized(frame[u].ptr[3]))'
    BY <1>4, <1>6, <1>8 DEF Classes, Parsing, Initialized
  <2>3. ASSUME NEW q \in DOMAIN mem', NEW k \in Level, k <= q[3]
        PROVE  Initialized(k)'
    <3>1. CASE q \in DOMAIN mem
      BY <1>15, <2>3, <3>1 DEF Classes
    <3>2. CASE q = d /\ k # n
      <4>1. k \in Nat /\ n > 0 /\ k <= n - 1
        BY <1>2, <1>3, <2>3, <3>2 DEF Level
      <4>2. DefaultAddress(n - 1) \in DOMAIN mem /\ DefaultAddress(n - 1)[3] = n - 1
        BY <1>2, <4>1, AddressFacts DEF Initialized
      <4> QED
        BY <1>15, <4>1, <4>2 DEF Classes
    <3> QED
      BY <1>4, <1>15, <3>1, <3>2
  <2>4. \A k \in Level : initializer'[k] # None => ~Initialized(k)'
    BY <1>6, <1>15 DEF Classes
  <2> QED
    BY <2>1, <2>2, <2>3, <2>4 DEF Classes
<1> QED
  BY <1>10, <1>11, <1>13, <1>14, <1>16, <1>17, <1>18, <1>19

----------------------------------------------------------------------------
(* The accesses of setMessage that change native memory.                   *)

\* What a setter writes to and what it stores.
LEMMA SetterFacts ==
  ASSUME IInv, NEW t \in Threads, frame[t].pc \in {"store", "fuse", "hasbit"}
  PROVE  LET p == frame[t].ptr
             v == frame[t].value
             b == local[t].builder
         IN  /\ frame[t] \in Frame /\ Dirty(t) /\ Private(t) /\ b \in Builder
             /\ p = b.instance.ptr /\ frame[t].in = b.arena /\ b.arena = b.instance.arena
             /\ frame[t].in \in Arenas /\ life[frame[t].in] = "live"
             /\ p \in DOMAIN mem /\ group[mem[p].arena] = group[frame[t].in]
             /\ v # None => /\ v \in Message /\ Fit(t, v) /\ Holds(t, v)
                            /\ v.ptr[3] + 1 = p[3] /\ v.ptr # p
             /\ frame[t].pc \in {"store", "fuse"} => v # None
<1> DEFINE b == local[t].builder
           v == frame[t].value
<1>1. frame[t].pc \in Setting /\ frame[t].pc # "clone"
  BY DEF Setting
<1>2. /\ b # None /\ b.isDirty /\ frame[t].ptr = b.instance.ptr /\ frame[t].in = b.arena
      /\ frame[t].in \in frame[t].operands
      /\ v # None => v.ptr[3] + 1 = frame[t].ptr[3]
      /\ frame[t].pc \in {"store", "fuse"} => v # None
  BY <1>1 DEF IInv, FramesOK, FrameOK, Setting
<1>3. Dirty(t) /\ Private(t) /\ b.arena = b.instance.arena
  BY <1>1, <1>2 DEF Dirty, IInv, DirtyPrivate, DirtyInOwnArena
<1>4. b \in Builder /\ frame[t] \in Frame
  BY <1>2, IdleFacts DEF IInv, Typed
<1>5. b.arena \in Arenas /\ b.instance \in Message
  BY <1>4 DEF Builder
<1>6. life[b.arena] = "live"
  BY <1>2, <1>5, RuntimeAssumption DEF IInv, CarriedLive, Carries
<1>7. b.instance.ptr \in DOMAIN mem /\ group[mem[b.instance.ptr].arena] = group[b.instance.arena]
  BY <1>2, <1>5 DEF IInv, HeldFused, Holds
<1>8. v # None => v \in Message /\ Holds(t, v)
  BY <1>4 DEF Frame, Holds
<1>9. v # None => Fit(t, v) /\ v.ptr # b.instance.ptr
  BY <1>3, <1>8, HeldIsFit DEF Private
<1> QED
  BY <1>2, <1>3, <1>4, <1>5, <1>6, <1>7, <1>8, <1>9

\* A pointer to another arena is stored: until the fuse, it is the one that SubFused
\* excuses.
LEMMA StoreMessageStep ==
  ASSUME IInv, NEW t \in Threads, StoreMessage(t)
  PROVE  IInv'
<1> USE DEF IInv
<1> DEFINE p == frame[t].ptr
           v == frame[t].value
           in == frame[t].in
           f == [frame[t] EXCEPT !.pc = IF in = v.arena THEN "hasbit" ELSE "fuse"]
<1>1. /\ frame[t] \in Frame /\ Dirty(t) /\ Private(t) /\ p = local[t].builder.instance.ptr
      /\ in \in Arenas /\ p \in DOMAIN mem /\ group[mem[p].arena] = group[in]
      /\ v \in Message /\ Fit(t, v) /\ Holds(t, v)
      /\ v.ptr[3] + 1 = p[3] /\ v.ptr # p /\ v # None
  BY SetterFacts DEF StoreMessage
<1>2. /\ DOMAIN mem' = DOMAIN mem /\ mem'[p].sub = v.ptr
      /\ \A q \in DOMAIN mem : mem'[q].arena = mem[q].arena /\ (q # p => mem'[q] = mem[q])
  BY <1>1 DEF Typed, StoreMessage
<1>3. /\ f \in Frame /\ f.pc = (IF in = v.arena THEN "hasbit" ELSE "fuse")
      /\ f.ptr = p /\ f.value = v /\ f.in = in /\ f.operands = frame[t].operands
  BY <1>1 DEF Frame, PCs, Setting
<1>4. /\ frame'[t] = f /\ \A u \in Threads \ {t} : frame'[u] = frame[u]
      /\ frame' = [frame EXCEPT ![t] = f]
      /\ local' = local /\ group' = group /\ life' = life /\ released' = released /\ calls' = calls
      /\ initializer' = initializer
  BY DEF Typed, StoreMessage, Enter
<1> HIDE DEF f
<1>5. Typed'
  <2>1. mem' \in [DOMAIN mem -> [arena : Arenas, sub : Address \cup {None}]]
    BY <1>1 DEF Typed, StoreMessage, Message
  <2> QED
    BY <1>2, <1>3, <1>4, <2>1 DEF Typed
<1>6. FramesOK'
  <2>1. FrameOK(t)'
    <3>1. FrameOK(t) /\ frame[t].pc = "store"
      BY DEF FramesOK, StoreMessage
    <3>2. f.pc \in {"fuse", "hasbit"}
      BY <1>3
    <3> QED
      BY <1>1, <1>3, <1>4, <3>1, <3>2 DEF FrameOK, Setting, Parsing
  <2>2. \A u \in Threads \ {t} : FrameOK(u)'
    BY <1>2, <1>4 DEF FramesOK, FrameOK, NextAddress, CallsLeft
  <2> QED
    BY <2>1, <2>2 DEF FramesOK
<1>7. /\ \A u \in Threads : \A m : Holds(u, m)' <=> Holds(u, m)
      /\ \A u \in Threads : Dirty(u)' <=> Dirty(u)
  BY <1>3, <1>4 DEF Holds, Dirty, StoreMessage
<1>8. HeldFused' /\ DirtyInOwnArena'
  BY <1>2, <1>4, <1>7 DEF HeldFused, DirtyInOwnArena
<1>9. SubFused'
  <2>1. SUFFICES ASSUME NEW q \in DOMAIN mem, mem'[q].sub # None
                 PROVE  /\ mem'[q].sub \in DOMAIN mem
                        /\ mem'[q].sub[3] + 1 = q[3]
                        /\ group[mem[mem'[q].sub].arena] = group[mem[q].arena] \/ Unfused(q)'
    BY <1>2, <1>4 DEF SubFused
  <2>2. CASE q = p
    <3>1. in # v.arena => Unfused(q)'
      BY <1>2, <1>3, <1>4, <2>2 DEF Unfused
    <3>2. v.ptr \in DOMAIN mem /\ group[mem[v.ptr].arena] = group[v.arena]
      BY <1>1 DEF Fit, Sound
    <3>3. group[mem[v.ptr].arena] = group[mem[p].arena] \/ Unfused(q)'
      BY <1>1, <3>1, <3>2
    <3> QED
      BY <1>1, <1>2, <2>2, <3>2, <3>3
  <2>3. CASE q # p
    <3>1. Unfused(q) => Unfused(q)'
      BY <1>2, <1>4, <2>3 DEF Unfused, StoreMessage
    <3> QED
      BY <1>2, <2>1, <2>3, <3>1 DEF SubFused
  <2> QED
    BY <2>2, <2>3
<1>10. CarriedLive' /\ OwnedOnce'
  <2>1. \A u \in Threads : \A a : (Carries(u, a)' <=> Carries(u, a)) /\ (Owns(u, a)' <=> Owns(u, a))
    BY <1>3, <1>4 DEF Carries, Owns, Setting, Parsing, StoreMessage
  <2> QED
    BY <1>4, <2>1 DEF CarriedLive, OwnedOnce
<1>11. DefaultsThere' /\ GroupsReleased' /\ Allocated'
  BY <1>2, <1>4 DEF DefaultsThere, GroupsReleased, Allocated, Initialized
<1>13. Classes'
  BY <1>2, <1>3, <1>4, ClassesKept DEF Loading, Parsing
<1>12. DirtyPrivate'
  <2>1. ASSUME NEW u \in Threads, Dirty(u)
        PROVE  Private(u)'
    <3> DEFINE d == local[u].builder.instance.ptr
    <3>1. Private(u)
      BY <2>1 DEF DirtyPrivate
    <3>2. v.ptr # d
      BY <1>1, <2>1 DEF Fit
    <3>3. \A q \in DOMAIN mem : mem'[q].sub # d
      BY <1>2, <3>1, <3>2 DEF Private
    <3>4. \A w \in Threads : /\ frame'[w].value = frame[w].value /\ frame'[w].ptr = frame[w].ptr
                             /\ frame'[w].pc # "idle" => frame[w].pc # "idle"
      BY <1>3, <1>4 DEF StoreMessage
    <3> QED
      BY <1>2, <1>4, <1>7, <3>1, <3>3, <3>4 DEF Private
  <2> QED
    BY <1>7, <2>1 DEF DirtyPrivate
<1> QED
  BY <1>5, <1>6, <1>8, <1>9, <1>10, <1>11, <1>12, <1>13

\* The two groups become one; both arenas are live, so no released group is touched.
LEMMA FuseStep ==
  ASSUME IInv, NEW t \in Threads, Fuse(t)
  PROVE  IInv'
<1> USE DEF IInv
<1> DEFINE p == frame[t].ptr
           v == frame[t].value
           in == frame[t].in
           f == [frame[t] EXCEPT !.pc = "hasbit"]
<1>1. /\ frame[t] \in Frame /\ Dirty(t) /\ life[in] = "live"
      /\ in \in Arenas /\ p \in DOMAIN mem /\ group[mem[p].arena] = group[in]
      /\ v \in Message /\ v # None /\ Fit(t, v) /\ v.arena \in Arenas
  BY SetterFacts DEF Fuse, Message
<1>2. /\ f \in Frame /\ f.pc = "hasbit"
      /\ f.ptr = p /\ f.value = v /\ f.in = in /\ f.operands = frame[t].operands
  BY <1>1 DEF Frame, PCs, Setting
<1>3. /\ frame'[t] = f /\ \A u \in Threads \ {t} : frame'[u] = frame[u]
      /\ frame' = [frame EXCEPT ![t] = f]
      /\ mem' = mem /\ local' = local /\ life' = life /\ released' = released /\ calls' = calls
      /\ initializer' = initializer
  BY DEF Typed, Fuse, Enter
<1> HIDE DEF f
<1>4. /\ \A a \in Arenas : group'[a] = IF group[a] = group[v.arena] THEN group[in] ELSE group[a]
      /\ group' \in [Arenas -> Arenas]
  BY <1>1 DEF Typed, Fuse, upb_Arena_Fuse
<1>5. \A a, b \in Arenas : group[a] = group[b] => group'[a] = group'[b]
  BY <1>4
<1>6. Typed'
  BY <1>2, <1>3, <1>4 DEF Typed
<1>7. \A q \in DOMAIN mem : mem[q].arena \in Arenas
  BY DEF Typed
<1>8. FramesOK'
  <2>1. FrameOK(t)'
    BY <1>1, <1>2, <1>3 DEF FramesOK, FrameOK, Setting, Parsing, Fuse
  <2>2. ASSUME NEW u \in Threads \ {t}
        PROVE  FrameOK(u)'
    <3>1. FrameOK(u) /\ frame[u] \in Frame
      BY DEF FramesOK, Typed
    <3>2. frame[u].pc # "idle" => frame[u].in \in Arenas
      BY <3>1 DEF FrameOK, Frame
    <3>3. frame[u].pc \in {"get", "encode"} =>
            group'[mem[frame[u].ptr].arena] = group'[frame[u].in]
      BY <1>5, <1>7, <3>1, <3>2 DEF FrameOK
    <3> QED
      BY <1>3, <3>1, <3>3 DEF FrameOK, NextAddress, CallsLeft
  <2> QED
    BY <2>1, <2>2 DEF FramesOK
<1>9. /\ \A u \in Threads : \A m : Holds(u, m)' <=> Holds(u, m)
      /\ \A u \in Threads : Dirty(u)' <=> Dirty(u)
  BY <1>2, <1>3 DEF Holds, Dirty, Fuse
<1>10. HeldFused'
  BY <1>3, <1>5, <1>7, <1>9 DEF HeldFused, Message
<1>11. DirtyInOwnArena' /\ Allocated' /\ DefaultsThere'
  BY <1>3, <1>9 DEF DirtyInOwnArena, Allocated, DefaultsThere, Initialized
<1>16. Classes'
  BY <1>2, <1>3, ClassesKept DEF Loading, Parsing
<1>12. SubFused'
  <2>1. ASSUME NEW q \in DOMAIN mem, mem[q].sub # None
        PROVE  group'[mem[mem[q].sub].arena] = group'[mem[q].arena] \/ Unfused(q)'
    <3>1. mem[q].sub \in DOMAIN mem
          /\ (group[mem[mem[q].sub].arena] = group[mem[q].arena] \/ Unfused(q))
      BY <2>1 DEF SubFused
    <3>2. CASE group[mem[mem[q].sub].arena] = group[mem[q].arena]
      BY <1>5, <1>7, <3>1, <3>2
    <3>3. CASE Unfused(q)
      <4>1. PICK u \in Threads : frame[u].pc = "fuse" /\ frame[u].ptr = q /\ frame[u].value.ptr = mem[q].sub
        BY <3>3 DEF Unfused
      <4>2. CASE u = t
        <5>1. group[mem[mem[q].sub].arena] = group[v.arena] /\ group[mem[q].arena] = group[in]
          BY <1>1, <4>1, <4>2 DEF Fit, Sound
        <5> QED
          BY <1>4, <1>7, <3>1, <5>1
      <4>3. CASE u # t
        BY <1>3, <4>1, <4>3 DEF Unfused
      <4> QED
        BY <4>2, <4>3
    <3> QED
      BY <3>1, <3>2, <3>3
  <2> QED
    BY <1>3, <2>1 DEF SubFused
<1>13. CarriedLive' /\ OwnedOnce'
  <2>1. \A u \in Threads : \A a : (Carries(u, a)' <=> Carries(u, a)) /\ (Owns(u, a)' <=> Owns(u, a))
    BY <1>2, <1>3 DEF Carries, Owns, Setting, Parsing, Fuse
  <2> QED
    BY <1>3, <2>1 DEF CarriedLive, OwnedOnce
<1>14. GroupsReleased'
  <2>1. ASSUME NEW a \in released, NEW b \in Arenas, group'[b] = group'[a]
        PROVE  b \in released
    <3>1. a \in Arenas /\ in \notin released /\ v.arena \notin released
      BY <1>1 DEF Typed, GroupsReleased, Fit, Sound
    <3>2. group[a] # group[in] /\ group[a] # group[v.arena]
      BY <1>1, <3>1 DEF GroupsReleased
    <3>3. group'[a] = group[a] /\ group[b] = group[a]
      BY <1>4, <2>1, <3>1, <3>2
    <3> QED
      BY <3>3 DEF GroupsReleased
  <2> QED
    BY <1>3, <2>1 DEF GroupsReleased
<1>15. DirtyPrivate'
  <2>1. \A w \in Threads : /\ frame'[w].value = frame[w].value /\ frame'[w].ptr = frame[w].ptr
                           /\ frame'[w].pc # "idle" => frame[w].pc # "idle"
    BY <1>2, <1>3 DEF Fuse
  <2> QED
    BY <1>3, <1>9, <2>1 DEF DirtyPrivate, Private
<1> QED
  BY <1>6, <1>8, <1>10, <1>11, <1>12, <1>13, <1>14, <1>15, <1>16

----------------------------------------------------------------------------
(* The accesses that allocate messages.                                    *)

\* What a frame that is not idle is about is there, or to be made by its thread.
LEMMA FramePtr ==
  ASSUME IInv, NEW u \in Threads, frame[u].pc # "idle"
  PROVE  \/ frame[u].ptr \in DOMAIN mem
         \/ frame[u].pc \in Parsing /\ frame[u].ptr[1] = u
         \/ frame[u].pc \in Loading /\ frame[u].ptr[2] = 0
<1>1. FrameOK(u) /\ frame[u].pc \in PCs
  BY DEF IInv, FramesOK, Typed, Frame
<1>2. CASE frame[u].pc \in {"get", "encode"}
  BY <1>1, <1>2 DEF FrameOK
<1>3. CASE frame[u].pc \in Setting
  <2>1. local[u].builder # None /\ frame[u].ptr = local[u].builder.instance.ptr
    BY <1>1, <1>3 DEF FrameOK
  <2>2. local[u].builder.instance \in Message
    BY <2>1, IdleFacts DEF IInv, Builder
  <2> QED
    BY <2>1, <2>2 DEF IInv, HeldFused, Holds
<1>4. CASE frame[u].pc \in Parsing
  BY <1>1, <1>4 DEF FrameOK, NextAddress
<1>5. CASE frame[u].pc \in Loading
  BY <1>5, LoadingFacts, LoadFrameFacts
<1> QED
  BY <1>1, <1>2, <1>3, <1>4, <1>5 DEF PCs

\* Thread t makes message m, and what is under it, in arena a that is its own, and
\* comes to hold it in its variables l.
LEMMA AllocateStep ==
  ASSUME IInv, NEW t \in Threads, NEW n \in Level, NEW last \in Level, last <= n,
         NEW a \in Arenas, NEW m \in Message, NEW l, NEW f \in Frame,
         CallsLeft(t), Carries(t, a), frame[t].pc \in {"clone", "decode"}, Initialized(n),
         m.ptr = NextAddress(t, n), m.arena = a,
         mem' = Allocate(m.ptr, last, a), CountCall(t),
         local' = [local EXCEPT ![t] = l], frame' = [frame EXCEPT ![t] = f],
         UNCHANGED <<group, life, released, initializer>>,
         l \in [arena : Arenas \cup {None}, message : Message \cup {None},
                builder : Builder \cup {None}],
         FrameOK(t)', f.pc \notin Loading \cup Parsing,
         f.pc # "idle" => f.ptr = m.ptr,
         \A x : Holds(t, x)' => x = m \/ Holds(t, x),
         \A c : (Carries(t, c)' => Carries(t, c)) /\ (Owns(t, c)' => Owns(t, c)),
         Dirty(t)' =>
           \/ /\ l.builder.instance = m /\ l.builder.arena = a
              /\ l.message = local[t].message /\ f.value = frame[t].value
           \/ Dirty(t) /\ l.builder = local[t].builder /\ l.message = m /\ f = Idle
  PROVE  IInv'
<1> USE DEF IInv
<1> DEFINE C == Chain(m.ptr, last)
<1>1. /\ local'[t] = l /\ \A u \in Threads \ {t} : local'[u] = local[u]
      /\ frame'[t] = f /\ \A u \in Threads \ {t} : frame'[u] = frame[u]
      /\ calls'[t] = calls[t] + 1 /\ \A u \in Threads \ {t} : calls'[u] = calls[u]
  BY DEF Typed, CountCall
<1>2. /\ DOMAIN mem' = DOMAIN mem \cup C /\ C \subseteq Address
      /\ C \cap DOMAIN mem = {} /\ m.ptr \in C
      /\ \A q \in DOMAIN mem : mem'[q] = mem[q]
      /\ \A q \in C : /\ q[1] = t /\ q[2] = calls[t] + 1 /\ q[3] <= n
                      /\ mem'[q] \in [arena : Arenas, sub : Address \cup {None}]
                      /\ mem'[q].arena = a
                      /\ mem'[q].sub # None => mem'[q].sub \in C /\ mem'[q].sub[3] + 1 = q[3]
  <2>1. mem' = Allocate(NextAddress(t, n), last, a) /\ C = Chain(NextAddress(t, n), last)
    OBVIOUS
  <2>2. Typed /\ Allocated
    OBVIOUS
  <2>3. Extends(mem', C, t, n, a)
    BY <2>1, <2>2, AllocateFacts
  <2> HIDE DEF C
  <2> QED
    BY <2>3 DEF Extends
<1> HIDE DEF C
<1>3. m.ptr \in Address /\ m.ptr[1] = t /\ m.ptr[2] # 0 /\ m.ptr[3] = n /\ m.ptr \notin DOMAIN mem
  BY <1>2, NextAddressFacts
<1>4. \A p \in DOMAIN mem : mem[p].sub # None => mem[p].sub \in DOMAIN mem
  BY DEF SubFused
<1>5. \A u \in Threads \ {t} : \A x : Holds(u, x)' <=> Holds(u, x)
  BY <1>1 DEF Holds
<1>6. \A u \in Threads \ {t} : Dirty(u)' <=> Dirty(u)
  BY <1>1 DEF Dirty
<1>7. Typed'
  <2>1. calls' \in [Threads -> 0..MaxCalls]
    BY RuntimeAssumption DEF Typed, CountCall, CallsLeft
  <2>2. mem' \in [DOMAIN mem' -> [arena : Arenas, sub : Address \cup {None}]]
    <3>1. \A q \in DOMAIN mem' : mem'[q] \in [arena : Arenas, sub : Address \cup {None}]
      BY <1>2 DEF Typed
    <3>2. mem' = [q \in DOMAIN mem' |-> mem'[q]]
      BY DEF Allocate
    <3> QED
      BY <3>1, <3>2
  <2> QED
    BY <1>2, <2>1, <2>2 DEF Typed
<1>8. FramesOK'
  <2>1. ASSUME NEW u \in Threads \ {t}
        PROVE  FrameOK(u)'
    <3>1. FrameOK(u)
      BY DEF FramesOK
    <3>2. frame[u].ptr \in DOMAIN mem =>
            frame[u].ptr \in DOMAIN mem' /\ mem'[frame[u].ptr] = mem[frame[u].ptr]
      BY <1>2
    <3> QED
      BY <1>1, <3>1, <3>2 DEF FrameOK, NextAddress, CallsLeft
  <2> QED
    BY <2>1 DEF FramesOK
<1>9. HeldFused'
  <2>1. ASSUME NEW u \in Threads, NEW x \in Message, Holds(u, x)'
        PROVE  x.ptr \in DOMAIN mem' /\ group[mem'[x.ptr].arena] = group[x.arena]
    <3>1. CASE x = m
      BY <1>2, <3>1
    <3>2. CASE x # m
      BY <1>2, <1>5, <2>1, <3>2 DEF HeldFused
    <3> QED
      BY <3>1, <3>2
  <2> QED
    BY <2>1 DEF HeldFused
<1>10. DirtyInOwnArena'
  BY <1>1, <1>6 DEF DirtyInOwnArena
<1>11. SubFused'
  <2>1. ASSUME NEW q \in DOMAIN mem'
        PROVE  mem'[q].sub # None =>
                 /\ mem'[q].sub \in DOMAIN mem'
                 /\ mem'[q].sub[3] + 1 = q[3]
                 /\ group[mem'[mem'[q].sub].arena] = group[mem'[q].arena] \/ Unfused(q)'
    <3>1. CASE q \in C
      BY <1>2, <3>1
    <3>2. CASE q \in DOMAIN mem
      <4>1. Unfused(q) => Unfused(q)'
        BY <1>1, <1>2, <3>2 DEF Unfused
      <4> QED
        BY <1>2, <1>4, <3>2, <4>1 DEF SubFused
    <3> QED
      BY <1>2, <3>1, <3>2
  <2> QED
    BY <2>1 DEF SubFused
<1>12. CarriedLive' /\ OwnedOnce'
  <2>1. \A u \in Threads \ {t} : \A c : (Carries(u, c)' <=> Carries(u, c)) /\ (Owns(u, c)' <=> Owns(u, c))
    BY <1>1 DEF Carries, Owns
  <2> QED
    BY <2>1 DEF CarriedLive, OwnedOnce
<1>16. \A k \in Level : Initialized(k)' <=> Initialized(k)
  <2>1. \A k \in Level : DefaultAddress(k) \notin C
    BY <1>2, <1>3, NextAddressFacts, AddressFacts
  <2> QED
    BY <1>2, <2>1 DEF Initialized
<1>13. DefaultsThere' /\ GroupsReleased'
  BY <1>2, <1>16 DEF DefaultsThere, GroupsReleased, Initialized
<1>17. Classes'
  <2>1. LoadOK(t)'
    BY <1>1 DEF LoadOK
  <2>2. \A u \in Threads \ {t} : LoadOK(u)'
    BY <1>1, <1>16, LoadKept DEF Classes
  <2>3. \A u \in Threads : (frame[u].pc \in Parsing => Initialized(frame[u].ptr[3]))'
    BY <1>1, <1>2 DEF Classes, Initialized
  <2>4. ASSUME NEW q \in DOMAIN mem', NEW k \in Level, k <= q[3]
        PROVE  Initialized(k)'
    <3>1. CASE q \in DOMAIN mem
      BY <1>16, <2>4, <3>1 DEF Classes
    <3>2. CASE q \in C
      <4>1. q[3] \in Nat /\ n \in Nat /\ k \in Nat /\ q[3] <= n
        BY <1>2, <3>2, AddressFacts DEF Level
      <4>2. k <= n /\ DefaultAddress(n) \in DOMAIN mem /\ DefaultAddress(n)[3] = n
        BY <2>4, <4>1, AddressFacts DEF Initialized
      <4> QED
        BY <1>16, <4>2 DEF Classes
    <3> QED
      BY <1>2, <3>1, <3>2
  <2> QED
    BY <1>16, <2>1, <2>2, <2>3, <2>4 DEF Classes
<1>14. Allocated'
  <2>1. \A u \in Threads : calls[u] \in Nat /\ calls[u] <= calls'[u]
    BY <1>1 DEF Typed
  <2>2. \A q \in DOMAIN mem : q[2] \in Nat
    BY AddressFacts DEF Typed
  <2> QED
    BY <1>1, <1>2, <2>1, <2>2 DEF Allocated
<1>15. DirtyPrivate'
  <2>1. ASSUME NEW u \in Threads, Dirty(u), local'[u].builder = local[u].builder,
               u = t => l.message = m /\ f = Idle
        PROVE  Private(u)'
    <3> DEFINE d == local[u].builder.instance.ptr
    <3>1. Private(u)
      BY <2>1 DEF DirtyPrivate
    <3>2. d \in DOMAIN mem
      BY <2>1, IdleFacts DEF Dirty, HeldFused, Holds, Builder
    <3>3. d # m.ptr
      BY <1>3, <3>2
    <3>4. \A q \in DOMAIN mem' : mem'[q].sub # d
      <4>1. \A q \in C : mem'[q].sub # d
        BY <1>2, <3>2, NoneAssumption DEF Typed
      <4> QED
        BY <1>2, <3>1, <4>1 DEF Private
    <3>5. \A w \in Threads \ {u} : /\ frame'[w].pc # "idle" => frame'[w].ptr # d
                                   /\ \A x \in Message : Holds(w, x)' => x.ptr # d
      BY <1>1, <1>5, <3>1, <3>3 DEF Private
    <3>6. /\ local'[u].message # None => local'[u].message.ptr # d
          /\ frame'[u].value # None => frame'[u].value.ptr # d
      <4>1. CASE u = t
        BY <1>1, <2>1, <3>3, <4>1 DEF Idle
      <4>2. CASE u # t
        BY <1>1, <3>1, <4>2 DEF Private
      <4> QED
        BY <4>1, <4>2
    <3> QED
      BY <2>1, <3>1, <3>4, <3>5, <3>6 DEF Private
  <2>2. ASSUME l.builder.instance = m, l.message = local[t].message, f.value = frame[t].value
        PROVE  Private(t)'
    <3>1. \A q \in DOMAIN mem : mem[q].sub # m.ptr
      BY <1>3, <1>4, NoneAssumption
    <3>2. \A q \in C : mem'[q].sub # m.ptr
      <4>1. \A q \in C : q[3] \in Nat
        BY <1>2, AddressFacts DEF Level
      <4> QED
        BY <1>2, <1>3, <4>1, NoneAssumption DEF Level
    <3>3. \A w \in Threads : \A x \in Message : Holds(w, x) => x.ptr # m.ptr
      BY <1>3 DEF HeldFused
    <3>4. \A w \in Threads \ {t} : frame[w].pc # "idle" => frame[w].ptr # m.ptr
      BY <1>3, FramePtr
    <3>5. /\ l.message # None => l.message.ptr # m.ptr
          /\ f.value # None => f.value.ptr # m.ptr
      BY <2>2, <3>3 DEF Holds, Frame
    <3> QED
      BY <1>1, <1>2, <1>3, <1>5, <2>2, <3>1, <3>2, <3>3, <3>4, <3>5 DEF Private
  <2> QED
    BY <1>1, <1>6, <2>1, <2>2 DEF DirtyPrivate
<1> QED
  BY <1>7, <1>8, <1>9, <1>10, <1>11, <1>12, <1>13, <1>14, <1>15, <1>17

LEMMA DecodeStep ==
  ASSUME IInv, NEW t \in Threads, NEW last \in Level, Decode(t, last)
  PROVE  IInv'
<1> DEFINE m == [ptr |-> frame[t].ptr, arena |-> frame[t].in]
           l == [local[t] EXCEPT !.message = m]
<1>1. /\ frame[t] \in Frame /\ frame[t].pc = "decode" /\ frame[t].value = None
      /\ CallsLeft(t) /\ frame[t].in \in frame[t].operands /\ frame[t].operands \subseteq Arenas
  BY DEF IInv, Typed, FramesOK, FrameOK, Parsing, Setting, Decode, Frame
<1>2. PICK n \in Level : frame[t].ptr = NextAddress(t, n)
  BY <1>1 DEF IInv, FramesOK, FrameOK, Parsing
<1>3. frame[t].ptr \in Address /\ frame[t].ptr[3] = n
  BY <1>1, <1>2, NextAddressFacts DEF IInv
<1>4. m \in Message /\ m.ptr = NextAddress(t, n) /\ m.arena = frame[t].in /\ frame[t].in \in Arenas
  BY <1>1, <1>2, <1>3 DEF Message
<1> HIDE DEF m
<1>5. /\ local' = [local EXCEPT ![t] = l] /\ frame' = [frame EXCEPT ![t] = Idle]
      /\ mem' = Allocate(m.ptr, last, frame[t].in) /\ last <= n
  BY <1>2, <1>3, <1>4 DEF IInv, Typed, Decode, Return, Enter, m
<1>6. /\ l \in [arena : Arenas \cup {None}, message : Message \cup {None},
                builder : Builder \cup {None}]
      /\ l.arena = local[t].arena /\ l.builder = local[t].builder /\ l.message = m
  BY <1>4, IdleFacts DEF IInv
<1>7. local'[t] = l /\ frame'[t] = Idle
  BY <1>5 DEF IInv, Typed
<1>8. Idle \in Frame /\ Idle.pc = "idle" /\ Idle.value = None /\ Idle.operands = {}
  BY DEF Idle, Frame, PCs
<1>9. FrameOK(t)'
  BY <1>7, <1>8 DEF FrameOK, Setting, Parsing
<1> HIDE DEF l
<1>10. \A x : Holds(t, x)' => x = m \/ Holds(t, x)
  BY <1>6, <1>7, <1>8 DEF Holds
<1>11. \A c : (Carries(t, c)' => Carries(t, c)) /\ (Owns(t, c)' => Owns(t, c))
  BY <1>1, <1>4, <1>6, <1>7, <1>8 DEF Carries, Owns, Setting, Parsing
<1>12. Carries(t, frame[t].in)
  BY <1>1, <1>4, RuntimeAssumption DEF Carries
<1>13. Dirty(t)' => Dirty(t)
  BY <1>1, <1>6, <1>7 DEF Dirty
<1>14. CountCall(t) /\ UNCHANGED <<group, life, released, initializer>>
  BY DEF Decode
<1>15. Idle.pc \notin Loading \cup Parsing
  BY <1>8 DEF Loading, Parsing
<1>16. Initialized(n)
  BY <1>1, <1>3 DEF IInv, Classes, Parsing
<1> QED
  BY <1>1, <1>4, <1>5, <1>6, <1>8, <1>9, <1>10, <1>11, <1>12, <1>13, <1>14, <1>15, <1>16, AllocateStep

\* The copy is in the builder's arena, which is the thread's own, whosever message it
\* is a copy of.
LEMMA DeepCloneStep ==
  ASSUME IInv, NEW t \in Threads, DeepClone(t)
  PROVE  IInv'
<1> DEFINE b == local[t].builder
           v == frame[t].value
           n == frame[t].ptr[3]
           m == [ptr |-> Copied(t), arena |-> b.arena]
           b2 == [b EXCEPT !.instance = m]
           f == WriteFrame(b2, v)
           l == [local[t] EXCEPT !.builder = b2]
<1>1. /\ frame[t] \in Frame /\ frame[t].pc = "clone" /\ b # None /\ b.isDirty
      /\ frame[t].ptr = b.instance.ptr /\ frame[t].in = b.arena
      /\ frame[t].in \in frame[t].operands /\ frame[t].operands \subseteq Arenas
      /\ v # None => /\ v \in Message /\ v.arena \in frame[t].operands
                     /\ v.ptr[3] + 1 = n
      /\ CallsLeft(t)
  BY DEF IInv, Typed, FramesOK, FrameOK, Setting, DeepClone, Frame
<1>2. b \in Builder /\ b.instance \in Message /\ b.arena \in Arenas /\ b.instance.ptr \in Address
  BY <1>1, IdleFacts DEF IInv, Builder, Message
<1>3. n \in Level /\ n \in Nat
  BY <1>1, <1>2, AddressFacts DEF Level
<1>4. /\ Copied(t) = NextAddress(t, n) /\ Copied(t) \in Address /\ Copied(t)[3] = n
  BY <1>1, <1>3, NextAddressFacts DEF IInv, Copied
<1>5. m \in Message /\ m.ptr = Copied(t) /\ m.arena = b.arena
  BY <1>2, <1>4 DEF Message
<1> HIDE DEF m
<1>6. /\ b2 \in Builder /\ b2 # None /\ b2.isDirty /\ b2.arena = b.arena /\ b2.instance = m
  BY <1>1, <1>2, <1>5, NoneAssumption DEF Builder
<1>7. PICK last \in Level : Lowest(frame[t].ptr, last) /\ mem' = Allocate(m.ptr, last, b.arena)
  BY <1>1, <1>5 DEF DeepClone
<1>8. last <= n
  <2>1. frame[t].ptr \in DOMAIN mem
    BY <1>1, <1>2 DEF IInv, HeldFused, Holds
  <2> QED
    BY <2>1, <1>7, LowestIsBelow DEF IInv
<1>9. /\ f.ptr = m.ptr /\ f.in = b.arena /\ f.value = v
      /\ f.operands = {b.arena} \cup IF v = None THEN {} ELSE {v.arena}
      /\ f.pc = (IF v = None THEN "hasbit" ELSE "store")
  BY <1>5, <1>6 DEF WriteFrame
<1>10. f \in Frame
  <2>1. f.pc \in PCs /\ f.operands \subseteq Arenas
    BY <1>1, <1>2, <1>9 DEF PCs, Setting
  <2>2. f.value \in Message \cup {None}
    BY <1>1, <1>9
  <2>3. f = [pc |-> f.pc, ptr |-> f.ptr, in |-> f.in, value |-> f.value, operands |-> f.operands]
    BY DEF WriteFrame
  <2> QED
    BY <1>2, <1>4, <1>5, <1>9, <2>1, <2>2, <2>3 DEF Frame
<1>11. /\ local' = [local EXCEPT ![t] = l] /\ frame' = [frame EXCEPT ![t] = f]
  BY DEF IInv, Typed, DeepClone, Enter, m
<1>12. /\ l \in [arena : Arenas \cup {None}, message : Message \cup {None},
                 builder : Builder \cup {None}]
       /\ l.arena = local[t].arena /\ l.builder = b2 /\ l.message = local[t].message
  BY <1>6, IdleFacts DEF IInv
<1>13. local'[t] = l /\ frame'[t] = f
  BY <1>11 DEF IInv, Typed
<1> HIDE DEF l, f, b2
<1>14. /\ f.pc \in Setting
       /\ f.pc \notin Loading \cup Parsing \cup {"idle", "get", "encode", "fuse", "clone"}
  BY <1>9 DEF Setting, Parsing, Loading
<1>15. FrameOK(t)'
  <2>1. m.arena \in f.operands /\ (f.pc = "store" => v # None)
    BY <1>5, <1>9
  <2>2. v # None => v.arena \in f.operands /\ v.ptr[3] + 1 = m.ptr[3]
    BY <1>1, <1>4, <1>5, <1>9
  <2> QED
    BY <1>5, <1>6, <1>9, <1>12, <1>13, <1>14, <2>1, <2>2 DEF FrameOK
<1>16. \A x : Holds(t, x)' => x = m \/ Holds(t, x)
  BY <1>6, <1>9, <1>12, <1>13 DEF Holds
<1>17. \A c : (Carries(t, c)' => Carries(t, c)) /\ (Owns(t, c)' => Owns(t, c))
  <2>1. f.operands \subseteq frame[t].operands
    BY <1>1, <1>9
  <2> QED
    BY <1>1, <1>5, <1>6, <1>9, <1>12, <1>13, <2>1 DEF Carries, Owns
<1>18. Carries(t, b.arena)
  BY <1>1, <1>2, RuntimeAssumption DEF Carries
<1>19. CountCall(t) /\ UNCHANGED <<group, life, released, initializer>>
  BY DEF DeepClone
<1>20. /\ l.builder.instance = m /\ l.builder.arena = b.arena
       /\ l.message = local[t].message /\ f.value = frame[t].value
       /\ f.ptr = m.ptr /\ f.pc \notin Loading \cup Parsing
  BY <1>6, <1>9, <1>12, <1>14
<1>21. frame[t].pc \in {"clone", "decode"} /\ CallsLeft(t) /\ m.ptr = NextAddress(t, n)
  BY <1>1, <1>4, <1>5
<1>22. Initialized(n)
  <2>1. frame[t].ptr \in DOMAIN mem
    BY <1>1, <1>2 DEF IInv, HeldFused, Holds
  <2> QED
    BY <1>3, <2>1 DEF IInv, Classes
<1> HIDE DEF n, b
<1> QED
  BY <1>2, <1>3, <1>5, <1>7, <1>8, <1>10, <1>11, <1>12, <1>15, <1>16, <1>17, <1>18, <1>19,
     <1>20, <1>21, <1>22, AllocateStep

----------------------------------------------------------------------------
(* The collector.                                                          *)

\* No reference to a collected arena is carried, when frames keep their operands; the
\* memory of a group goes when none of its arenas is carried.
LEMMA ReclaimStep ==
  ASSUME IInv, FrameRoots = TRUE, NEW a \in Arenas, Reclaim(a)
  PROVE  IInv'
<1> USE DEF IInv
<1>1. ASSUME NEW t \in Threads, Carries(t, a)
      PROVE  FALSE
  <2>1. a \in LocalRefs(t) \cup FrameRefs(t)
    BY <1>1 DEF Carries, LocalRefs, FrameRefs, ArenasOf
  <2> QED
    BY <2>1 DEF Reclaim, Reachable
<1>2. /\ mem' = mem /\ group' = group /\ local' = local /\ frame' = frame /\ calls' = calls
      /\ initializer' = initializer
      /\ life'[a] = "freed" /\ \A b \in Arenas \ {a} : life'[b] = life[b]
      /\ life' \in [Arenas -> {"unborn", "live", "freed"}]
  BY DEF Reclaim, Typed
<1>3. released' \subseteq released \cup Group(a)
  BY DEF Reclaim
<1>4. Typed'
  BY <1>2, <1>3 DEF Typed, Group
<1>5. FramesOK' /\ HeldFused' /\ DirtyInOwnArena' /\ SubFused' /\ Allocated' /\ DirtyPrivate' /\ OwnedOnce'
  BY <1>2 DEF FramesOK, FrameOK, NextAddress, CallsLeft, HeldFused, Holds, DirtyInOwnArena, Dirty,
              SubFused, Unfused, Allocated, DirtyPrivate, Private, OwnedOnce, Owns
<1>6. CarriedLive'
  BY <1>1, <1>2 DEF CarriedLive, Carries
<1>7. DefaultsThere'
  BY <1>2 DEF DefaultsThere, Reclaim, Reachable, Initialized
<1>9. Classes'
  BY <1>2 DEF Classes, LoadOK, LoadFrame, Initialized
<1>8. GroupsReleased'
  <2>1. ASSUME NEW c \in released
        PROVE  life'[c] = "freed" /\ \A b \in Arenas : group[b] = group[c] => b \in released
    BY <1>2 DEF GroupsReleased, Typed
  <2>2. CASE \A b \in Group(a) : life'[b] = "freed"
    BY <1>2, <2>1, <2>2 DEF Reclaim, Group, GroupsReleased
  <2>3. CASE ~\A b \in Group(a) : life'[b] = "freed"
    BY <1>2, <2>1, <2>3 DEF Reclaim, GroupsReleased
  <2> QED
    BY <2>2, <2>3
<1> QED
  BY <1>4, <1>5, <1>6, <1>7, <1>8, <1>9

----------------------------------------------------------------------------
(* The invariant holds throughout.                                         *)

LEMMA InitInv ==
  ASSUME Init
  PROVE  IInv
<1>1. \A t \in Threads : frame[t] = Idle /\ calls[t] = 0
      /\ local[t] = [arena |-> None, message |-> None, builder |-> None]
  BY DEF Init
<1>2. DOMAIN mem = {} /\ mem = [p \in {} |-> None]
  BY DEF Init
<1>3. Idle \in Frame /\ Idle.pc = "idle" /\ Idle.value = None /\ Idle.operands = {}
  BY DEF Idle, Frame, PCs
<1>4. Typed
  <2>1. DOMAIN mem \subseteq Address
    BY <1>2
  <2>2. mem \in [DOMAIN mem -> [arena : Arenas, sub : Address \cup {None}]]
    BY <1>2
  <2>3. calls \in [Threads -> 0..MaxCalls]
    BY RuntimeAssumption DEF Init
  <2> QED
    BY <1>3, <2>1, <2>2, <2>3, RuntimeAssumption DEF Typed, Init
<1>5. FramesOK
  BY <1>1, <1>3 DEF FramesOK, FrameOK, Setting, Parsing
<1>6. \A t \in Threads : /\ ~Dirty(t)
                         /\ \A m : ~Holds(t, m)
                         /\ \A a \in Arenas : ~Carries(t, a) /\ ~Owns(t, a)
  BY <1>1, <1>3, RuntimeAssumption DEF Dirty, Holds, Carries, Owns, Setting, Parsing
<1>7. HeldFused /\ DirtyInOwnArena /\ CarriedLive /\ DirtyPrivate /\ OwnedOnce
  BY <1>6 DEF HeldFused, DirtyInOwnArena, CarriedLive, DirtyPrivate, OwnedOnce
<1>8. SubFused /\ GroupsReleased
  BY <1>2 DEF SubFused, GroupsReleased, Init
<1>9. DefaultsThere
  BY <1>2, RuntimeAssumption DEF DefaultsThere, Init, Initialized
<1>11. Classes
  BY <1>1, <1>2, <1>3 DEF Classes, LoadOK, Loading, Parsing, Initialized
<1>10. Allocated
  BY <1>1, <1>2, AddressFacts DEF Allocated
<1> QED
  BY <1>4, <1>5, <1>7, <1>8, <1>9, <1>10, <1>11 DEF IInv

LEMMA NextInv ==
  ASSUME IInv, [Next]_vars, FrameRoots = TRUE
  PROVE  IInv'
<1>1. CASE UNCHANGED vars
  BY <1>1 DEF vars, IInv, Typed, FramesOK, FrameOK, NextAddress, CallsLeft, HeldFused, Holds,
              DirtyInOwnArena, Dirty, SubFused, Unfused, CarriedLive, Carries, DefaultsThere,
              Classes, LoadOK, LoadFrame, Initialized,
              GroupsReleased, Allocated, DirtyPrivate, Private, OwnedOnce, Owns
<1>2. ASSUME NEW t \in Threads, NEW n \in Level,
             GetDefaultInstance(t, n) \/ NewBuilder(t, n) \/ ParseFrom(t, n) \/ Decode(t, n)
      PROVE  IInv'
  <2>1. Initialized(n) => DefaultInstance(n) \in Message /\ Fit(t, DefaultInstance(n))
    BY DefaultIsFit DEF Fit, Sound
  <2> QED
    BY <1>2, <2>1, DefaultInstanceStep, StartBuilderStep, ParseFromStep, DecodeStep DEF NewBuilder
<1>3. ASSUME NEW t \in Threads, ToBuilder(t) \/ Build(t) \/ \E u \in Threads \ {t} : Pass(t, u)
      PROVE  IInv'
  <2>1. CASE ToBuilder(t)
    <3>1. local[t].message \in Message /\ Fit(t, local[t].message)
      BY <2>1, OwnIsFit, IdleFacts DEF IInv, ToBuilder
    <3> QED
      BY <2>1, <3>1, StartBuilderStep DEF ToBuilder
  <2> QED
    BY <1>3, <2>1, BuildStep, PassStep
<1>4. ASSUME NEW t \in Threads, \/ Set(t, None)
                                \/ local[t].message # None /\ Set(t, local[t].message)
      PROVE  IInv'
  BY <1>4, SetStep
<1>5. ASSUME NEW t \in Threads, \/ \E m \in Readable(t) : Get(t, m)
                                \/ local[t].message # None /\ ToByteArray(t, local[t].message)
      PROVE  IInv'
  <2>1. local[t].message # None => local[t].message \in Readable(t)
    BY DEF Readable
  <2> QED
    BY <1>5, <2>1, UseStep DEF Get, ToByteArray
<1>6. CASE Next
  BY <1>2, <1>3, <1>4, <1>5, <1>6, NewArenaStep, DropStep, DeepCloneStep, StoreMessageStep,
     FuseStep, ReturnStep, GetMessageStep, BuildMinitableStep, ReclaimStep,
     InitializeStep, LinkedInitializedStep, BuildClassMinitableStep, CreateDefaultStep DEF Next
<1> QED
  BY <1>1, <1>6

LEMMA Invariance == ASSUME FrameRoots = TRUE PROVE Spec => []IInv
<1>1. Init => IInv
  BY InitInv
<1>2. IInv /\ [Next]_vars => IInv'
  BY NextInv
<1> QED
  BY <1>1, <1>2, PTL DEF Spec

----------------------------------------------------------------------------
(* What follows from it.                                                   *)

\* Variables, frames and memory have the values that Runtime says they have; above all
\* a message that a thread holds has been allocated.
THEOREM TypeCorrect == ASSUME FrameRoots = TRUE PROVE Spec => []TypeOK
<1>1. ASSUME IInv PROVE TypeOK
  <2>1. \A t \in Threads : \A m \in Readable(t) : m \in Message /\ Holds(t, m)
    BY <1>1, IdleFacts DEF IInv, Readable, Holds, Builder
  <2> QED
    BY <1>1, <2>1 DEF IInv, Typed, SubFused, HeldFused, TypeOK, MaybeMessage
<1> QED
  BY <1>1, Invariance, PTL

LEMMA KeptFromInv == IInv => ReadableKept
<1> SUFFICES ASSUME IInv PROVE ReadableKept
  OBVIOUS
<1>1. ASSUME NEW t \in Threads, NEW m \in Message, Holds(t, m)
      PROVE  m.ptr \in DOMAIN mem /\ mem[m.ptr].arena \notin released
  <2>1. Fit(t, m)
    BY <1>1, HeldIsFit
  <2>2. m.arena \notin released /\ m.arena \in Arenas /\ mem[m.ptr].arena \in Arenas
    BY <2>1 DEF IInv, GroupsReleased, Typed, Fit, Sound, Message
  <2> QED
    BY <2>1, <2>2 DEF IInv, GroupsReleased, Fit, Sound
<1>2. \A t \in Threads : \A m \in ReachedMessages(t) : m \in Message /\ Holds(t, m)
  BY IdleFacts DEF IInv, Typed, ReachedMessages, Readable, Holds, Builder, Frame
<1>3. ASSUME NEW p \in DOMAIN mem, mem[p].sub # None, mem[mem[p].sub].arena \in released
      PROVE  mem[p].arena \in released
  <2>1. ~Unfused(p)
    <3>1. ASSUME NEW t \in Threads, frame[t].pc = "fuse", frame[t].value.ptr = mem[p].sub
          PROVE  FALSE
      <4>1. frame[t].value \in Message /\ Holds(t, frame[t].value)
        BY <3>1, SetterFacts
      <4> QED
        BY <1>1, <1>3, <3>1, <4>1
    <3> QED
      BY <3>1 DEF Unfused
  <2> QED
    BY <1>3, <2>1 DEF IInv, SubFused, GroupsReleased, Typed
<1> QED
  BY <1>1, <1>2, <1>3 DEF ReadableKept

\* Whatever a thread reaches through its messages, its builder and its call is kept,
\* with every submessage under it, also between a store and the fuse that follows.
THEOREM MemoryIsKept == ASSUME FrameRoots = TRUE PROVE Spec => []ReadableKept
BY Invariance, KeptFromInv, PTL

LEMMA AliveFromInv == IInv => AccessesAlive
<1> SUFFICES ASSUME IInv, NEW t \in Threads PROVE released \cap ArenasUsed(t) = {}
  BY DEF AccessesAlive
<1>1. ReadableKept
  BY KeptFromInv
<1>2. DefaultArena \notin released
  BY DEF IInv, DefaultsThere, GroupsReleased
<1>3. ASSUME frame[t].pc # "idle"
      PROVE  frame[t].in \in Arenas /\ frame[t].in \notin released
  <2>1. frame[t].in \in frame[t].operands /\ frame[t].operands \subseteq Arenas
    BY <1>3 DEF IInv, FramesOK, FrameOK, Typed, Frame
  <2> QED
    BY <2>1, RuntimeAssumption DEF IInv, CarriedLive, Carries, GroupsReleased
<1>4. ASSUME frame[t].pc \in {"get", "encode"} \cup Setting
      PROVE  frame[t].ptr \in DOMAIN mem /\ mem[frame[t].ptr].arena \notin released
  <2>1. CASE frame[t].pc \in Setting
    <3>1. local[t].builder # None /\ frame[t].ptr = local[t].builder.instance.ptr
      BY <2>1 DEF IInv, FramesOK, FrameOK
    <3>2. local[t].builder.instance \in Message /\ Holds(t, local[t].builder.instance)
      BY <3>1, IdleFacts DEF IInv, Holds, Builder
    <3>3. local[t].builder.instance \in ReachedMessages(t)
      BY <3>1, <3>2, NoneAssumption DEF ReachedMessages, Readable
    <3> QED
      BY <1>1, <3>1, <3>2, <3>3 DEF IInv, HeldFused, ReadableKept
  <2>2. CASE frame[t].pc \in {"get", "encode"}
    <3>1. frame[t].ptr \in DOMAIN mem /\ group[mem[frame[t].ptr].arena] = group[frame[t].in]
      BY <2>2 DEF IInv, FramesOK, FrameOK
    <3> QED
      BY <1>3, <2>2, <3>1 DEF IInv, GroupsReleased
  <2> QED
    BY <1>4, <2>1, <2>2
<1>5. ASSUME frame[t].pc \in {"clone", "encode"}, NEW q \in Tree(frame[t].ptr)
      PROVE  mem[q].arena \notin released
  <2> DEFINE S == {r \in DOMAIN mem : mem[r].arena \notin released}
  <2>1. Closed(S)
    BY <1>1 DEF Closed, ReadableKept, IInv, SubFused
  <2>2. frame[t].ptr \in S
    BY <1>4, <1>5 DEF Setting
  <2> HIDE DEF S
  <2>3. q \in S
    BY <1>5, <2>1, <2>2 DEF Tree, S
  <2> QED
    BY <2>3 DEF S
<1>6. \A q \in Reads(t) \cup Writes(t) : mem[q].arena \notin released
  BY <1>4, <1>5 DEF Reads, Writes, Setting
<1>7. \A a \in AllocatesIn(t) : a \notin released
  BY <1>2, <1>3 DEF AllocatesIn
<1>8. \A a \in Fuses(t) : a \notin released
  <2>1. frame[t].pc = "fuse" => life[frame[t].value.arena] = "live"
    BY SetterFacts DEF Fit, Sound
  <2> QED
    BY <1>3, <2>1 DEF Fuses, IInv, GroupsReleased
<1> QED
  BY <1>6, <1>7, <1>8 DEF ArenasUsed

\* No access of a call is to memory that was given back.
THEOREM NoUseAfterFree == ASSUME FrameRoots = TRUE PROVE Spec => []AccessesAlive
BY Invariance, AliveFromInv, PTL

LEMMA NoRaceFromInv == IInv => NoDataRace
<1> SUFFICES ASSUME IInv, NEW t \in Threads, NEW u \in Threads, t # u,
                    NEW p \in Writes(t), p \in Reads(u) \cup Writes(u)
             PROVE  FALSE
  BY DEF NoDataRace
<1>1. frame[t].pc \in {"store", "hasbit"} /\ p = frame[t].ptr
  BY DEF Writes
<1>2. Private(t) /\ p = local[t].builder.instance.ptr
  BY <1>1, SetterFacts
<1>3. frame[u].pc # "idle" => frame[u].ptr # p
  BY <1>2 DEF Private
<1>4. p \notin Writes(u)
  BY <1>3 DEF Writes
<1>5. ASSUME frame[u].pc \in {"clone", "encode"} PROVE p \notin Tree(frame[u].ptr)
  <2> DEFINE S == DOMAIN mem \ {p}
  <2>1. Closed(S)
    BY <1>2 DEF Closed, Private, IInv, SubFused
  <2>2. frame[u].ptr \in S
    BY <1>3, <1>5, FramePtr DEF Parsing, Loading
  <2> HIDE DEF S
  <2>3. p \in Tree(frame[u].ptr) => p \in S
    BY <2>1, <2>2 DEF Tree, S
  <2> QED
    BY <2>3 DEF S
<1> QED
  BY <1>3, <1>4, <1>5 DEF Reads

\* Threads that share messages and keep builders to themselves need no lock: what one
\* writes to, no other reads or writes.
THEOREM SharingIsSafe == ASSUME FrameRoots = TRUE PROVE Spec => []NoDataRace
BY Invariance, NoRaceFromInv, PTL

LEMMA ExclusiveFromInv == IInv => AllocationExclusive
<1> SUFFICES ASSUME IInv, NEW t \in Threads, NEW u \in Threads, t # u,
                    NEW a \in AllocatesIn(t), a \in AllocatesIn(u),
                    frame[t].pc # "encode", frame[u].pc # "encode"
             PROVE  a = DefaultArena /\ {frame[t].pc, frame[u].pc} \subseteq Constructing
  BY DEF AllocationExclusive
<1>1. ASSUME NEW w \in {t, u}, frame[w].pc \in {"clone", "decode"}
      PROVE  a \in Arenas /\ Owns(w, a)
  <2>1. a = frame[w].in /\ frame[w].in \in frame[w].operands /\ frame[w].operands \subseteq Arenas
    BY <1>1 DEF AllocatesIn, Constructing, IInv, FramesOK, FrameOK, Typed, Frame
  <2> QED
    BY <1>1, <2>1, RuntimeAssumption DEF Owns, Setting, Parsing
<1>2. ASSUME NEW w \in {t, u}
      PROVE  frame[w].pc \in {"clone", "decode"} \/ (frame[w].pc \in Constructing /\ a = DefaultArena)
  BY DEF AllocatesIn
<1>3. ASSUME NEW w \in {t, u}
      PROVE  frame[w].pc \notin {"clone", "decode"}
  BY <1>1, <1>2, <1>3 DEF IInv, OwnedOnce
<1> QED
  BY <1>2, <1>3

\* Copies, and what parseFrom decodes, are allocated in an arena of the thread's own,
\* never in the default arena or in another thread's.  Two threads allocate in one arena
\* only when both construct there what a class keeps in the default arena (the
\* initialisers of two classes, or the minitables of parseFrom), or when one serialises.
THEOREM AllocationsApart == ASSUME FrameRoots = TRUE PROVE Spec => []AllocationExclusive
BY Invariance, ExclusiveFromInv, PTL
=============================================================================
