------------------------------- MODULE Arena -------------------------------
(***************************************************************************)
(* java/runtime/main/jupb/Arena.java with jni/arena.cpp: Java objects that *)
(* own upb arenas, and the thread that frees the native memory of the ones *)
(* the garbage collector has taken.                                        *)
(*                                                                         *)
(* An element of Arenas stands for a Java Arena object, for its final      *)
(* field "pointer" and for the PhantomReference the constructor makes for  *)
(* it (its pointerToFree is the same address).  Two things are external:   *)
(* the JVM's garbage collector, and the upb library, whose arenas are kept *)
(* here as the union-find with one reference count per group that          *)
(* upb_Arena_New, upb_Arena_Fuse and upb_Arena_Free implement.             *)
(*                                                                         *)
(* FrameRoots says what the JVM treats as reachable during a call: TRUE,   *)
(* the parameters and "this" of a method until it returns; FALSE, only     *)
(* what the rest of the computation will still read, which is all the Java *)
(* language (JLS 12.6.1) requires.  The source has no reachabilityFence,   *)
(* so both are behaviours of this program.                                 *)
(***************************************************************************)
EXTENDS Naturals, FiniteSets

CONSTANTS
  Threads,     \* application threads; the reaper is not one of them
  Arenas,
  NoArena,     \* the null reference
  FrameRoots

ASSUME NoArenaAssumption == NoArena \notin Arenas
ASSUME ArenasAssumption == IsFiniteSet(Arenas)
ASSUME FrameRootsAssumption == FrameRoots \in BOOLEAN

VARIABLES
  life,        \* life[a] : "unborn", "live", "collected" by the GC, "freed"
  held,        \* held[t] : the arenas thread t can still reach and use
  frame,       \* frame[t] : the method of Arena that t is in, and its operands
  holder,      \* DefaultInstanceArenaHolder.INSTANCE
  refs,        \* Arena.refs: what keeps the phantom references reachable
  queue,       \* Arena.referenceQueue
  reaper,      \* the reaper thread: its position and its local "ref"
  root,        \* upb: root[a] is the representative of the group of a
  refcount,    \* upb: the reference count kept at each representative
  released     \* upb: the arenas whose memory went back to malloc

javaVars == <<life, held, frame, holder>>
reaperVars == <<refs, queue, reaper>>
upbVars == <<root, refcount, released>>
vars == <<life, held, frame, holder, refs, queue, reaper,
          root, refcount, released>>

MaybeArena == Arenas \cup {NoArena}
Methods == {"idle", "register", "registerDefault", "fuse"}
Idle == [method |-> "idle", a |-> NoArena, b |-> NoArena]
Waiting == [pc |-> "remove", ref |-> NoArena]

----------------------------------------------------------------------------
(* The upb library (external).  Each operation is atomic there.            *)

UpbInit ==
  /\ root = [a \in Arenas |-> a]
  /\ refcount = [a \in Arenas |-> 0]
  /\ released = {}

upb_Arena_New(a) ==
  /\ root' = [root EXCEPT ![a] = a]
  /\ refcount' = [refcount EXCEPT ![a] = 1]
  /\ UNCHANGED released

upb_Arena_Fuse(a, b) ==
  LET ra == root[a]
      rb == root[b]
  IN  IF ra = rb
      THEN UNCHANGED upbVars
      ELSE /\ root' = [x \in Arenas |-> IF root[x] = rb THEN ra ELSE root[x]]
           /\ refcount' = [refcount EXCEPT ![ra] = @ + refcount[rb], ![rb] = 0]
           /\ UNCHANGED released

Group(a) == {x \in Arenas : root[x] = root[a]}

upb_Arena_Free(a) ==
  /\ refcount' = [refcount EXCEPT ![root[a]] = @ - 1]
  /\ released' = IF refcount[root[a]] = 1 THEN released \cup Group(a)
                                          ELSE released
  /\ UNCHANGED root

----------------------------------------------------------------------------
(* What the collector may not take.  While the holder class initialises,   *)
(* the default arena is about to be stored: reachable in both readings.    *)

FrameRefs(t) ==
  IF FrameRoots \/ frame[t].method = "registerDefault"
  THEN {frame[t].a, frame[t].b} \ {NoArena}
  ELSE {}

Reachable == ({holder} \ {NoArena}) \cup UNION {held[t] \cup FrameRefs(t) : t \in Threads}

\* A phantom reference is enqueued only if it is itself reachable: in refs, or
\* still an operand of refs.add in the constructor.
PhantomReachable(a) ==
  \/ a \in refs
  \/ \E t \in Threads : /\ frame[t].method \in {"register", "registerDefault"}
                        /\ frame[t].a = a

----------------------------------------------------------------------------
(* Arena.java, application threads.                                        *)

Init ==
  /\ life = [a \in Arenas |-> "unborn"]
  /\ held = [t \in Threads |-> {}]
  /\ frame = [t \in Threads |-> Idle]
  /\ holder = NoArena
  /\ refs = {}
  /\ queue = {}
  /\ reaper = Waiting
  /\ UpbInit

\* The constructor up to the lock on refs: initNative() and the new
\* ArenaPhantomReference, whose referent is "this".
Construct(t, a, method) ==
  /\ frame[t] = Idle
  /\ life[a] = "unborn"
  /\ life' = [life EXCEPT ![a] = "live"]
  /\ upb_Arena_New(a)
  /\ frame' = [frame EXCEPT ![t] = [method |-> method, a |-> a, b |-> NoArena]]
  /\ UNCHANGED <<holder, reaperVars>>

NewArena(t, a) ==
  /\ Construct(t, a, "register")
  /\ held' = [held EXCEPT ![t] = @ \cup {a}]

\* Faulty variant: the phantom reference is not kept.
Register_Unkept(t) ==
  /\ frame[t].method = "register"
  /\ frame' = [frame EXCEPT ![t] = Idle]
  /\ UNCHANGED <<life, held, holder, reaperVars, upbVars>>

\* synchronized (refs) { refs.add(..) }, and the constructor returns.
Register(t) ==
  /\ frame[t].method = "register"
  /\ refs' = refs \cup {frame[t].a}
  /\ frame' = [frame EXCEPT ![t] = Idle]
  /\ UNCHANGED <<life, held, holder, queue, reaper, upbVars>>

\* getDefaultInstanceArena(): the first caller initialises the holder class and
\* the others wait for it (class initialisation lock).
InitDefaultInstanceArena(t, a) ==
  /\ holder = NoArena
  /\ \A u \in Threads : frame[u].method # "registerDefault"
  /\ Construct(t, a, "registerDefault")
  /\ UNCHANGED held

RegisterDefault(t) ==
  /\ frame[t].method = "registerDefault"
  /\ refs' = refs \cup {frame[t].a}
  /\ holder' = frame[t].a
  /\ held' = [held EXCEPT ![t] = @ \cup {frame[t].a}]
  /\ frame' = [frame EXCEPT ![t] = Idle]
  /\ UNCHANGED <<life, queue, reaper, upbVars>>

GetDefaultInstanceArena(t) ==
  /\ frame[t] = Idle
  /\ holder # NoArena
  /\ held' = [held EXCEPT ![t] = @ \cup {holder}]
  /\ UNCHANGED <<life, frame, holder, reaperVars, upbVars>>

\* fuse(a, b): returns at once when a == b; otherwise reads a.pointer and
\* b.pointer and calls into native code with the two addresses.
FuseEnter(t, a, b) ==
  /\ frame[t] = Idle
  /\ a \in held[t] /\ b \in held[t]
  /\ a # b
  /\ frame' = [frame EXCEPT ![t] = [method |-> "fuse", a |-> a, b |-> b]]
  /\ UNCHANGED <<life, held, holder, reaperVars, upbVars>>

FuseNative(t) ==
  /\ frame[t].method = "fuse"
  /\ upb_Arena_Fuse(frame[t].a, frame[t].b)
  /\ frame' = [frame EXCEPT ![t] = Idle]
  /\ UNCHANGED <<life, held, holder, reaperVars>>

\* The program: hands a reference to another thread, or is done with it.  The
\* last read of a reference may come before the call it is an operand of ends.
Pass(t, u, a) ==
  /\ frame[t] = Idle
  /\ a \in held[t]
  /\ held' = [held EXCEPT ![u] = @ \cup {a}]
  /\ UNCHANGED <<life, frame, holder, reaperVars, upbVars>>

Drop(t, a) ==
  /\ a \in held[t]
  /\ held' = [held EXCEPT ![t] = @ \ {a}]
  /\ UNCHANGED <<life, frame, holder, reaperVars, upbVars>>

----------------------------------------------------------------------------
(* The garbage collector (external).                                       *)

Collect(a) ==
  /\ life[a] = "live"
  /\ a \notin Reachable
  /\ life' = [life EXCEPT ![a] = "collected"]
  /\ queue' = IF PhantomReachable(a) THEN queue \cup {a} ELSE queue
  /\ UNCHANGED <<held, frame, holder, refs, reaper, upbVars>>

----------------------------------------------------------------------------
(* Arena.java, the reaper: while (true) { remove; free; unregister }.      *)

\* Faulty variant: the reference is looked at and left in the queue.
ReaperRemove_Peek(a) ==
  /\ reaper.pc = "remove"
  /\ a \in queue
  /\ reaper' = [pc |-> "free", ref |-> a]
  /\ UNCHANGED <<javaVars, refs, queue, upbVars>>

ReaperRemove(a) ==
  /\ reaper.pc = "remove"
  /\ a \in queue
  /\ queue' = queue \ {a}
  /\ reaper' = [pc |-> "free", ref |-> a]
  /\ UNCHANGED <<javaVars, refs, upbVars>>

ReaperFree ==
  /\ reaper.pc = "free"
  /\ upb_Arena_Free(reaper.ref)
  /\ life' = [life EXCEPT ![reaper.ref] = "freed"]
  /\ reaper' = [reaper EXCEPT !.pc = "unregister"]
  /\ UNCHANGED <<held, frame, holder, refs, queue>>

\* Faulty variant: the loop without refs.remove(ref).
ReaperUnregister_Kept ==
  /\ reaper.pc = "unregister"
  /\ reaper' = Waiting
  /\ UNCHANGED <<javaVars, refs, queue, upbVars>>

\* synchronized (refs) { refs.remove(ref) }; ref.clear() finds it cleared.
ReaperUnregister ==
  /\ reaper.pc = "unregister"
  /\ refs' = refs \ {reaper.ref}
  /\ reaper' = Waiting
  /\ UNCHANGED <<javaVars, queue, upbVars>>

ReaperStep == (\E a \in Arenas : ReaperRemove(a)) \/ ReaperFree \/ ReaperUnregister

----------------------------------------------------------------------------
Next ==
  \/ \E t \in Threads, a \in Arenas :
       NewArena(t, a) \/ InitDefaultInstanceArena(t, a) \/ Drop(t, a)
  \/ \E t \in Threads :
       Register(t) \/ RegisterDefault(t) \/ GetDefaultInstanceArena(t) \/ FuseNative(t)
  \/ \E t \in Threads, a, b \in Arenas : FuseEnter(t, a, b)
  \/ \E t, u \in Threads, a \in Arenas : Pass(t, u, a)
  \/ \E a \in Arenas : Collect(a) \/ ReaperRemove(a)
  \/ ReaperFree
  \/ ReaperUnregister

SafetySpec == Init /\ [][Next]_vars

\* The reaper loops for ever, and a thread inside Arena's own code goes on to
\* return; nothing makes the program drop a reference or the collector run.
Fairness ==
  /\ WF_vars(ReaperStep)
  /\ \A t \in Threads : WF_vars(Register(t) \/ RegisterDefault(t) \/ FuseNative(t))

Spec == SafetySpec /\ Fairness

----------------------------------------------------------------------------
(* Properties.                                                             *)

TypeOK ==
  /\ life \in [Arenas -> {"unborn", "live", "collected", "freed"}]
  /\ held \in [Threads -> SUBSET Arenas]
  /\ frame \in [Threads -> [method : Methods, a : MaybeArena, b : MaybeArena]]
  /\ holder \in MaybeArena
  /\ refs \subseteq Arenas
  /\ queue \subseteq Arenas
  /\ reaper \in [pc : {"remove", "free", "unregister"}, ref : MaybeArena]
  /\ root \in [Arenas -> Arenas]
  /\ refcount \in [Arenas -> Nat]
  /\ released \subseteq Arenas

\* The native memory of a reachable Arena, and of every arena it was fused with,
\* is there: also of those whose own objects the reaper has already freed
\* (getMessage relies on this, JupbMessageLite.java:189).
ReachableMemoryKept ==
  \A a \in Arenas : life[a] = "live" => Group(a) \cap released = {}

\* The native calls Arena makes get addresses of memory that is there:
\* upb_Arena_Fuse from fuse(), upb_Arena_Free from the reaper, which frees no
\* address twice.
NativeOperandsValid ==
  /\ \A t \in Threads :
       frame[t].method = "fuse" => {frame[t].a, frame[t].b} \cap released = {}
  /\ reaper.pc = "free" => life[reaper.ref] = "collected" /\ reaper.ref \notin released

\* No arena is lost: until its native arena is freed, its phantom reference is
\* kept reachable, is in the queue, or is in the reaper's hands.
NoArenaLost ==
  \A a \in Arenas :
    /\ life[a] = "live" => PhantomReachable(a)
    /\ life[a] = "collected" => a \in queue \/ (reaper.pc = "free" /\ reaper.ref = a)

\* The arenas of the group of r whose own reference upb still counts: those whose
\* object is in use or not yet in the hands of upb_Arena_Free.
Owners(r) == {x \in Arenas : root[x] = r /\ life[x] \in {"live", "collected"}}

\* upb counts for each group exactly the arenas the reaper has still to free, and
\* a group's memory is back with malloc if and only if there is none.
OwnersCounted ==
  /\ \A r \in Arenas : refcount[r] = Cardinality(Owners(r))
  /\ \A a \in Arenas : a \in released <=> life[a] # "unborn" /\ Owners(root[a]) = {}

\* What else an induction over the steps of SafetySpec needs (ArenaProofs): the
\* arenas a thread holds or has as operands are live, ...
OperandsLive ==
  /\ \A t \in Threads : \A a \in held[t] : life[a] = "live"
  /\ holder # NoArena => life[holder] = "live"
  /\ \A t \in Threads :
       \/ frame[t] = Idle
       \/ /\ frame[t].method \in {"register", "registerDefault"}
          /\ frame[t].a \in Arenas /\ frame[t].b = NoArena
          /\ life[frame[t].a] = "live"
       \/ /\ frame[t].method = "fuse"
          /\ frame[t].a \in Arenas /\ frame[t].b \in Arenas /\ frame[t].a # frame[t].b
          /\ life[frame[t].a] = "live" /\ life[frame[t].b] = "live"

\* ... what is queued or in the reaper's hands was collected, each at one place, ...
ReaperOwnsRef ==
  /\ \A a \in queue : life[a] = "collected"
  /\ reaper.pc = "free" => /\ reaper.ref \in Arenas \ queue
                           /\ life[reaper.ref] = "collected"
  /\ reaper.pc = "unregister" => reaper.ref \in Arenas /\ life[reaper.ref] = "freed"

\* ... and an arena is fused with no other before it exists.
UnbornAlone ==
  \A a \in Arenas : life[a] = "unborn" =>
    root[a] = a /\ \A x \in Arenas : root[x] = a => x = a

IInv == TypeOK /\ OperandsLive /\ ReaperOwnsRef /\ NoArenaLost /\ UnbornAlone /\ OwnersCounted

\* Every collected arena is freed, whatever the other threads do.
CollectedIsFreed ==
  \A a \in Arenas : life[a] = "collected" ~> life[a] = "freed"

\* refs does not accumulate the phantom references of freed arenas.
RefsDrained ==
  \A a \in Arenas : life[a] = "freed" ~> [](a \notin refs)

\* Arena implements ArenaLifetime: a group's memory is reclaimed as a whole,
\* after all of its arenas died and not before, and then always.
Lifetime == INSTANCE ArenaLifetime WITH
  state <- [a \in Arenas |-> IF life[a] \in {"collected", "freed"} THEN "dead" ELSE life[a]],
  mates <- [a \in Arenas |-> Group(a)],
  reclaimed <- released

ImplementsLifetime == Lifetime!Spec
ImplementsLifetimeSafety == Lifetime!SafetySpec
=============================================================================
