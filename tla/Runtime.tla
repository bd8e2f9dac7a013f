------------------------------ MODULE Runtime ------------------------------
(***************************************************************************)
(* Messages, builders and arenas together, under threads and the garbage   *)
(* collector: the calls of JupbMessageLite.java and Messages.java taken    *)
(* apart at every access to native memory, where Arena.tla has no messages *)
(* and JupbMessageLite.tla takes each call as one step.                    *)
(*                                                                         *)
(* A call reads the pointers it needs from Java objects, then uses native  *)
(* memory; the two are the step that sets the frame and the step that its  *)
(* "pc" names.  What a thread does to its own Java objects in between is   *)
(* seen by nobody else and is part of one of the two.                      *)
(*                                                                         *)
(* Types are levels: a message of level n > 0 has one submessage field, of *)
(* level n - 1.  An address is <<t, k, n>>, the message of level n that    *)
(* the k-th allocating call of thread t made, or <<"default", 0, n>>.      *)
(* Scalars have no values here: only who accesses which memory, and when.  *)
(*                                                                         *)
(* The generated class of a level is initialised when a thread first calls *)
(* one of its static methods: one thread at a time, after the class that   *)
(* it links, and with two allocations in the default arena that all        *)
(* classes share.  What classes that link each other do is in ClassInit.   *)
(*                                                                         *)
(* The program the model assumes shares messages between its threads and   *)
(* keeps each builder, and each arena it passes to a call, to one thread.  *)
(* FrameRoots is as in Arena.tla.                                          *)
(***************************************************************************)
EXTENDS Naturals, FiniteSets

CONSTANTS
  Threads,
  Arenas, DefaultArena,
  Depth,          \* the highest level
  MaxCalls,       \* allocating calls of a thread; bounds a run
  FrameRoots,
  None            \* the null reference, and the null pointer

ASSUME RuntimeAssumption ==
  /\ DefaultArena \in Arenas /\ None \notin Arenas \cup Threads
  /\ Depth \in Nat /\ MaxCalls \in Nat
  /\ FrameRoots \in BOOLEAN

VARIABLES
  mem,       \* mem[p] : the arena and the submessage pointer of the message at p
  group,     \* group[a] = group[b] : upb arenas a and b are fused
  life,      \* life[a] : "unborn", "live", or "freed" after its object was collected
  released,  \* the upb arenas whose memory went back to malloc
  local,     \* local[t] : the variables of thread t: an arena, a message, a builder
  frame,     \* frame[t] : the call that t is in
  calls,     \* calls[t] : the allocating calls t has made
  initializer  \* initializer[n] : the thread that initialises the class of level n

vars == <<mem, group, life, released, local, frame, calls, initializer>>

Level == 0..Depth
DefaultAddress(n) == <<"default", 0, n>>
Address == {DefaultAddress(n) : n \in Level} \cup (Threads \X (1..MaxCalls) \X Level)
Message == [ptr : Address, arena : Arenas]
Builder == [arena : Arenas, instance : Message, isDirty : BOOLEAN]
DefaultInstance(n) == [ptr |-> DefaultAddress(n), arena |-> DefaultArena]

ASSUME NoneAssumption == None \notin Address /\ None \notin Message /\ None \notin Builder

LevelOf(m) == m.ptr[3]

\* The class of level n is initialised: other threads may go on to its methods.
Initialized(n) == DefaultAddress(n) \in DOMAIN mem

\* pc : the native access the call is about to make; ptr, in : the message it
\* accesses and the arena it allocates in or fuses; value : the submessage that is
\* set; operands : the arenas of "this" and of the parameters.
Idle == [pc |-> "idle", ptr |-> None, in |-> None, value |-> None, operands |-> {}]

Enter(t, f) == frame' = [frame EXCEPT ![t] = f]
Return(t) == Enter(t, Idle)

----------------------------------------------------------------------------
(* The upb library (external).                                             *)

\* The message at p and all those under it: the least set with p that is closed
\* under submessages.
Closed(S) == \A p \in S : mem[p].sub \in S \cup {None}
Tree(p) == {q \in DOMAIN mem : \A S \in SUBSET DOMAIN mem : p \in S /\ Closed(S) => q \in S}

\* The addresses of one call, down from p to level "last".
Chain(p, last) == {<<p[1], p[2], n>> : n \in last..p[3]}

\* Messages for all of them in arena a, each the submessage of the one above.
Allocate(p, last, a) ==
  [q \in DOMAIN mem \cup Chain(p, last) |->
     IF q \notin Chain(p, last) THEN mem[q]
     ELSE [arena |-> a, sub |-> IF q[3] = last THEN None ELSE <<q[1], q[2], q[3] - 1>>]]

\* The lowest level under p.
Lowest(p, n) == \E q \in Tree(p) : q[3] = n /\ mem[q].sub = None

Group(a) == {b \in Arenas : group[b] = group[a]}

upb_Arena_Fuse(a, b) ==
  group' = [x \in Arenas |-> IF group[x] = group[b] THEN group[a] ELSE group[x]]

NextAddress(t, n) == <<t, calls[t] + 1, n>>
CallsLeft(t) == calls[t] < MaxCalls
CountCall(t) == calls' = [calls EXCEPT ![t] = @ + 1]

----------------------------------------------------------------------------
(* Arenas, messages and builders that a thread makes or drops.             *)

Init ==
  /\ mem = [p \in {} |-> None]
  /\ group = [a \in Arenas |-> a]
  /\ life = [a \in Arenas |-> IF a = DefaultArena THEN "live" ELSE "unborn"]
  /\ released = {}
  /\ local = [t \in Threads |-> [arena |-> None, message |-> None, builder |-> None]]
  /\ frame = [t \in Threads |-> Idle]
  /\ calls = [t \in Threads |-> 0]
  /\ initializer = [n \in Level |-> None]

NewArena(t, a) ==
  /\ frame[t] = Idle
  /\ life[a] = "unborn"
  /\ life' = [life EXCEPT ![a] = "live"]
  /\ local' = [local EXCEPT ![t].arena = a]
  /\ UNCHANGED <<mem, group, released, frame, calls, initializer>>

GetDefaultInstance(t, n) ==
  /\ frame[t] = Idle
  /\ Initialized(n)
  /\ local' = [local EXCEPT ![t].message = DefaultInstance(n)]
  /\ UNCHANGED <<mem, group, life, released, frame, calls, initializer>>

StartBuilder(t, m) ==
  /\ frame[t] = Idle
  /\ local[t].arena # None
  /\ local' = [local EXCEPT ![t].builder =
                 [arena |-> local[t].arena, instance |-> m, isDirty |-> FALSE]]
  /\ UNCHANGED <<mem, group, life, released, frame, calls, initializer>>

NewBuilder(t, n) == Initialized(n) /\ StartBuilder(t, DefaultInstance(n))
ToBuilder(t) == local[t].message # None /\ StartBuilder(t, local[t].message)

\* Faulty variant: the builder goes on writing to what it has built.
Build_StillDirty(t) ==
  /\ frame[t] = Idle
  /\ local[t].builder # None
  /\ local' = [local EXCEPT ![t].message = local[t].builder.instance]
  /\ UNCHANGED <<mem, group, life, released, frame, calls, initializer>>

Build(t) ==
  /\ frame[t] = Idle
  /\ local[t].builder # None
  /\ local' = [local EXCEPT ![t].message = local[t].builder.instance,
                            ![t].builder.isDirty = FALSE]
  /\ UNCHANGED <<mem, group, life, released, frame, calls, initializer>>

\* The program: thread t lets u have its message.
Pass(t, u) ==
  /\ frame[t] = Idle /\ frame[u] = Idle
  /\ local[t].message # None
  /\ local' = [local EXCEPT ![u].message = local[t].message]
  /\ UNCHANGED <<mem, group, life, released, frame, calls, initializer>>

\* It has no more use for one of its variables: from the last access of a call on,
\* or, where the call keeps its operands, from its return.
LastAccess == {"get", "encode", "hasbit"}
MayDrop(t) == frame[t] = Idle \/ (~FrameRoots /\ frame[t].pc \in LastAccess)

DropMessage(t) ==
  /\ MayDrop(t)
  /\ local' = [local EXCEPT ![t].message = None]
  /\ UNCHANGED <<mem, group, life, released, frame, calls, initializer>>

DropArena(t) ==
  /\ MayDrop(t)
  /\ local' = [local EXCEPT ![t].arena = None, ![t].builder = None]
  /\ UNCHANGED <<mem, group, life, released, frame, calls, initializer>>

----------------------------------------------------------------------------
(* The static initialiser of a generated class: DEFAULT_INSTANCE is made in *)
(* the default arena, after the class whose default instance it links.     *)

LoadFrame(pc, n) ==
  [pc |-> pc, ptr |-> DefaultAddress(n), in |-> DefaultArena, value |-> None,
   operands |-> {DefaultArena}]

\* Thread t is the one to initialise the class of level n.
Begin(t, n) ==
  /\ ~Initialized(n) /\ initializer[n] = None
  /\ initializer' = [initializer EXCEPT ![n] = t]
  /\ Enter(t, LoadFrame("link", n))
  /\ UNCHANGED <<mem, group, life, released, local, calls>>

\* It is about to call a static method of the class.
InitializeClass(t, n) == frame[t] = Idle /\ Begin(t, n)

\* The arguments of the constructor call getDefaultInstance() of the linked class.
InitializeLinked(t) ==
  /\ frame[t].pc = "link"
  /\ frame[t].ptr[3] > 0
  /\ Begin(t, frame[t].ptr[3] - 1)

\* There is none, or another thread has initialised it, maybe after a wait.
LinkedInitialized(t) ==
  /\ frame[t].pc = "link"
  /\ frame[t].ptr[3] > 0 => Initialized(frame[t].ptr[3] - 1)
  /\ Enter(t, LoadFrame("table", frame[t].ptr[3]))
  /\ UNCHANGED <<mem, group, life, released, local, calls, initializer>>

\* new Minitable(...)
BuildClassMinitable(t) ==
  /\ frame[t].pc = "table"
  /\ Enter(t, LoadFrame("default", frame[t].ptr[3]))
  /\ UNCHANGED <<mem, group, life, released, local, calls, initializer>>

\* Messages.createMessage; the constructor that was waiting for this class goes on.
CreateDefaultInstance(t) ==
  /\ frame[t].pc = "default"
  /\ LET n == frame[t].ptr[3] IN
       /\ mem' = Allocate(DefaultAddress(n), n, DefaultArena)
       /\ initializer' = [initializer EXCEPT ![n] = None]
       /\ Enter(t, IF n + 1 \in Level /\ initializer[n + 1] = t THEN LoadFrame("table", n + 1)
                                                              ELSE Idle)
  /\ UNCHANGED <<group, life, released, local, calls>>

----------------------------------------------------------------------------
(* The setters of Builder: copyOnWrite, the value, the arenas, the hasbit. *)

\* Faulty variant: the arena to allocate in is that of what is copied.
WriteFrame_Alongside(b, value) ==
  [pc |-> IF value = None THEN "hasbit" ELSE "store",
   ptr |-> b.instance.ptr, in |-> b.instance.arena, value |-> value,
   operands |-> {b.arena, b.instance.arena}
                  \cup IF value = None THEN {} ELSE {value.arena}]

\* The write that follows copyOnWrite, to builder b's instance.  A scalar and its
\* hasbit are two writes to one message, taken as one.
WriteFrame(b, value) ==
  [pc |-> IF value = None THEN "hasbit" ELSE "store",
   ptr |-> b.instance.ptr, in |-> b.arena, value |-> value,
   operands |-> {b.arena, b.instance.arena}
                  \cup IF value = None THEN {} ELSE {value.arena}]

\* setInt and setLong (value None) or setMessage is called; isDirty is set before
\* the copy is made.
Set(t, value) ==
  /\ frame[t] = Idle
  /\ local[t].builder # None
  /\ value # None => LevelOf(value) + 1 = LevelOf(local[t].builder.instance)
  /\ local[t].builder.isDirty \/ CallsLeft(t)
  /\ local' = [local EXCEPT ![t].builder.isDirty = TRUE]
  /\ LET f == WriteFrame(local[t].builder, value) IN
       Enter(t, IF local[t].builder.isDirty THEN f ELSE [f EXCEPT !.pc = "clone"])
  /\ UNCHANGED <<mem, group, life, released, calls, initializer>>

\* The instance of which copyOnWrite makes a copy, and the copy.
Copied(t) == NextAddress(t, frame[t].ptr[3])

DeepClone(t) ==
  /\ frame[t].pc = "clone"
  /\ LET b == local[t].builder
         b2 == [b EXCEPT !.instance = [ptr |-> Copied(t), arena |-> b.arena]]
     IN  /\ \E last \in Level : /\ Lowest(frame[t].ptr, last)
                                 /\ mem' = Allocate(Copied(t), last, frame[t].in)
         /\ local' = [local EXCEPT ![t].builder = b2]
         /\ Enter(t, WriteFrame(b2, frame[t].value))
  /\ CountCall(t)
  /\ UNCHANGED <<group, life, released, initializer>>

\* Faulty variant: no fuse.
StoreMessage_Unfused(t) ==
  /\ frame[t].pc = "store"
  /\ mem' = [mem EXCEPT ![frame[t].ptr].sub = frame[t].value.ptr]
  /\ Enter(t, [frame[t] EXCEPT !.pc = "hasbit"])
  /\ UNCHANGED <<group, life, released, local, calls, initializer>>

\* The pointer; then fuse, unless the arenas are the same object.
StoreMessage(t) ==
  /\ frame[t].pc = "store"
  /\ mem' = [mem EXCEPT ![frame[t].ptr].sub = frame[t].value.ptr]
  /\ Enter(t, [frame[t] EXCEPT !.pc =
                 IF frame[t].in = frame[t].value.arena THEN "hasbit" ELSE "fuse"])
  /\ UNCHANGED <<group, life, released, local, calls, initializer>>

Fuse(t) ==
  /\ frame[t].pc = "fuse"
  /\ upb_Arena_Fuse(frame[t].in, frame[t].value.arena)
  /\ Enter(t, [frame[t] EXCEPT !.pc = "hasbit"])
  /\ UNCHANGED <<mem, life, released, local, calls, initializer>>

SetHasBit(t) ==
  /\ frame[t].pc = "hasbit"
  /\ Return(t)
  /\ UNCHANGED <<mem, group, life, released, local, calls, initializer>>

----------------------------------------------------------------------------
(* Getters, toByteArray and parseFrom.                                     *)

\* The messages whose getters thread t can call; a builder's read its instance.
Readable(t) ==
  {m \in {local[t].message} \cup IF local[t].builder = None THEN {} ELSE {local[t].builder.instance} :
     m # None}

\* A message m is used by a call that will make access pc.
Use(t, m, pc) ==
  /\ frame[t] = Idle
  /\ m \in Readable(t)
  /\ Enter(t, [pc |-> pc, ptr |-> m.ptr, in |-> m.arena, value |-> None,
               operands |-> {m.arena}])
  /\ UNCHANGED <<mem, group, life, released, local, calls, initializer>>

\* getInt, getLong, getHasBit or getMessage, which differ in what they return.
Get(t, m) == Use(t, m, "get")

GetReturns(t) ==
  /\ frame[t].pc = "get"
  /\ Return(t)
  /\ UNCHANGED <<mem, group, life, released, local, calls, initializer>>

\* getMessage has read the pointer, and makes a view with the arena of "this".
GetMessageReturns(t) ==
  /\ frame[t].pc = "get"
  /\ frame[t].ptr[3] > 0
  /\ LET p == mem[frame[t].ptr].sub
     IN  local' = [local EXCEPT ![t].message =
           IF p = None THEN DefaultInstance(frame[t].ptr[3] - 1)
                       ELSE [ptr |-> p, arena |-> frame[t].in]]
  /\ Return(t)
  /\ UNCHANGED <<mem, group, life, released, calls, initializer>>

\* toByteArray: the encoding is allocated in the message's arena.
ToByteArray(t, m) == Use(t, m, "encode")

EncodeReturns(t) ==
  /\ frame[t].pc = "encode"
  /\ Return(t)
  /\ UNCHANGED <<mem, group, life, released, local, calls, initializer>>

\* parseFrom(arena, buf): the constructor builds a minitable in the default arena;
\* then a message is made in the arena given and the bytes are decoded into it, two
\* calls in one arena on memory that nobody else has an address of, taken as one.
ParseFrom(t, n) ==
  /\ frame[t] = Idle
  /\ Initialized(n)
  /\ CallsLeft(t)
  /\ local[t].arena # None
  /\ Enter(t, [pc |-> "build", ptr |-> NextAddress(t, n), in |-> local[t].arena,
               value |-> None, operands |-> {local[t].arena}])
  /\ UNCHANGED <<mem, group, life, released, local, calls, initializer>>

BuildMinitable(t) ==
  /\ frame[t].pc = "build"
  /\ Enter(t, [frame[t] EXCEPT !.pc = "decode"])
  /\ UNCHANGED <<mem, group, life, released, local, calls, initializer>>

\* The bytes hold submessages down to level "last".
Decode(t, last) ==
  /\ frame[t].pc = "decode"
  /\ last <= frame[t].ptr[3]
  /\ mem' = Allocate(frame[t].ptr, last, frame[t].in)
  /\ CountCall(t)
  /\ local' = [local EXCEPT ![t].message = [ptr |-> frame[t].ptr, arena |-> frame[t].in]]
  /\ Return(t)
  /\ UNCHANGED <<group, life, released, initializer>>

----------------------------------------------------------------------------
(* The collector and the reaper.                                           *)

ArenasOf(m) == IF m = None THEN {} ELSE {m.arena}

LocalRefs(t) ==
  ({local[t].arena} \ {None}) \cup ArenasOf(local[t].message)
    \cup ArenasOf(local[t].builder)
    \cup IF local[t].builder = None THEN {} ELSE {local[t].builder.instance.arena}

\* What the frame of a call keeps: what the rest of the call still reads, and
\* until it returns, if FrameRoots, "this" and the parameters.
FrameRefs(t) ==
  IF FrameRoots \/ frame[t].pc \notin LastAccess \cup {"fuse"} THEN frame[t].operands ELSE {}

Reachable == {DefaultArena} \cup UNION {LocalRefs(t) \cup FrameRefs(t) : t \in Threads}

\* The object of arena a is collected, and some time later the reaper frees its upb
\* arena: nothing can tell when in between.  A group's memory goes with its last
\* arena.
Reclaim(a) ==
  /\ life[a] = "live"
  /\ a \notin Reachable
  /\ life' = [life EXCEPT ![a] = "freed"]
  /\ released' = IF \A b \in Group(a) : life'[b] = "freed" THEN released \cup Group(a)
                                                           ELSE released
  /\ UNCHANGED <<mem, group, local, frame, calls, initializer>>

----------------------------------------------------------------------------
Next ==
  \/ \E t \in Threads :
       \/ \E a \in Arenas : NewArena(t, a)
       \/ \E n \in Level : InitializeClass(t, n)
       \/ InitializeLinked(t) \/ LinkedInitialized(t)
       \/ BuildClassMinitable(t) \/ CreateDefaultInstance(t)
       \/ \E n \in Level : GetDefaultInstance(t, n) \/ NewBuilder(t, n) \/ ParseFrom(t, n)
       \/ ToBuilder(t)
       \/ Build(t)
       \/ \E u \in Threads \ {t} : Pass(t, u)
       \/ DropMessage(t) \/ DropArena(t)
       \/ Set(t, None)
       \/ local[t].message # None /\ Set(t, local[t].message)
       \/ DeepClone(t) \/ StoreMessage(t) \/ Fuse(t) \/ SetHasBit(t)
       \/ \E m \in Readable(t) : Get(t, m)
       \/ local[t].message # None /\ ToByteArray(t, local[t].message)
       \/ GetReturns(t) \/ GetMessageReturns(t)
       \/ EncodeReturns(t)
       \/ BuildMinitable(t)
       \/ \E last \in Level : Decode(t, last)
  \/ \E a \in Arenas : Reclaim(a)

Spec == Init /\ [][Next]_vars

----------------------------------------------------------------------------
(* Properties.                                                             *)

MaybeMessage == Message \cup {None}

TypeOK ==
  /\ DOMAIN mem \subseteq Address
  /\ \A p \in DOMAIN mem :
       /\ mem[p].arena \in Arenas
       /\ mem[p].sub # None => mem[p].sub \in DOMAIN mem /\ mem[p].sub[3] + 1 = p[3]
  /\ group \in [Arenas -> Arenas]
  /\ life \in [Arenas -> {"unborn", "live", "freed"}]
  /\ released \subseteq Arenas
  /\ local \in [Threads -> [arena : Arenas \cup {None}, message : MaybeMessage,
                            builder : Builder \cup {None}]]
  /\ \A t \in Threads : \A m \in Readable(t) : m.ptr \in DOMAIN mem
  /\ calls \in [Threads -> 0..MaxCalls]
  /\ initializer \in [Level -> Threads \cup {None}]

\* What the access that thread t is about to make reads and writes, and the arenas
\* it allocates in or fuses.
Reads(t) ==
  CASE frame[t].pc \in {"clone", "encode"} -> Tree(frame[t].ptr)
    [] frame[t].pc = "get" -> {frame[t].ptr}
    [] OTHER -> {}
Writes(t) ==
  IF frame[t].pc \in {"store", "hasbit"} THEN {frame[t].ptr} ELSE {}
Constructing == {"build", "table", "default"}
AllocatesIn(t) ==
  CASE frame[t].pc \in {"clone", "decode", "encode"} -> {frame[t].in}
    [] frame[t].pc \in Constructing -> {DefaultArena}
    [] OTHER -> {}
Fuses(t) == IF frame[t].pc = "fuse" THEN {frame[t].in, frame[t].value.arena} ELSE {}

ArenasUsed(t) ==
  {mem[p].arena : p \in Reads(t) \cup Writes(t)} \cup AllocatesIn(t) \cup Fuses(t)

\* No access is to memory that was given back, though its address was read from a
\* Java object earlier and that object may be garbage since.
AccessesAlive == \A t \in Threads : released \cap ArenasUsed(t) = {}

\* Nor will a later one be: whatever a thread can reach through its messages, its
\* builder and the call it is in is kept, also between the store of a submessage
\* pointer and the fuse that follows it, and when the submessage, its own
\* submessages and the message that reads them come from different arenas
\* (JupbMessageLite.java:189-191).
ReachedMessages(t) == Readable(t) \cup ({frame[t].value} \ {None})

ReadableKept ==
  /\ \A t \in Threads : \A m \in ReachedMessages(t) : mem[m.ptr].arena \notin released
  /\ \A p \in DOMAIN mem :
       mem[p].sub # None /\ mem[mem[p].sub].arena \in released => mem[p].arena \in released

\* Threads that share messages need not synchronise for the native memory's sake:
\* none writes to a message there while another reads or writes it.  The fields of the
\* Java objects, which are not final, are outside of this: how a thread lets another
\* see a message safely is the program's affair.
NoDataRace ==
  \A t, u \in Threads : t # u => Writes(t) \cap (Reads(u) \cup Writes(u)) = {}

\* upb arenas do not synchronise allocation, and the code has no lock of its own.  In a
\* program that shares only messages, no call allocates in the arena of another
\* thread's call, whatever it reads or copies, and copy on write never allocates in the
\* default arena, whose instances it copies.  There are three ways left to allocate in
\* one arena at a time: in the default arena, the constructors of two threads, which
\* initialise different classes or parse (Minitable.java:18-22, of DEFAULT_INSTANCE in
\* message_template.inja:11 or of every parseFrom); in any arena, a thread that
\* serialises, which reads as it seems, a message from it (messages.cpp:148) and
\* another that uses the arena or serialises too.
AllocationExclusive ==
  \A t, u \in Threads : \A a \in AllocatesIn(t) \cap AllocatesIn(u) :
    t # u =>
      \/ a = DefaultArena /\ {frame[t].pc, frame[u].pc} \subseteq Constructing
      \/ "encode" \in {frame[t].pc, frame[u].pc}
=============================================================================
