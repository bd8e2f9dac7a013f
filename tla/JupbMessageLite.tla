-------------------------- MODULE JupbMessageLite --------------------------
(***************************************************************************)
(* java/runtime/main/jupb/JupbMessageLite.java and the calls it makes in   *)
(* Messages.java: Java messages that are views of messages in native       *)
(* memory, builders that copy on the first write, and submessages shared   *)
(* by pointer between messages of different arenas.                        *)
(*                                                                         *)
(* A Java message is its two fields, [ptr, arena]; its minitable is that   *)
(* of its type.  A native message, mem[p], has the arena it was allocated  *)
(* in, its type, its scalars, the fields whose hasbit is set and its       *)
(* submessage pointers.  Addresses are abstract: <<c, path>> is what       *)
(* allocation call c gave to the submessage at "path" of the message it    *)
(* made, and <<T, <<>>>> is the default instance of type T.                *)
(*                                                                         *)
(* The upb calls (upb_Message_New, upb_Message_DeepClone, upb_Decode,      *)
(* upb_Arena_Fuse) are external.  Each method is one step: a builder is    *)
(* used by one thread at a time.                                           *)
(***************************************************************************)
EXTENDS Naturals, Sequences, SequencesExt

CONSTANTS
  Types,          \* message types, as generated for a .proto file
  Scalars, Subs,  \* their scalar fields and their message fields
  TypeOf,         \* TypeOf[f] : the type that declares field f
  SubType,        \* SubType[f] : the message type of field f
  MaxDepth,       \* the deepest nesting of message fields: no type contains itself
  Values, Zero,   \* scalar values, and the one of zeroed memory
  Builders, NoBuilder,
  Arenas, DefaultArena,
  Calls,          \* identities of native calls that allocate; bounds a run
  Null

ASSUME TypesAssumption ==
  /\ TypeOf \in [Scalars \cup Subs -> Types]
  /\ SubType \in [Subs -> Types]
  /\ Scalars \cap Subs = {}
  /\ Types \cap Calls = {}
  /\ MaxDepth \in Nat

\* The sequences of message fields that can be followed one after the other.
NestedPaths ==
  {path \in BoundedSeq(Subs, MaxDepth) :
     \A i \in 1..Len(path) - 1 : TypeOf[path[i + 1]] = SubType[path[i]]}

ASSUME NestingAssumption ==
  /\ \A f \in Subs : <<f>> \in NestedPaths
  /\ \A path \in NestedPaths \ {<<>>}, f \in Subs :
       TypeOf[f] = SubType[path[Len(path)]] => Append(path, f) \in NestedPaths
ASSUME DefaultsAssumption == Zero \in Values /\ DefaultArena \in Arenas
ASSUME NullAssumption ==
  /\ NoBuilder \notin [arena : Arenas, instance : [ptr : (Types \cup Calls) \X Seq(Subs), arena : Arenas],
                       isDirty : BOOLEAN]
  /\ Null \notin (Types \cup Calls) \X Seq(Subs)

VARIABLES
  mem,        \* mem[p] : the native message at address p, for allocated p
  group,      \* group[a] = group[b] : arenas a and b are fused
  builder,    \* builder[b] : the fields of Builder b, or NoBuilder
  handed      \* the messages the program has got from the runtime

vars == <<mem, group, builder, handed>>

Ptr == (Types \cup Calls) \X Seq(Subs)
Fields == Scalars \cup Subs
Message == [ptr : Ptr, arena : Arenas]
NativeMessage == [arena : Arenas, type : Types, val : [Scalars -> Values],
                  has : SUBSET Fields, sub : [Subs -> Ptr \cup {Null}]]

Root(c) == <<c, <<>>>>
DefaultInstance(T) == [ptr |-> Root(T), arena |-> DefaultArena]
TypeOfMessage(m) == mem[m.ptr].type

----------------------------------------------------------------------------
(* The upb library (external).                                             *)

\* A message of type T without fields, allocated in arena a.
EmptyMessage(T, a) ==
  [arena |-> a, type |-> T, val |-> [f \in Scalars |-> Zero], has |-> {},
   sub |-> [f \in Subs |-> Null]]

\* The addresses in memory m that follow p along the submessage fields in path (one
\* trace, if all the pointers on the way are set), and the last of them.
Traces(m, p, path) ==
  {t \in [1..Len(path) -> DOMAIN m] :
     \A i \in 1..Len(path) : m[IF i = 1 THEN p ELSE t[i - 1]].sub[path[i]] = t[i]}

Walk(m, p, path) ==
  IF path = <<>> THEN p ELSE (CHOOSE t \in Traces(m, p, path) : TRUE)[Len(path)]

Paths(m, p) == {path \in NestedPaths : Traces(m, p, path) # {}}

\* upb_Message_DeepClone by call c: the whole tree under p, in arena a.
DeepClone(p, c, a) ==
  [q \in {<<c, path>> : path \in Paths(mem, p)} |->
     LET original == mem[Walk(mem, p, q[2])] IN
       [original EXCEPT
          !.arena = a,
          !.sub = [f \in Subs |-> IF original.sub[f] = Null THEN Null
                                  ELSE <<c, Append(q[2], f)>>]]]

\* upb_Decode by call c of the bytes of the message at p into an empty message in
\* arena a, the decoder accepting only the top-level fields in decoded: all of
\* them, or what precedes the malformed bytes.
Decoded(p, c, a, decoded) ==
  LET copy == DeepClone(p, c, a)
      tops == decoded \cap Subs
  IN  [q \in {x \in DOMAIN copy : x[2] = <<>> \/ Head(x[2]) \in tops} |->
         IF q # Root(c) THEN copy[q]
         ELSE [copy[q] EXCEPT
                 !.val = [f \in Scalars |-> IF f \in decoded THEN @[f] ELSE Zero],
                 !.has = decoded,
                 !.sub = [f \in Subs |-> IF f \in decoded THEN @[f] ELSE Null]]]

\* Memory with the newly allocated messages in new.
Allocated(new) ==
  [p \in DOMAIN mem \cup DOMAIN new |-> IF p \in DOMAIN new THEN new[p] ELSE mem[p]]

\* The identity of the next call that allocates.  Which one does not matter:
\* addresses are only compared.
Unused(c) == \A p \in DOMAIN mem : p[1] # c
CallsLeft == \E c \in Calls : Unused(c)
NextCall == CHOOSE c \in Calls : Unused(c)

Fused(a, b) == [x \in Arenas |-> IF group[x] = group[b] THEN group[a] ELSE group[x]]

----------------------------------------------------------------------------
(* Messages.                                                               *)

Init ==
  /\ mem = [p \in {Root(T) : T \in Types} |-> EmptyMessage(p[1], DefaultArena)]
  /\ group = [a \in Arenas |-> a]
  /\ builder = [b \in Builders |-> NoBuilder]
  /\ handed = {DefaultInstance(T) : T \in Types}

\* Faulty variant: a view even when the pointer is null.
Submessage_Unchecked(m, f) == [ptr |-> mem[m.ptr].sub[f], arena |-> m.arena]

\* getMessage: the default instance when the pointer is null, otherwise a view of
\* the submessage with the arena of the message it is read from, not its own.
Submessage(m, f) ==
  LET p == mem[m.ptr].sub[f] IN
    IF p = Null THEN DefaultInstance(SubType[f]) ELSE [ptr |-> p, arena |-> m.arena]

GetMessage(m, f) ==
  /\ m \in handed
  /\ TypeOf[f] = TypeOfMessage(m)
  /\ handed' = handed \cup {Submessage(m, f)}
  /\ UNCHANGED <<mem, group, builder>>

\* parseFrom(arena, m.toByteArray()): a new message, whose memory upb_Decode fills.
\* A decode error goes unreported (messages.cpp:131).  An empty message has no
\* encoding: toByteArray returns null for it.
ParseFrom(m, a, decoded) ==
  /\ m \in handed
  /\ CallsLeft
  /\ mem[m.ptr].has # {} /\ decoded \subseteq mem[m.ptr].has
  /\ mem' = Allocated(Decoded(m.ptr, NextCall, a, decoded))
  /\ handed' = handed \cup {[ptr |-> Root(NextCall), arena |-> a]}
  /\ UNCHANGED <<group, builder>>

----------------------------------------------------------------------------
(* Builders.                                                               *)

NewBuilder(b, T, a) ==
  /\ builder' = [builder EXCEPT ![b] =
       [arena |-> a, instance |-> DefaultInstance(T), isDirty |-> FALSE]]
  /\ UNCHANGED <<mem, group, handed>>

\* Faulty variant: the builder writes to the message it came from.
ToBuilder_InPlace(b, m, a) ==
  /\ m \in handed
  /\ builder' = [builder EXCEPT ![b] = [arena |-> a, instance |-> m, isDirty |-> TRUE]]
  /\ UNCHANGED <<mem, group, handed>>

ToBuilder(b, m, a) ==
  /\ m \in handed
  /\ builder' = [builder EXCEPT ![b] = [arena |-> a, instance |-> m, isDirty |-> FALSE]]
  /\ UNCHANGED <<mem, group, handed>>

\* copyOnWrite(), before a write by builder b: the instance it leaves in b, and
\* the memory, in which a clean builder's instance was cloned into b's arena.
CowInstance(b) ==
  IF builder[b].isDirty THEN builder[b].instance
                        ELSE [ptr |-> Root(NextCall), arena |-> builder[b].arena]

CowMem(b) ==
  IF builder[b].isDirty THEN mem
  ELSE Allocated(DeepClone(builder[b].instance.ptr, NextCall, builder[b].arena))

CopyOnWrite(b) ==
  /\ builder[b] # NoBuilder
  /\ builder[b].isDirty \/ CallsLeft
  /\ builder' = [builder EXCEPT ![b] =
                    [arena |-> @.arena, instance |-> CowInstance(b), isDirty |-> TRUE]]

\* Native message n with a field set and its hasbit.
WithScalar(n, f, v) == [n EXCEPT !.val[f] = v, !.has = @ \cup {f}]
WithSub(n, f, p) == [n EXCEPT !.sub[f] = p, !.has = @ \cup {f}]

\* setInt, setLong: the value, then the hasbit.
SetScalar(b, f, v) ==
  /\ CopyOnWrite(b)
  /\ TypeOf[f] = TypeOfMessage(builder[b].instance)
  /\ mem' = [CowMem(b) EXCEPT ![CowInstance(b).ptr] = WithScalar(@, f, v)]
  /\ UNCHANGED <<group, handed>>

\* Faulty variant: the arenas are not fused.
SetMessage_Unfused(b, f, m) ==
  /\ CopyOnWrite(b)
  /\ m \in handed
  /\ TypeOf[f] = TypeOfMessage(builder[b].instance)
  /\ SubType[f] = TypeOfMessage(m)
  /\ mem' = [CowMem(b) EXCEPT ![CowInstance(b).ptr] = WithSub(@, f, m.ptr)]
  /\ UNCHANGED <<group, handed>>

\* setMessage: the pointer, then the arenas are fused, then the hasbit.
SetMessage(b, f, m) ==
  /\ CopyOnWrite(b)
  /\ m \in handed
  /\ TypeOf[f] = TypeOfMessage(builder[b].instance)
  /\ SubType[f] = TypeOfMessage(m)
  /\ mem' = [CowMem(b) EXCEPT ![CowInstance(b).ptr] = WithSub(@, f, m.ptr)]
  /\ group' = Fused(builder[b].arena, m.arena)
  /\ UNCHANGED handed

\* Faulty variant: the builder goes on writing to what it has built.
Build_StillDirty(b) ==
  /\ builder[b] # NoBuilder
  /\ handed' = handed \cup {builder[b].instance}
  /\ UNCHANGED <<mem, group, builder>>

Build(b) ==
  /\ builder[b] # NoBuilder
  /\ builder' = [builder EXCEPT ![b].isDirty = FALSE]
  /\ handed' = handed \cup {builder[b].instance}
  /\ UNCHANGED <<mem, group>>

\* The generated builder getters read through to the instance.
BuilderGetMessage(b, f) ==
  /\ builder[b] # NoBuilder
  /\ TypeOf[f] = TypeOfMessage(builder[b].instance)
  /\ handed' = handed \cup {Submessage(builder[b].instance, f)}
  /\ UNCHANGED <<mem, group, builder>>

----------------------------------------------------------------------------
Next ==
  \/ \E m \in handed :
       \/ \E f \in Subs : GetMessage(m, f)
       \/ \E a \in Arenas, decoded \in SUBSET Fields : ParseFrom(m, a, decoded)
  \/ \E b \in Builders :
       \/ \E T \in Types, a \in Arenas : NewBuilder(b, T, a)
       \/ \E m \in handed, a \in Arenas : ToBuilder(b, m, a)
       \/ \E f \in Scalars, v \in Values : SetScalar(b, f, v)
       \/ \E f \in Subs, m \in handed : SetMessage(b, f, m)
       \/ \E f \in Subs : BuilderGetMessage(b, f)
       \/ Build(b)

Spec == Init /\ [][Next]_vars

----------------------------------------------------------------------------
(* Properties.                                                             *)

HasBuilder(b) == builder[b] # NoBuilder
DirtyPtr(b) == builder[b].instance.ptr
Dirty(b) == HasBuilder(b) /\ builder[b].isDirty

\* A memory in which every submessage pointer is null or the address of a message
\* of the type the field has.
WellTyped(m) ==
  /\ DOMAIN m \subseteq Ptr
  /\ m \in [DOMAIN m -> NativeMessage]
  /\ \A p \in DOMAIN m, f \in Subs :
       m[p].sub[f] # Null => /\ m[p].type = TypeOf[f]
                             /\ m[p].sub[f] \in DOMAIN m
                             /\ m[m[p].sub[f]].type = SubType[f]

\* Types; no message that the program or a builder has is at a stale address.
TypeOK ==
  /\ WellTyped(mem)
  /\ group \in [Arenas -> Arenas]
  /\ builder \in [Builders -> [arena : Arenas, instance : Message, isDirty : BOOLEAN]
                                \cup {NoBuilder}]
  /\ handed \subseteq Message
  /\ \A m \in handed : m.ptr \in DOMAIN mem
  /\ \A b \in Builders : HasBuilder(b) => DirtyPtr(b) \in DOMAIN mem

\* Submessages are in arenas fused with the one of the message that has them.
SubmessagesFused(m, g) ==
  \A p \in DOMAIN m, f \in Subs :
    m[p].sub[f] # Null => g[m[p].arena] = g[m[m[p].sub[f]].arena]

\* What the comment in getMessage says (JupbMessageLite.java:189): a view may
\* carry another arena than the one its memory is in, because the two are fused;
\* so holding the view keeps all the memory it reaches.
ViewArenasFused ==
  /\ SubmessagesFused(mem, group)
  /\ \A m \in handed : group[m.arena] = group[mem[m.ptr].arena]
  /\ \A b \in Builders : HasBuilder(b) =>
       group[builder[b].instance.arena] = group[mem[DirtyPtr(b)].arena]

\* What a builder writes to is its own: no message the program has, no
\* submessage pointer and no other builder refers to it.
DirtyInstanceIsPrivate ==
  \A b \in Builders : Dirty(b) =>
    /\ \A m \in handed : m.ptr # DirtyPtr(b)
    /\ \A p \in DOMAIN mem, f \in Subs : mem[p].sub[f] # DirtyPtr(b)
    /\ \A d \in Builders \ {b} : HasBuilder(d) => DirtyPtr(d) # DirtyPtr(b)

\* What else an induction over the steps of Spec needs (JupbMessageLiteProofs):
\* default instances are never lost, and copyOnWrite left a dirty builder with an
\* instance in its own arena.
BuildersConsistent ==
  /\ \A T \in Types : DefaultInstance(T) \in handed
  /\ \A b \in Builders : Dirty(b) => builder[b].instance.arena = builder[b].arena

IInv == TypeOK /\ ViewArenasFused /\ DirtyInstanceIsPrivate /\ BuildersConsistent

\* The addresses a program can read from the messages it has: the least set that
\* holds theirs and is closed under submessages.
Closed(S) == \A p \in S, f \in Subs : mem[p].sub[f] \in S \cup {Null}
Readable == {p \in DOMAIN mem :
               \A S \in SUBSET DOMAIN mem :
                 (\A m \in handed : m.ptr \in S) /\ Closed(S) => p \in S}

\* Messages are immutable: no call on any builder changes what a program can read
\* from a message it already has (TinyProtoTest.java:62,96: "changes to
\* babyStepsBuilder .. are not reflected in babySteps1").
MessagesFrozen == [][\A p \in DOMAIN mem : mem'[p] # mem[p] => p \notin Readable]_vars
=============================================================================
