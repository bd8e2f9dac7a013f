--------------------------- MODULE MessageValues ---------------------------
(***************************************************************************)
(* What JUPB messages and builders are to a program that never sees a      *)
(* pointer: a message is a value, fixed when the program gets it; a        *)
(* builder holds a value of its own that only its own setters change; and  *)
(* build() gives out the value of that moment.  JupbMessageLite.tla        *)
(* implements this with shared native memory, copied on the first write.   *)
(*                                                                         *)
(* A value is a tree: a function from the paths that lead to its           *)
(* submessages, <<>> to itself, to what is at their ends: a type, scalars  *)
(* and the set of fields that are present.                                 *)
(***************************************************************************)
EXTENDS Sequences

CONSTANTS
  Builders,
  NoValue,       \* a builder variable that holds no builder
  EmptyNode(_),  \* of the default instance of a type
  SubType(_),    \* the type of a submessage field
  Types, Scalars, Subs, Values

VARIABLES
  msg,      \* msg : the messages the program has got, with their values
  pending   \* pending[b] : the value builder b would build

vars == <<msg, pending>>

EmptyValue(T) == [path \in {<<>>} |-> EmptyNode(T)]

\* The paths of v through field f, and those through fields that are not in F.
Through(v, f) == {path \in DOMAIN v : path # <<>> /\ Head(path) = f}
Beside(v, F) == {path \in DOMAIN v : path # <<>> => Head(path) \notin F}

\* v with a scalar, and with a submessage.
WithScalar(v, f, x) == [v EXCEPT ![<<>>].val[f] = x, ![<<>>].has = @ \cup {f}]

WithSub(v, f, w) ==
  [path \in Beside(v, {f}) \cup {<<f>> \o rest : rest \in DOMAIN w} |->
     IF path = <<>> THEN [v[path] EXCEPT !.has = @ \cup {f}]
     ELSE IF Head(path) = f THEN w[Tail(path)] ELSE v[path]]

\* The program gets a message, new to it or not, of value v: those it already
\* had keep their values.
Gets(v) ==
  LET before == msg
      after == msg'
  IN  /\ \A w \in DOMAIN before : w \in DOMAIN after /\ after[w] = before[w]
      /\ \E w \in DOMAIN after : /\ DOMAIN after = DOMAIN before \cup {w}
                                 /\ after[w] = v

Init ==
  /\ pending = [b \in Builders |-> NoValue]
  /\ \A T \in Types : \E w \in DOMAIN msg : msg[w] = EmptyValue(T)
  /\ \A w \in DOMAIN msg : \E T \in Types : msg[w] = EmptyValue(T)

\* newBuilder(arena)
NewBuilder(b, T) ==
  pending' = [pending EXCEPT ![b] = EmptyValue(T)]

\* toBuilder(arena)
ToBuilder(b, w) ==
  pending' = [pending EXCEPT ![b] = msg[w]]

SetScalar(b, f, v) ==
  /\ pending[b] # NoValue
  /\ pending' = [pending EXCEPT ![b] = WithScalar(@, f, v)]

\* The submessage is set by value: later writes elsewhere do not show in it.
SetMessage(b, f, w) ==
  /\ pending[b] # NoValue
  /\ pending' = [pending EXCEPT ![b] = WithSub(@, f, msg[w])]

Build(b) ==
  /\ pending[b] # NoValue
  /\ Gets(pending[b])

\* A submessage, of a message or of what a builder holds; the default instance
\* of its type when there is none.
SubmessageOf(v, f) ==
  IF Through(v, f) = {} THEN EmptyValue(SubType(f))
  ELSE [rest \in {Tail(path) : path \in Through(v, f)} |-> v[<<f>> \o rest]]

GetMessage(w, f) ==
  Gets(SubmessageOf(msg[w], f))

BuilderGetMessage(b, f) ==
  /\ pending[b] # NoValue
  /\ Gets(SubmessageOf(pending[b], f))

\* parseFrom(arena, w.toByteArray()): the fields in "decoded", equal to w's.
Restrict(v, decoded) ==
  [path \in Beside(v, Subs \ decoded) |->
     IF path = <<>>
     THEN [v[path] EXCEPT
             !.val = [f \in Scalars |-> IF f \in decoded THEN @[f] ELSE EmptyNode(v[path].type).val[f]],
             !.has = decoded]
     ELSE v[path]]

ParseFrom(w, decoded) ==
  Gets(Restrict(msg[w], decoded))

\* What gives out messages changes no builder, and the rest no message.
Next ==
  \/ /\ UNCHANGED pending
     /\ \/ \E b \in Builders : Build(b) \/ \E f \in Subs : BuilderGetMessage(b, f)
        \/ \E w \in DOMAIN msg :
             \/ \E f \in Subs : GetMessage(w, f)
             \/ \E decoded \in SUBSET msg[w][<<>>].has : ParseFrom(w, decoded)
  \/ /\ UNCHANGED msg
     /\ \E b \in Builders :
          \/ \E T \in Types : NewBuilder(b, T)
          \/ \E w \in DOMAIN msg : ToBuilder(b, w)
          \/ \E f \in Scalars, v \in Values : SetScalar(b, f, v)
          \/ \E f \in Subs, w \in DOMAIN msg : SetMessage(b, f, w)

Spec == Init /\ [][Next]_vars
=============================================================================
