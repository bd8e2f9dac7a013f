------------------------------ MODULE Codegen ------------------------------
(***************************************************************************)
(* java/codegen: protoc-gen-jupb.cc with helpers.cc and the templates, and *)
(* what the class it generates for a message does when it is loaded: the   *)
(* constructors of JupbMessageLite.java and Minitable.java, and            *)
(* jni/minitable.cpp.                                                      *)
(*                                                                         *)
(* One behaviour is the life of one message of a .proto file: "declared" is*)
(* its descriptor, a sequence of fields in the order in which the file     *)
(* declares them; processMessage makes it a Java class; javac accepts or   *)
(* rejects the class; and the class, once loaded, builds its minitable from*)
(* the mini descriptor and links the types of its submessages into it.     *)
(*                                                                         *)
(* External: protoc's descriptors; javac; and upb's minitables, whose      *)
(* fields are kept by number.  Names, packages and the layout of the text  *)
(* are left out, as are the values of defaults that are not integers.      *)
(***************************************************************************)
EXTENDS Integers, Sequences, FiniteSets

CONSTANTS
  FieldTypes,       \* the descriptor types that fields are declared with
  MessageTypes,     \* the message types that fields are declared with
  MaxFields,        \* bounds a run
  MaxNumber,        \* bounds a run: the largest field number
  NumbersAscend,    \* TRUE: only files that declare fields by ascending number
  MaxLinks,         \* the most submessages that a constructor takes
  IntHalf, LongHalf,   \* of the values of a Java int and long: 2^31 and 2^63
  NoDefault,        \* the "default" entry is missing
  Unlinked          \* upb: a submessage entry that was not set

ASSUME WidthAssumption == IntHalf \in Nat \ {0} /\ LongHalf \in Nat \ {0}
ASSUME BoundsAssumption == MaxFields \in Nat /\ MaxNumber \in Nat /\ MaxLinks \in Nat
ASSUME NumbersAscendAssumption == NumbersAscend \in BOOLEAN
ASSUME NoTypeAssumption == Unlinked \notin MessageTypes
ASSUME NoDefaultAssumption == NoDefault \notin Int

VARIABLES
  declared,    \* the message's descriptor
  class,       \* the generated class: the accessors of its fields, and its links
  phase,
  minitable,   \* upb: by index, the type of each field and its submessage type
  pending      \* the links the constructor has not yet made

vars == <<declared, class, phase, minitable, pending>>

----------------------------------------------------------------------------
(* Descriptors (external).                                                 *)

IsSubMessage(f) == f.type \in {"MESSAGE", "GROUP"}
IsString(f) == f.type \in {"STRING", "BYTES"}
IsPrimitive(f) == ~IsSubMessage(f) /\ ~IsString(f)
IsUnsigned(f) == f.type \in {"UINT32", "FIXED32", "UINT64", "FIXED64"}

GetJavaType(f) ==
  CASE f.type \in {"INT32", "UINT32", "SINT32", "FIXED32", "SFIXED32"} -> "INT"
    [] f.type \in {"INT64", "UINT64", "SINT64", "FIXED64", "SFIXED64"} -> "LONG"
    [] IsSubMessage(f) -> "MESSAGE"
    [] OTHER -> f.type

Half(f) == IF GetJavaType(f) = "INT" THEN IntHalf ELSE LongHalf
SignedRange(half) == -half .. half - 1
UnsignedRange(half) == 0 .. 2 * half - 1

\* Default values: integers, or for the other types 0 for the one that is Java's
\* default too and 1 for any other.
Defaults(type) ==
  LET f == [type |-> type] IN
    CASE GetJavaType(f) \in {"INT", "LONG"} ->
           IF IsUnsigned(f) THEN UnsignedRange(Half(f)) ELSE SignedRange(Half(f))
      [] IsSubMessage(f) -> {0}
      [] OTHER -> {0, 1}

\* FieldDescriptors as protoc allows them: repeated fields have no presence and no default,
\* nor has a field with implicit presence a default; submessages have presence.
FieldDescriptors ==
  {f \in [number : 1..MaxNumber, type : FieldTypes, repeated : BOOLEAN, presence : BOOLEAN,
          default : UNION {Defaults(t) : t \in FieldTypes}, target : MessageTypes \cup {Unlinked}] :
     /\ f.default \in Defaults(f.type)
     /\ f.target = Unlinked <=> ~IsSubMessage(f)
     /\ f.repeated => ~f.presence
     /\ ~f.presence => f.default = 0
     /\ IsSubMessage(f) /\ ~f.repeated => f.presence}

\* The file may declare field f after those of m.
Declarable(m, f) ==
  /\ Len(m) < MaxFields
  /\ \A i \in DOMAIN m : IF NumbersAscend THEN m[i].number < f.number
                                           ELSE m[i].number # f.number

\* The index in a minitable of the field declared i-th: upb orders fields by number.
IndexInMinitable(m, i) == Cardinality({j \in DOMAIN m : m[j].number < m[i].number})

----------------------------------------------------------------------------
(* The generator.                                                          *)

PrimitiveGetter(javaType) ==
  CASE javaType = "INT" -> "getInt"
    [] javaType = "LONG" -> "getLong"
    [] javaType = "ENUM" -> ""
    [] OTHER -> "a getter that Messages.java does not have"

PrimitiveSetter(javaType) ==
  CASE javaType = "INT" -> "setInt"
    [] javaType = "LONG" -> "setLong"
    [] javaType = "ENUM" -> ""
    [] OTHER -> "a setter that Builder does not have"

\* static_cast to the signed integer of the same width.
Signed(n, half) == IF n >= half THEN n - 2 * half ELSE n

\* Faulty variant: every unsigned default is cast to the width of an int.
DefaultValue_CastToInt(f) ==
  CASE IsUnsigned(f) -> Signed(f.default % (2 * IntHalf), IntHalf)
    [] IsSubMessage(f) -> f.target
    [] OTHER -> f.default

\* The literal printed for a default: unsigned ones as signed ones, since Java has
\* no unsigned types; a message's is its default instance.
DefaultValue(f) ==
  CASE IsUnsigned(f) -> Signed(f.default, Half(f))
    [] IsSubMessage(f) -> f.target
    [] OTHER -> f.default

IsDefaultValueJavaDefault(f) == IsPrimitive(f) /\ f.default = 0

\* "offset" stands for the offsets and the hasbit of one field of the minitable, on
\* both platforms; "unset" fields get no accessors.
processField(m, i) ==
  LET f == m[i]
      unset == [kind |-> "unset", type |-> "undefined_yet", getter |-> "", setter |-> "",
                has_presence |-> f.presence, offset |-> IndexInMinitable(m, i),
                default |-> IF IsDefaultValueJavaDefault(f) THEN NoDefault ELSE DefaultValue(f)]
  IN  CASE f.repeated \/ IsString(f) -> unset
        [] IsPrimitive(f) /\ ~f.repeated ->
             [unset EXCEPT !.kind = "singular_primitive", !.type = GetJavaType(f),
                           !.getter = PrimitiveGetter(GetJavaType(f)),
                           !.setter = PrimitiveSetter(GetJavaType(f))]
        [] IsSubMessage(f) /\ ~f.repeated ->
             [unset EXCEPT !.kind = "singular_message", !.type = f.target,
                           !.getter = "getMessage", !.setter = "setMessage"]

\* Faulty variant: the index counts only the submessages.
collectSubmessagesForMinitable_Counted(m) ==
  LET isLinked == {i \in DOMAIN m : m[i].type = "MESSAGE"} IN
    [k \in 0..Cardinality(isLinked) - 1 |->
       m[CHOOSE i \in isLinked : Cardinality({j \in isLinked : j < i}) = k].target]

\* The links by index: of a field in the file, not in the minitable.  Groups have
\* accessors but no link.
collectSubmessagesForMinitable(m) ==
  [k \in {i - 1 : i \in {j \in DOMAIN m : m[j].type = "MESSAGE"}} |-> m[k + 1].target]

processMessage(m) ==
  [fields |-> [i \in DOMAIN m |-> processField(m, i)],
   links  |-> collectSubmessagesForMinitable(m)]

----------------------------------------------------------------------------
(* javac (external) on the generated accessors and constructor call.       *)

Literal(f) == IF f.default = NoDefault THEN 0 ELSE f.default

\* The getter of a primitive field without presence has no return statement; one
\* of a type other than INT and LONG calls a method that is not there.
AccessorCompiles(f) ==
  f.kind = "singular_primitive" =>
    /\ f.has_presence
    /\ f.getter \in {"getInt", "getLong"} /\ f.setter \in {"setInt", "setLong"}
    /\ Literal(f) \in SignedRange(IF f.type = "INT" THEN IntHalf ELSE LongHalf)

Compiles(c) ==
  /\ Cardinality(DOMAIN c.links) <= MaxLinks
  /\ \A i \in DOMAIN c.fields : AccessorCompiles(c.fields[i])

----------------------------------------------------------------------------
NoClass == [fields |-> <<>>, links |-> <<>>]

Init ==
  /\ declared = <<>>
  /\ class = NoClass
  /\ phase = "declared"
  /\ minitable = <<>>
  /\ pending = {}

\* protoc reads the file (external).
Declare(f) ==
  /\ phase = "declared"
  /\ Declarable(declared, f)
  /\ declared' = Append(declared, f)
  /\ UNCHANGED <<class, phase, minitable, pending>>

GenerateFile ==
  /\ phase = "declared"
  /\ class' = processMessage(declared)
  /\ phase' = "generated"
  /\ UNCHANGED <<declared, minitable, pending>>

Compile ==
  /\ phase = "generated"
  /\ phase' = IF Compiles(class) THEN "compiled" ELSE "rejected"
  /\ UNCHANGED <<declared, class, minitable, pending>>

\* The Minitable constructor, at its upb_MiniTable_Build.
upb_MiniTable_Build ==
  /\ phase = "compiled"
  /\ minitable' =
       [k \in 0..Len(declared) - 1 |->
          LET f == declared[CHOOSE i \in DOMAIN declared : IndexInMinitable(declared, i) = k]
          IN  [type |-> f.type, sub |-> Unlinked]]
  /\ pending' = DOMAIN class.links
  /\ phase' = "linking"
  /\ UNCHANGED <<declared, class>>

\* The constructors, one for each number of submessages, link them in the order of
\* their arguments, which the generator puts by ascending index.
NextToLink(k) == k \in pending /\ \A j \in pending : k <= j

\* upb refuses a link for a field that is no submessage, and then the process dies.
upb_MiniTable_SetSubMessage(k) ==
  /\ phase = "linking"
  /\ NextToLink(k)
  /\ pending' = pending \ {k}
  /\ IF IsSubMessage(minitable[k])
     THEN /\ minitable' = [minitable EXCEPT ![k].sub = class.links[k]]
          /\ UNCHANGED phase
     ELSE /\ phase' = "aborted"
          /\ UNCHANGED minitable
  /\ UNCHANGED <<declared, class>>

Loaded ==
  /\ phase = "linking"
  /\ pending = {}
  /\ phase' = "loaded"
  /\ UNCHANGED <<declared, class, minitable, pending>>

Next ==
  \/ \E f \in FieldDescriptors : Declare(f)
  \/ GenerateFile
  \/ Compile
  \/ upb_MiniTable_Build
  \/ \E k \in pending : upb_MiniTable_SetSubMessage(k)
  \/ Loaded

Spec == Init /\ [][Next]_vars

----------------------------------------------------------------------------
(* Properties.                                                             *)

TypeOK ==
  /\ declared \in Seq(FieldDescriptors)
  /\ phase \in {"declared", "generated", "compiled", "rejected", "linking", "aborted", "loaded"}
  /\ pending \subseteq DOMAIN class.links

\* The decoder and the accessors agree on what is in a submessage field: when the
\* class is loaded, the field an accessor reads has in the minitable the message
\* type that the accessor returns.  (Groups are never linked.)
LinksOwnTypes ==
  phase = "loaded" =>
    \A i \in DOMAIN declared :
      LET accessor == class.fields[i] IN
        accessor.kind = "singular_message" /\ declared[i].type # "GROUP" =>
          minitable[accessor.offset].sub = accessor.type

\* minitable.cpp:42: upb_MiniTable_SetSubMessage never fails, so that the process
\* does not die of loading a generated class.
SetSubMessageSucceeds == phase # "aborted"

\* The getter of an int or long field returns, as long as the field is not set, the
\* default that the file declares, at the width of the Java type: either the
\* literal, which javac accepts, or the zero that fresh memory holds.
DefaultsReadBack ==
  phase # "declared" =>
    \A i \in DOMAIN declared :
      LET accessor == class.fields[i] IN
        accessor.getter \in {"getInt", "getLong"} =>
          /\ Literal(accessor) \in SignedRange(Half(declared[i]))
          /\ (Literal(accessor) - declared[i].default) % (2 * Half(declared[i])) = 0

\* What else an induction over the steps of Spec needs, of files that declare fields
\* by ascending number (GeneratedCodeProofs): the class is that of the declared message,
\* and the minitable has its fields and the links made so far.
LinksMade ==
  /\ \A i, j \in DOMAIN declared : i < j => declared[i].number < declared[j].number
  /\ phase = "declared" => class = NoClass
  /\ phase # "declared" => class = processMessage(declared)
  /\ phase \in {"linking", "loaded"} =>
       /\ minitable \in [0..Len(declared) - 1 ->
                           [type : FieldTypes, sub : MessageTypes \cup {Unlinked}]]
       /\ \A k \in DOMAIN minitable :
            /\ minitable[k].type = declared[k + 1].type
            /\ k \in DOMAIN class.links \ pending => minitable[k].sub = class.links[k]
  /\ phase = "loaded" => pending = {}

IInv == TypeOK /\ LinksMade /\ SetSubMessageSucceeds
=============================================================================
