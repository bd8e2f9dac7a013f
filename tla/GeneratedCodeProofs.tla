-------------------------- MODULE GeneratedCodeProofs --------------------------
(***************************************************************************)
(* Proofs about the generated classes.                                     *)
(*                                                                         *)
(* What the generator writes (Codegen), for messages of any number of      *)
(* fields of any types.  If they declare their fields by ascending number, *)
(* loading the generated class never aborts the process, and the minitable *)
(* and the accessors agree on the types of submessages.  In any order, the *)
(* getters of unset int and long fields return the declared defaults.      *)
(*                                                                         *)
(* What the accessors do (FieldAccess), for messages with any fields in any*)
(* layouts that satisfy LayoutAssumption: on both layouts every field reads*)
(* as what it was last set to.                                             *)
(***************************************************************************)
EXTENDS Codegen, FieldAccess, FiniteSetTheorems, TLAPS

-----------------------------------------------------------------------------
(* The generator. *)

Ascending(m) == \A i, j \in DOMAIN m : i < j => m[i].number < m[j].number

\* In a file that declares its fields by number, the index in the file is the index
\* in the minitable.
LEMMA IndexIsDeclared ==
  ASSUME NEW m \in Seq(FieldDescriptors), Ascending(m), NEW i \in DOMAIN m
  PROVE  IndexInMinitable(m, i) = i - 1
<1>1. DOMAIN m = 1..Len(m) /\ Len(m) \in Nat
  OBVIOUS
<1>2. \A j \in DOMAIN m : m[j].number \in Nat
  BY <1>1, BoundsAssumption DEF FieldDescriptors
<1>3. \A j \in DOMAIN m : m[j].number < m[i].number <=> j < i
  BY <1>1, <1>2 DEF Ascending
<1>4. {j \in DOMAIN m : m[j].number < m[i].number} = 1..(i - 1)
  BY <1>1, <1>3
<1>5. Cardinality(1..(i - 1)) = i - 1
  BY <1>1, FS_Interval
<1> QED
  BY <1>4, <1>5 DEF IndexInMinitable

\* What the generator links, by declared index.
LEMMA LinksByIndex ==
  ASSUME NEW m \in Seq(FieldDescriptors)
  PROVE  LET links == collectSubmessagesForMinitable(m) IN
           /\ \A k \in DOMAIN links : /\ k \in 0..Len(m) - 1
                                      /\ m[k + 1].type = "MESSAGE"
                                      /\ links[k] = m[k + 1].target
                                      /\ links[k] \in MessageTypes \cup {Unlinked}
           /\ \A i \in DOMAIN m : m[i].type = "MESSAGE" => i - 1 \in DOMAIN links
<1>1. DOMAIN m = 1..Len(m) /\ Len(m) \in Nat
  OBVIOUS
<1> DEFINE linked == {j \in DOMAIN m : m[j].type = "MESSAGE"}
<1>2. DOMAIN collectSubmessagesForMinitable(m) = {i - 1 : i \in linked}
  BY DEF collectSubmessagesForMinitable
<1>3. \A i \in linked : i \in Nat /\ (i - 1) + 1 = i /\ i - 1 \in 0..Len(m) - 1
  BY <1>1
<1>4. \A k \in {i - 1 : i \in linked} : k + 1 \in linked /\ k \in 0..Len(m) - 1
  BY <1>3
<1>5. \A k \in {i - 1 : i \in linked} : collectSubmessagesForMinitable(m)[k] = m[k + 1].target
  BY DEF collectSubmessagesForMinitable
<1>6. \A k \in {i - 1 : i \in linked} : m[k + 1].target \in MessageTypes \cup {Unlinked}
  BY <1>4 DEF FieldDescriptors
<1> QED
  BY <1>2, <1>4, <1>5, <1>6

\* Only the accessor of a submessage is a message accessor; it has the type of the
\* field and the place of the field in the minitable.
LEMMA MessageAccessor ==
  ASSUME NEW m, NEW i, processField(m, i).kind = "singular_message"
  PROVE  /\ IsSubMessage(m[i])
         /\ processField(m, i).type = m[i].target
         /\ processField(m, i).offset = IndexInMinitable(m, i)
<1> DEFINE f == m[i]
           unset == [kind |-> "unset", type |-> "undefined_yet", getter |-> "", setter |-> "",
                     has_presence |-> f.presence, offset |-> IndexInMinitable(m, i),
                     default |-> IF IsDefaultValueJavaDefault(f) THEN NoDefault
                                                                 ELSE DefaultValue(f)]
           primitive == [unset EXCEPT !.kind = "singular_primitive", !.type = GetJavaType(f),
                                      !.getter = PrimitiveGetter(GetJavaType(f)),
                                      !.setter = PrimitiveSetter(GetJavaType(f))]
           message == [unset EXCEPT !.kind = "singular_message", !.type = f.target,
                                    !.getter = "getMessage", !.setter = "setMessage"]
<1>1. unset.kind = "unset" /\ primitive.kind = "singular_primitive"
  OBVIOUS
<1>2. message.type = f.target /\ message.offset = IndexInMinitable(m, i)
  OBVIOUS
<1>3. processField(m, i) = CASE f.repeated \/ IsString(f) -> unset
                             [] IsPrimitive(f) /\ ~f.repeated -> primitive
                             [] IsSubMessage(f) /\ ~f.repeated -> message
  BY DEF processField
<1> HIDE DEF unset, primitive, message
<1>4. CASE f.repeated \/ IsString(f)
  <2>1. ~(IsPrimitive(f) /\ ~f.repeated) /\ ~(IsSubMessage(f) /\ ~f.repeated)
    BY <1>4 DEF IsPrimitive, IsSubMessage, IsString
  <2>2. processField(m, i) = unset
    BY <1>3, <1>4, <2>1
  <2> QED
    BY <2>2, <1>1
<1>5. CASE IsPrimitive(f) /\ ~f.repeated
  <2>1. ~(f.repeated \/ IsString(f)) /\ ~(IsSubMessage(f) /\ ~f.repeated)
    BY <1>5 DEF IsPrimitive
  <2>2. processField(m, i) = primitive
    BY <1>3, <1>5, <2>1
  <2> QED
    BY <2>2, <1>1
<1>6. CASE IsSubMessage(f) /\ ~f.repeated
  <2>1. ~(f.repeated \/ IsString(f)) /\ ~(IsPrimitive(f) /\ ~f.repeated)
    BY <1>6 DEF IsPrimitive, IsSubMessage, IsString
  <2>2. processField(m, i) = message
    BY <1>3, <1>6, <2>1
  <2> QED
    BY <2>2, <1>2, <1>6
<1> QED
  BY <1>4, <1>5, <1>6 DEF IsPrimitive

LEMMA InitIInv == Init => IInv
<1> SUFFICES ASSUME Init PROVE IInv
  OBVIOUS
<1> USE DEF Init, NoClass
<1>1. declared \in Seq(FieldDescriptors) /\ DOMAIN declared = {}
  OBVIOUS
<1> QED
  BY <1>1 DEF IInv, TypeOK, LinksMade, SetSubMessageSucceeds

LEMMA DeclareStep ==
  ASSUME NumbersAscend = TRUE, IInv, NEW f \in FieldDescriptors, Declare(f)
  PROVE  IInv'
<1> USE DEF IInv, Declare
<1>1. declared \in Seq(FieldDescriptors)
  BY DEF TypeOK
<1>2. declared' = Append(declared, f) /\ declared' \in Seq(FieldDescriptors)
  BY <1>1
<1>3. Len(declared') = Len(declared) + 1 /\ DOMAIN declared' = 1..Len(declared) + 1
  BY <1>1, <1>2
<1>4. \A i \in DOMAIN declared : declared'[i] = declared[i] /\ declared[i].number < f.number
  BY <1>1, <1>2 DEF Declarable
<1>5. declared'[Len(declared) + 1] = f
  BY <1>1, <1>2
<1>6. Len(declared) \in Nat /\ DOMAIN declared = 1..Len(declared)
  BY <1>1
<1>7. ASSUME NEW i \in DOMAIN declared', NEW j \in DOMAIN declared', i < j
      PROVE  declared'[i].number < declared'[j].number
  <2>1. i \in DOMAIN declared
    BY <1>3, <1>6, <1>7
  <2>2. CASE j \in DOMAIN declared
    BY <2>1, <2>2, <1>4, <1>7 DEF LinksMade
  <2>3. CASE j = Len(declared) + 1
    BY <2>1, <2>3, <1>4, <1>5
  <2> QED
    BY <2>2, <2>3, <1>3, <1>6
<1> QED
  BY <1>2, <1>7 DEF TypeOK, LinksMade, SetSubMessageSucceeds

LEMMA GenerateStep ==
  ASSUME IInv, GenerateFile
  PROVE  IInv'
<1> USE DEF IInv, GenerateFile
<1>1. pending' = {} \/ pending' \subseteq DOMAIN class'.links
  BY DEF TypeOK, LinksMade, NoClass
<1> QED
  BY <1>1 DEF TypeOK, LinksMade, SetSubMessageSucceeds

LEMMA CompileStep ==
  ASSUME IInv, Compile
  PROVE  IInv'
BY DEF IInv, Compile, TypeOK, LinksMade, SetSubMessageSucceeds

\* The minitable that upb builds has the declared fields, in order, without links.
LEMMA BuildStep ==
  ASSUME IInv, upb_MiniTable_Build
  PROVE  IInv'
<1> USE DEF IInv, upb_MiniTable_Build
<1>1. declared \in Seq(FieldDescriptors) /\ Ascending(declared) /\ declared' = declared /\ class' = class
  BY DEF TypeOK, LinksMade, Ascending
<1>2. DOMAIN declared = 1..Len(declared) /\ Len(declared) \in Nat
  BY <1>1
<1>3. DOMAIN minitable' = 0..Len(declared) - 1
  OBVIOUS
<1>4. ASSUME NEW k \in 0..Len(declared) - 1
      PROVE  minitable'[k].type = declared[k + 1].type
  <2> DEFINE i == CHOOSE j \in DOMAIN declared : IndexInMinitable(declared, j) = k
  <2>1. k + 1 \in DOMAIN declared
    BY <1>2
  <2>2. IndexInMinitable(declared, k + 1) = k
    BY <1>1, <2>1, IndexIsDeclared
  <2>3. i \in DOMAIN declared /\ IndexInMinitable(declared, i) = k
    BY <2>1, <2>2
  <2>4. i - 1 = k
    BY <1>1, <2>3, IndexIsDeclared
  <2>5. i = k + 1
    BY <2>3, <2>4, <1>2
  <2>6. minitable'[k].type = declared[i].type
    OBVIOUS
  <2> QED
    BY <2>5, <2>6
<1>5. pending' = DOMAIN class.links /\ phase' = "linking"
  OBVIOUS
<1>6. minitable' \in [0..Len(declared) - 1 -> [type : FieldTypes, sub : MessageTypes \cup {Unlinked}]]
  <2>1. ASSUME NEW k \in 0..Len(declared) - 1
        PROVE  minitable'[k] = [type |-> declared[k + 1].type, sub |-> Unlinked]
    BY <2>1, <1>4
  <2>2. \A k \in 0..Len(declared) - 1 : declared[k + 1].type \in FieldTypes
    BY <1>1, <1>2 DEF FieldDescriptors
  <2> QED
    BY <2>1, <2>2, <1>3
<1> QED
  BY <1>1, <1>3, <1>4, <1>5, <1>6 DEF TypeOK, LinksMade, SetSubMessageSucceeds

\* A link is for a field that is a submessage, and only its own entry changes.
LEMMA LinkStep ==
  ASSUME IInv, NEW k \in pending, upb_MiniTable_SetSubMessage(k)
  PROVE  IInv'
<1> USE DEF IInv, upb_MiniTable_SetSubMessage
<1>1. declared \in Seq(FieldDescriptors) /\ class = processMessage(declared)
  BY DEF TypeOK, LinksMade
<1>2. class.links = collectSubmessagesForMinitable(declared)
  BY <1>1 DEF processMessage
<1>3. k \in 0..Len(declared) - 1 /\ declared[k + 1].type = "MESSAGE"
  BY <1>1, <1>2, LinksByIndex DEF TypeOK
<1>4. /\ DOMAIN minitable = 0..Len(declared) - 1
      /\ minitable \in [0..Len(declared) - 1 -> [type : FieldTypes, sub : MessageTypes \cup {Unlinked}]]
  BY DEF LinksMade
<1>5. minitable[k].type = "MESSAGE"
  BY <1>3, <1>4 DEF LinksMade
<1>6. minitable' = [minitable EXCEPT ![k].sub = class.links[k]] /\ phase' = phase
  BY <1>5 DEF IsSubMessage
<1>7. DOMAIN minitable' = DOMAIN minitable
  BY <1>6
<1>8. \A j \in DOMAIN minitable : /\ minitable'[j].type = minitable[j].type
                                  /\ j # k => minitable'[j] = minitable[j]
  <2> TAKE j \in DOMAIN minitable
  <2>1. CASE j = k
    <3>1. minitable'[k] = [minitable[k] EXCEPT !.sub = class.links[k]]
      BY <1>6, <2>1
    <3>2. minitable'[k].type = minitable[k].type
      BY <3>1
    <3> QED
      BY <3>2, <2>1
  <2>2. CASE j # k
    BY <1>6, <2>2
  <2> QED
    BY <2>1, <2>2
<1>9. minitable'[k].sub = class.links[k]
  <2>1. k \in DOMAIN minitable
    BY <1>3, <1>4
  <2>2. minitable'[k] = [minitable[k] EXCEPT !.sub = class.links[k]]
    BY <1>6, <2>1
  <2>3. "sub" \in DOMAIN minitable[k]
    BY <2>1 DEF LinksMade
  <2> QED
    BY <2>2, <2>3
<1>10. \A j \in DOMAIN minitable' : j \in DOMAIN class.links \ pending' => minitable'[j].sub = class.links[j]
  BY <1>7, <1>8, <1>9 DEF LinksMade
<1>11. minitable' \in [0..Len(declared) - 1 -> [type : FieldTypes, sub : MessageTypes \cup {Unlinked}]]
  <2>1. class.links[k] \in MessageTypes \cup {Unlinked}
    BY <1>1, <1>2, LinksByIndex DEF TypeOK
  <2>2. [minitable[k] EXCEPT !.sub = class.links[k]] \in [type : FieldTypes, sub : MessageTypes \cup {Unlinked}]
    BY <2>1, <1>3, <1>4
  <2> QED
    BY <2>2, <1>4, <1>6
<1> QED
  BY <1>4, <1>6, <1>7, <1>8, <1>10, <1>11 DEF TypeOK, LinksMade, SetSubMessageSucceeds

LEMMA LoadedStep ==
  ASSUME IInv, Loaded
  PROVE  IInv'
BY DEF IInv, Loaded, TypeOK, LinksMade, SetSubMessageSucceeds

\* The inductive invariant holds.
THEOREM InductiveInvariant ==
  ASSUME NumbersAscend = TRUE
  PROVE  Spec => []IInv
<1>1. IInv /\ [Next]_vars => IInv'
  <2> SUFFICES ASSUME IInv, [Next]_vars PROVE IInv'
    OBVIOUS
  <2>1. ASSUME NEW f \in FieldDescriptors, Declare(f) PROVE IInv'
    BY <2>1, DeclareStep
  <2>2. CASE GenerateFile
    BY <2>2, GenerateStep
  <2>3. CASE Compile
    BY <2>3, CompileStep
  <2>4. CASE upb_MiniTable_Build
    BY <2>4, BuildStep
  <2>5. ASSUME NEW k \in pending, upb_MiniTable_SetSubMessage(k) PROVE IInv'
    BY <2>5, LinkStep
  <2>6. CASE Loaded
    BY <2>6, LoadedStep
  <2>7. CASE UNCHANGED vars
    BY <2>7 DEF vars, IInv, TypeOK, LinksMade, SetSubMessageSucceeds
  <2> QED
    BY <2>1, <2>2, <2>3, <2>4, <2>5, <2>6, <2>7 DEF Next
<1> QED
  BY InitIInv, <1>1, PTL DEF Spec

\* Loading a generated class never makes upb_MiniTable_SetSubMessage fail.
THEOREM LoadingNeverAborts ==
  ASSUME NumbersAscend = TRUE
  PROVE  Spec => []SetSubMessageSucceeds
<1>1. IInv => SetSubMessageSucceeds
  BY DEF IInv
<1> QED
  BY InductiveInvariant, <1>1, PTL

\* In a loaded class, the type of a submessage is the same for the accessor and for
\* the minitable.
THEOREM LinksCorrect ==
  ASSUME NumbersAscend = TRUE
  PROVE  Spec => []LinksOwnTypes
<1>1. IInv => LinksOwnTypes
  <2> SUFFICES ASSUME IInv, phase = "loaded", NEW i \in DOMAIN declared,
                      class.fields[i].kind = "singular_message", declared[i].type # "GROUP"
               PROVE  minitable[class.fields[i].offset].sub = class.fields[i].type
    BY DEF LinksOwnTypes
  <2> DEFINE f == declared[i]
             accessor == processField(declared, i)
  <2>1. declared \in Seq(FieldDescriptors) /\ Ascending(declared) /\ class = processMessage(declared)
    BY DEF IInv, TypeOK, LinksMade, Ascending
  <2>2. class.fields[i] = accessor /\ class.links = collectSubmessagesForMinitable(declared)
    BY <2>1 DEF processMessage
  <2>3. accessor.kind = "singular_message"
    BY <2>2
  <2>4. /\ IsSubMessage(f) /\ accessor.type = f.target
        /\ accessor.offset = IndexInMinitable(declared, i)
    BY <2>3, MessageAccessor
  <2>5. accessor.offset = i - 1
    BY <2>1, <2>4, IndexIsDeclared
  <2>6. f.type = "MESSAGE"
    BY <2>4 DEF IsSubMessage
  <2>7. i - 1 \in DOMAIN class.links
    BY <2>1, <2>2, <2>6, LinksByIndex
  <2>8. i - 1 \in 0..Len(declared) - 1 /\ class.links[i - 1] = declared[(i - 1) + 1].target
    BY <2>1, <2>2, <2>7, LinksByIndex
  <2>9. (i - 1) + 1 = i
    BY <2>1
  <2>10. minitable[i - 1].sub = class.links[i - 1]
    BY <2>7, <2>8 DEF IInv, LinksMade
  <2> QED
    BY <2>2, <2>4, <2>5, <2>8, <2>9, <2>10
<1> QED
  BY InductiveInvariant, <1>1, PTL
----------------------------------------------------------------------------
(* Defaults, of files that declare their fields in any order.              *)

\* What an integer field's accessor holds.
LEMMA IntegerAccessor ==
  ASSUME NEW m, NEW i, processField(m, i).getter \in {"getInt", "getLong"}
  PROVE  /\ GetJavaType(m[i]) \in {"INT", "LONG"} /\ IsPrimitive(m[i])
         /\ processField(m, i).default = IF m[i].default = 0 THEN NoDefault ELSE DefaultValue(m[i])
<1> DEFINE f == m[i]
           default == IF IsDefaultValueJavaDefault(f) THEN NoDefault ELSE DefaultValue(f)
           unset == [kind |-> "unset", type |-> "undefined_yet", getter |-> "", setter |-> "",
                     has_presence |-> f.presence, offset |-> IndexInMinitable(m, i),
                     default |-> default]
           primitive == [unset EXCEPT !.kind = "singular_primitive", !.type = GetJavaType(f),
                                      !.getter = PrimitiveGetter(GetJavaType(f)),
                                      !.setter = PrimitiveSetter(GetJavaType(f))]
           message == [unset EXCEPT !.kind = "singular_message", !.type = f.target,
                                    !.getter = "getMessage", !.setter = "setMessage"]
<1>1. unset.getter = "" /\ message.getter = "getMessage"
  OBVIOUS
<1>2. primitive.getter = PrimitiveGetter(GetJavaType(f)) /\ primitive.default = default
  OBVIOUS
<1>3. processField(m, i) = CASE f.repeated \/ IsString(f) -> unset
                             [] IsPrimitive(f) /\ ~f.repeated -> primitive
                             [] IsSubMessage(f) /\ ~f.repeated -> message
  BY DEF processField
<1> HIDE DEF unset, primitive, message
<1>4. CASE f.repeated \/ IsString(f)
  <2>1. ~(IsPrimitive(f) /\ ~f.repeated) /\ ~(IsSubMessage(f) /\ ~f.repeated)
    BY <1>4 DEF IsPrimitive, IsSubMessage, IsString
  <2>2. processField(m, i) = unset
    BY <1>3, <1>4, <2>1
  <2> QED
    BY <2>2, <1>1
<1>5. CASE IsPrimitive(f) /\ ~f.repeated
  <2>1. ~(f.repeated \/ IsString(f)) /\ ~(IsSubMessage(f) /\ ~f.repeated)
    BY <1>5 DEF IsPrimitive
  <2>2. processField(m, i) = primitive
    BY <1>3, <1>5, <2>1
  <2>3. PrimitiveGetter(GetJavaType(f)) \in {"getInt", "getLong"}
    BY <1>2, <2>2
  <2>4. GetJavaType(f) \in {"INT", "LONG"}
    BY <2>3 DEF PrimitiveGetter
  <2> QED
    BY <1>2, <1>5, <2>2, <2>4 DEF IsDefaultValueJavaDefault
<1>6. CASE IsSubMessage(f) /\ ~f.repeated
  <2>1. ~(f.repeated \/ IsString(f)) /\ ~(IsPrimitive(f) /\ ~f.repeated)
    BY <1>6 DEF IsPrimitive, IsSubMessage, IsString
  <2>2. processField(m, i) = message
    BY <1>3, <1>6, <2>1
  <2> QED
    BY <2>2, <1>1
<1> QED
  BY <1>4, <1>5, <1>6 DEF IsPrimitive

\* The literal is the declared value, modulo the number of values of its type.
LEMMA DefaultIsKept ==
  ASSUME NEW f \in FieldDescriptors, IsPrimitive(f), GetJavaType(f) \in {"INT", "LONG"}
  PROVE  /\ f.default \in Int /\ DefaultValue(f) \in SignedRange(Half(f)) /\ Half(f) \in Nat \ {0}
         /\ (DefaultValue(f) - f.default) % (2 * Half(f)) = 0
<1> DEFINE h == Half(f)
           g == [type |-> f.type]
           d == f.default
<1>1. h \in Nat \ {0}
  BY WidthAssumption DEF Half
<1>2. /\ GetJavaType(g) = GetJavaType(f) /\ (IsUnsigned(g) <=> IsUnsigned(f)) /\ Half(g) = h
  BY DEF GetJavaType, IsUnsigned, Half, IsSubMessage
<1>3. d \in IF IsUnsigned(f) THEN UnsignedRange(h) ELSE SignedRange(h)
  <2>1. d \in Defaults(f.type)
    BY DEF FieldDescriptors
  <2>2. GetJavaType(g) \in {"INT", "LONG"} /\ ~IsSubMessage(g)
    BY <1>2 DEF IsPrimitive, IsSubMessage
  <2>3. Defaults(f.type) = IF IsUnsigned(g) THEN UnsignedRange(Half(g)) ELSE SignedRange(Half(g))
    BY <2>2 DEF Defaults
  <2> QED
    BY <1>2, <2>1, <2>3
<1> HIDE DEF h, d
<1>4. CASE IsUnsigned(f)
  <2>1. ~IsSubMessage(f)
    BY DEF IsPrimitive
  <2>2. DefaultValue(f) = Signed(d, h)
    BY <1>4, <2>1 DEF DefaultValue, d, h
  <2>3. d \in Int /\ 0 <= d /\ d <= 2 * h - 1
    BY <1>1, <1>3, <1>4 DEF UnsignedRange
  <2>4. CASE d >= h
    <3>1. DefaultValue(f) = d - 2 * h
      BY <2>2, <2>4 DEF Signed
    <3>2. d - 2 * h \in SignedRange(h)
      BY <1>1, <2>3, <2>4 DEF SignedRange
    <3>3. (d - 2 * h) - d = -(2 * h)
      BY <1>1, <2>3
    <3>4. \A n \in Nat \ {0} : (-n) % n = 0
      OBVIOUS
    <3>5. 2 * h \in Nat \ {0}
      BY <1>1
    <3> QED
      BY <1>1, <2>3, <3>1, <3>2, <3>3, <3>4, <3>5 DEF d, h
  <2>5. CASE ~(d >= h)
    <3>1. DefaultValue(f) = d /\ d \in SignedRange(h) /\ d - d = 0
      BY <1>1, <2>2, <2>3, <2>5 DEF Signed, SignedRange
    <3>2. \A n \in Nat \ {0} : 0 % n = 0
      OBVIOUS
    <3>3. 2 * h \in Nat \ {0}
      BY <1>1
    <3> QED
      BY <1>1, <2>3, <3>1, <3>2, <3>3 DEF d, h
  <2> QED
    BY <2>4, <2>5
<1>5. CASE ~IsUnsigned(f)
  <2>1. DefaultValue(f) = d
    BY <1>5 DEF DefaultValue, IsPrimitive, d
  <2>2. d \in SignedRange(h) /\ d \in Int /\ d - d = 0
    BY <1>1, <1>3, <1>5 DEF SignedRange
  <2>3. \A n \in Nat \ {0} : 0 % n = 0
    OBVIOUS
  <2>4. 2 * h \in Nat \ {0}
    BY <1>1
  <2> QED
    BY <1>1, <2>1, <2>2, <2>3, <2>4 DEF d, h
<1> QED
  BY <1>4, <1>5

\* The class is that of the declared message.
ClassMade ==
  /\ declared \in Seq(FieldDescriptors)
  /\ phase # "declared" => class = processMessage(declared)

LEMMA ClassIsMade == Spec => []ClassMade
<1>1. Init => ClassMade
  BY DEF Init, ClassMade
<1>2. ClassMade /\ [Next]_vars => ClassMade'
  <2> SUFFICES ASSUME ClassMade, [Next]_vars PROVE ClassMade'
    OBVIOUS
  <2> USE DEF ClassMade
  <2>1. ASSUME NEW f \in FieldDescriptors, Declare(f) PROVE ClassMade'
    BY <2>1 DEF Declare
  <2>2. CASE GenerateFile
    BY <2>2 DEF GenerateFile
  <2>3. CASE Compile
    BY <2>3 DEF Compile
  <2>4. CASE upb_MiniTable_Build
    BY <2>4 DEF upb_MiniTable_Build
  <2>5. ASSUME NEW k \in pending, upb_MiniTable_SetSubMessage(k) PROVE ClassMade'
    BY <2>5 DEF upb_MiniTable_SetSubMessage
  <2>6. CASE Loaded
    BY <2>6 DEF Loaded
  <2>7. CASE UNCHANGED vars
    BY <2>7 DEF vars
  <2> QED
    BY <2>1, <2>2, <2>3, <2>4, <2>5, <2>6, <2>7 DEF Next
<1> QED
  BY <1>1, <1>2, PTL DEF Spec

\* In the class generated for any message, the getter of an unset int or long field
\* returns the declared default, also of an unsigned field whose default no Java int
\* or long can hold, and of one whose default is left out.
THEOREM DefaultsAreKept == Spec => []DefaultsReadBack
<1>1. ClassMade => DefaultsReadBack
  <2> SUFFICES ASSUME ClassMade, phase # "declared", NEW i \in DOMAIN declared,
                      class.fields[i].getter \in {"getInt", "getLong"}
               PROVE  /\ Literal(class.fields[i]) \in SignedRange(Half(declared[i]))
                      /\ (Literal(class.fields[i]) - declared[i].default) % (2 * Half(declared[i])) = 0
    BY DEF DefaultsReadBack
  <2> DEFINE f == declared[i]
             accessor == class.fields[i]
  <2>1. f \in FieldDescriptors /\ accessor = processField(declared, i)
    BY DEF ClassMade, processMessage
  <2>2. /\ GetJavaType(f) \in {"INT", "LONG"} /\ IsPrimitive(f)
        /\ accessor.default = IF f.default = 0 THEN NoDefault ELSE DefaultValue(f)
    BY <2>1, IntegerAccessor
  <2>3. /\ f.default \in Int /\ DefaultValue(f) \in SignedRange(Half(f)) /\ Half(f) \in Nat \ {0}
        /\ (DefaultValue(f) - f.default) % (2 * Half(f)) = 0
    BY <2>1, <2>2, DefaultIsKept
  <2> HIDE DEF f, accessor
  <2>4. CASE f.default = 0
    <3>0. Literal(accessor) = 0
      BY <2>2, <2>4 DEF Literal
    <3>1. 0 \in SignedRange(Half(f)) /\ 0 - 0 = 0
      BY <2>3 DEF SignedRange
    <3>2. \A n \in Nat \ {0} : 0 % n = 0
      OBVIOUS
    <3>3. 2 * Half(f) \in Nat \ {0}
      BY <2>3
    <3> QED
      BY <2>4, <3>0, <3>1, <3>2, <3>3 DEF f, accessor
  <2>5. CASE f.default # 0
    <3>1. DefaultValue(f) \in Int
      BY <2>3 DEF SignedRange
    <3>2. Literal(accessor) = DefaultValue(f)
      BY <2>2, <2>5, <3>1, NoDefaultAssumption DEF Literal
    <3> QED
      BY <2>3, <3>2 DEF f, accessor
  <2> QED
    BY <2>4, <2>5
<1> QED
  BY ClassIsMade, <1>1, PTL

-----------------------------------------------------------------------------
(* The accessors. *)

At(f) == OffsetOf(f, is64bit)
W(f) == Width(f, is64bit)
HasByte(f) == HasbitOf(f, is64bit) \div 8
HasNo(f) == HasbitOf(f, is64bit) % 8

\* What LayoutAssumption says of the layout in use.
LEMMA LayoutFacts ==
  ASSUME is64bit \in BOOLEAN, NEW f \in Fields
  PROVE  /\ At(f) \in Nat /\ W(f) \in {4, 8}
         /\ \A k \in 0..W(f) - 1 : At(f) + k \in 0..Size - 1
         /\ HasByte(f) \in 0..Size - 1 /\ HasNo(f) \in 0..7
         /\ \A g \in Fields : HasByte(f) \notin At(g)..At(g) + W(g) - 1
         /\ \A g \in Fields \ {f} : \A k \in 0..W(g) - 1 : At(g) + k \notin At(f)..At(f) + W(f) - 1
         /\ \A g \in Fields \ {f} : HasByte(f) # HasByte(g) \/ HasNo(f) # HasNo(g)
<1>1. At(f) \in Nat /\ W(f) \in {4, 8} /\ HasbitOf(f, is64bit) \in Nat
  BY LayoutAssumption DEF At, W, OffsetOf, Width, HasbitOf
<1>2. \A g \in Fields : At(g) \in Nat /\ W(g) \in {4, 8} /\ HasbitOf(g, is64bit) \in Nat
  BY LayoutAssumption DEF At, W, OffsetOf, Width, HasbitOf
<1>3. /\ Slot(f, is64bit) \subseteq 0..Size - 1
      /\ HasbitOf(f, is64bit) \div 8 \in 0..Size - 1
  BY LayoutAssumption
<1>4. \A g \in Fields :
        /\ HasbitOf(f, is64bit) \div 8 \notin Slot(g, is64bit)
        /\ f # g => /\ Slot(f, is64bit) \cap Slot(g, is64bit) = {}
                    /\ HasbitOf(f, is64bit) # HasbitOf(g, is64bit)
  BY LayoutAssumption
<1>5. \A g \in Fields : Slot(g, is64bit) = At(g)..At(g) + W(g) - 1
  BY DEF Slot, At, W
<1>6. \A g \in Fields : \A k \in 0..W(g) - 1 : At(g) + k \in Slot(g, is64bit)
  BY <1>2, <1>5
<1>7. HasNo(f) \in 0..7
  BY <1>1 DEF HasNo
<1>8. \A g \in Fields \ {f} : HasByte(f) # HasByte(g) \/ HasNo(f) # HasNo(g)
  BY <1>1, <1>2, <1>4 DEF HasByte, HasNo
<1> QED
  BY <1>1, <1>3, <1>4, <1>5, <1>6, <1>7, <1>8 DEF HasByte

\* The mask that the code tests and sets is the one bit of the field, also where a
\* signed char has made it negative and a byte with bit 7 is widened.
LEMMA HasBitFacts ==
  ASSUME is64bit \in BOOLEAN, charIsSigned \in BOOLEAN, NEW f \in Fields
  PROVE  /\ HasbitOffset(f) = HasByte(f)
         /\ ToByte(HasbitMask(f)) = {HasNo(f)}
         /\ mem[HasByte(f)] \in Byte => (getHasBit(f) <=> HasNo(f) \in mem[HasByte(f)])
<1>1. HasbitOffset(f) = HasByte(f) /\ HasbitMask(f) = hasbit_mask(HasbitOf(f, is64bit))
  BY DEF HasbitOffset, HasbitMask, UPB_SIZE, HasByte, HasbitOf
<1>2. HasbitMask(f) = IF HasNo(f) = 7 /\ charIsSigned THEN 7..63 ELSE {HasNo(f)}
  BY <1>1 DEF hasbit_mask, HasNo
<1>3. HasNo(f) \in 0..7
  BY LayoutFacts
<1>4. ToByte(HasbitMask(f)) = {HasNo(f)}
  BY <1>2, <1>3 DEF ToByte
<1>5. ASSUME mem[HasByte(f)] \in Byte
      PROVE  getHasBit(f) <=> HasNo(f) \in mem[HasByte(f)]
  <2> DEFINE byte == mem[HasByte(f)]
  <2>1. getHasBit(f) <=> ByteToLong(byte) \cap HasbitMask(f) # {}
    BY <1>1 DEF getHasBit
  <2>2. byte \subseteq 0..7
    BY <1>5 DEF Byte
  <2>3. CASE HasNo(f) = 7 /\ charIsSigned
    BY <1>2, <2>1, <2>2, <2>3 DEF ByteToLong
  <2>4. CASE ~(HasNo(f) = 7 /\ charIsSigned)
    BY <1>2, <1>3, <2>1, <2>2, <2>4 DEF ByteToLong
  <2> QED
    BY <2>3, <2>4
<1> QED
  BY <1>1, <1>4, <1>5

\* Memory after field f was given the bytes of v and its hasbit.
LEMMA WriteEffect ==
  ASSUME FieldTypeOK, NEW f \in Fields, NEW v, \A k \in 0..W(f) - 1 : v[k] \in Byte,
         mem' = setHasBit(put(mem, At(f), W(f), v), f), UNCHANGED <<is64bit, charIsSigned>>
  PROVE  /\ mem' \in [0..Size - 1 -> Byte]
         /\ \A k \in 0..W(f) - 1 : mem'[At(f) + k] = v[k]
         /\ \A g \in Fields \ {f} : \A k \in 0..W(g) - 1 : mem'[At(g) + k] = mem[At(g) + k]
         /\ HasNo(f) \in mem'[HasByte(f)]
         /\ \A g \in Fields \ {f} : HasNo(g) \in mem'[HasByte(g)] <=> HasNo(g) \in mem[HasByte(g)]
<1> DEFINE written == put(mem, At(f), W(f), v)
<1>1. mem \in [0..Size - 1 -> Byte] /\ is64bit \in BOOLEAN /\ charIsSigned \in BOOLEAN
  BY DEF FieldTypeOK
<1>2. mem' = [written EXCEPT ![HasByte(f)] = @ \cup {HasNo(f)}]
  BY <1>1, HasBitFacts DEF setHasBit
<1>3. /\ DOMAIN written = 0..Size - 1
      /\ \A a \in 0..Size - 1 :
           written[a] = IF a \in At(f)..At(f) + W(f) - 1 THEN v[a - At(f)] ELSE mem[a]
  BY <1>1 DEF put
<1> HIDE DEF written
<1>4. \A a \in 0..Size - 1 :
        mem'[a] = IF a = HasByte(f) THEN written[a] \cup {HasNo(f)} ELSE written[a]
  BY <1>2, <1>3
<1>5. /\ At(f) \in Nat /\ W(f) \in {4, 8} /\ HasNo(f) \in 0..7
      /\ HasByte(f) \in 0..Size - 1
  BY <1>1, LayoutFacts
<1>6. \A a \in 0..Size - 1 : written[a] \in Byte
  <2> TAKE a \in 0..Size - 1
  <2>1. CASE a \in At(f)..At(f) + W(f) - 1
    <3>1. a - At(f) \in 0..W(f) - 1
      BY <1>5, <2>1
    <3> QED
      BY <1>3, <2>1, <3>1
  <2>2. CASE a \notin At(f)..At(f) + W(f) - 1
    BY <1>1, <1>3, <2>2
  <2> QED
    BY <2>1, <2>2
<1>7. mem' \in [0..Size - 1 -> Byte]
  <2>1. \A a \in 0..Size - 1 : mem'[a] \in Byte
    BY <1>4, <1>5, <1>6 DEF Byte
  <2>2. mem' = [a \in 0..Size - 1 |-> mem'[a]]
    BY <1>2, <1>3
  <2> QED
    BY <2>1, <2>2
<1>8. \A g \in Fields : \A k \in 0..W(g) - 1 :
        At(g) + k \in 0..Size - 1 /\ At(g) + k # HasByte(f)
  <2> TAKE g \in Fields
  <2> TAKE k \in 0..W(g) - 1
  <2>1. At(g) \in Nat /\ W(g) \in {4, 8} /\ At(g) + k \in 0..Size - 1
    BY <1>1, LayoutFacts
  <2>2. HasByte(f) \notin At(g)..At(g) + W(g) - 1
    BY <1>1, LayoutFacts
  <2> QED
    BY <2>1, <2>2
<1>9. \A g \in Fields : \A k \in 0..W(g) - 1 : mem'[At(g) + k] = written[At(g) + k]
  BY <1>4, <1>8
<1>10. \A k \in 0..W(f) - 1 : written[At(f) + k] = v[k]
  <2> TAKE k \in 0..W(f) - 1
  <2>1. At(f) + k \in At(f)..At(f) + W(f) - 1 /\ (At(f) + k) - At(f) = k
    BY <1>5
  <2> QED
    BY <2>1, <1>3, <1>8
<1>11. \A g \in Fields \ {f} : \A k \in 0..W(g) - 1 : written[At(g) + k] = mem[At(g) + k]
  <2> TAKE g \in Fields \ {f}
  <2> TAKE k \in 0..W(g) - 1
  <2>1. At(g) + k \notin At(f)..At(f) + W(f) - 1
    BY <1>1, LayoutFacts
  <2> QED
    BY <2>1, <1>3, <1>8
<1>12. \A g \in Fields : HasByte(g) \in 0..Size - 1 /\ written[HasByte(g)] = mem[HasByte(g)]
  <2> TAKE g \in Fields
  <2>1. HasByte(g) \in 0..Size - 1 /\ HasByte(g) \notin At(f)..At(f) + W(f) - 1
    BY <1>1, LayoutFacts
  <2> QED
    BY <2>1, <1>3
<1>13. HasNo(f) \in mem'[HasByte(f)]
  BY <1>4, <1>5
<1>14. ASSUME NEW g \in Fields \ {f}
       PROVE  HasNo(g) \in mem'[HasByte(g)] <=> HasNo(g) \in mem[HasByte(g)]
  <2>1. HasByte(f) # HasByte(g) \/ HasNo(f) # HasNo(g)
    BY <1>1, LayoutFacts
  <2> QED
    BY <2>1, <1>4, <1>12
<1> QED
  BY <1>7, <1>9, <1>10, <1>11, <1>13, <1>14

LEMMA FieldInitIInv == FieldInit => FieldIInv
<1> SUFFICES ASSUME FieldInit PROVE FieldIInv
  OBVIOUS
<1>1. is64bit \in BOOLEAN /\ mem = [a \in 0..Size - 1 |-> {}]
  BY DEF FieldInit
<1>2. FieldTypeOK
  BY DEF FieldInit, FieldTypeOK, Byte
<1>3. ASSUME NEW f \in Fields
      PROVE  /\ last[f] = Unset
             /\ HasNo(f) \notin mem[HasByte(f)]
             /\ Stored(f) = ZeroWord(W(f))
  <2>1. HasByte(f) \in 0..Size - 1 /\ \A k \in 0..W(f) - 1 : At(f) + k \in 0..Size - 1
    BY <1>1, LayoutFacts
  <2>2. Stored(f) = [k \in 0..W(f) - 1 |-> mem[At(f) + k]]
    BY DEF Stored, get, At, W
  <2> QED
    BY <2>1, <2>2, <1>1 DEF FieldInit, ZeroWord
<1>4. FieldsKept
  BY <1>3 DEF FieldsKept, HasNo, HasByte, W
<1> QED
  BY <1>2, <1>4 DEF FieldIInv

\* A write of the bytes of v keeps the invariant.
LEMMA WriteStep ==
  ASSUME FieldIInv, NEW f \in Fields, NEW v,
         v \in Word(IF f \in IntFields THEN 4 ELSE 8),
         f \in MessageFields => IsAddress(v),
         mem' = setHasBit(put(mem, At(f), W(f), v), f),
         last' = [last EXCEPT ![f] = v],
         UNCHANGED <<is64bit, charIsSigned>>
  PROVE  FieldIInv'
<1>1. FieldTypeOK /\ FieldsKept
  BY DEF FieldIInv
<1>2. is64bit \in BOOLEAN /\ last \in [Fields -> Word(4) \cup Word(8) \cup {Unset}]
  BY <1>1 DEF FieldTypeOK
<1>3. \A k \in 0..W(f) - 1 : v[k] \in Byte
  BY <1>2, FieldsAssumption DEF Word, W, Width, Fields
<1>4. /\ mem' \in [0..Size - 1 -> Byte]
      /\ \A k \in 0..W(f) - 1 : mem'[At(f) + k] = v[k]
      /\ \A g \in Fields \ {f} : \A k \in 0..W(g) - 1 : mem'[At(g) + k] = mem[At(g) + k]
      /\ HasNo(f) \in mem'[HasByte(f)]
      /\ \A g \in Fields \ {f} : HasNo(g) \in mem'[HasByte(g)] <=> HasNo(g) \in mem[HasByte(g)]
  BY <1>1, <1>3, WriteEffect
<1>5. v \in Word(4) \cup Word(8) /\ v # Unset
  BY ValuesAssumption
<1>6. FieldTypeOK'
  BY <1>1, <1>2, <1>4, <1>5 DEF FieldTypeOK
<1>7. \A g \in Fields : /\ At(g)' = At(g) /\ W(g)' = W(g)
                        /\ HasByte(g)' = HasByte(g) /\ HasNo(g)' = HasNo(g)
  BY DEF At, W, HasByte, HasNo
<1>8. \A g \in Fields : /\ Stored(g) = [k \in 0..W(g) - 1 |-> mem[At(g) + k]]
                        /\ Stored(g)' = [k \in 0..W(g) - 1 |-> mem'[At(g) + k]]
  BY DEF Stored, get, At, W
<1>9. ASSUME NEW g \in Fields
      PROVE  /\ HasNo(g) \in mem'[HasByte(g)] <=> last'[g] # Unset
             /\ last'[g] = Unset => Stored(g)' = ZeroWord(W(g))
             /\ last'[g] # Unset =>
                  /\ last'[g] \in Word(IF g \in IntFields THEN 4 ELSE 8)
                  /\ g \in MessageFields => IsAddress(last'[g])
                  /\ \A k \in 0..W(g) - 1 : Stored(g)'[k] = last'[g][k]
  <2>1. CASE g = f
    BY <2>1, <1>2, <1>4, <1>5, <1>8
  <2>2. CASE g # f
    <3>1. last'[g] = last[g] /\ Stored(g)' = Stored(g)
      <4>1. last'[g] = last[g]
        BY <2>2, <1>2
      <4>2. \A k \in 0..W(g) - 1 : mem'[At(g) + k] = mem[At(g) + k]
        BY <2>2, <1>4
      <4>3. Stored(g)' = [k \in 0..W(g) - 1 |-> mem'[At(g) + k]]
        BY <1>8
      <4>4. Stored(g) = [k \in 0..W(g) - 1 |-> mem[At(g) + k]]
        BY <1>8
      <4> QED
        BY <4>1, <4>2, <4>3, <4>4
    <3>2. /\ HasNo(g) \in mem[HasByte(g)] <=> last[g] # Unset
          /\ last[g] = Unset => Stored(g) = ZeroWord(W(g))
          /\ last[g] # Unset =>
               /\ last[g] \in Word(IF g \in IntFields THEN 4 ELSE 8)
               /\ g \in MessageFields => IsAddress(last[g])
               /\ \A k \in 0..W(g) - 1 : Stored(g)[k] = last[g][k]
      BY <1>1 DEF FieldsKept, HasNo, HasByte, W
    <3>3. HasNo(g) \in mem'[HasByte(g)] <=> HasNo(g) \in mem[HasByte(g)]
      BY <2>2, <1>4
    <3> QED
      BY <3>1, <3>2, <3>3
  <2> QED
    BY <2>1, <2>2
<1>10. FieldsKept'
  BY <1>7, <1>9 DEF FieldsKept, HasNo, HasByte, W, IsAddress
<1> QED
  BY <1>6, <1>10 DEF FieldIInv

\* Every setter is such a write.
LEMMA FieldNextIInv ==
  ASSUME FieldIInv, [FieldNext]_fieldVars
  PROVE  FieldIInv'
<1>1. is64bit \in BOOLEAN
  BY DEF FieldIInv, FieldTypeOK
<1>2. ASSUME NEW f \in IntFields, NEW v \in Ints, SetInt(f, v)
      PROVE  FieldIInv'
  <2>1. f \in Fields /\ f \notin MessageFields /\ v \in Word(4)
    BY FieldsAssumption, ValuesAssumption DEF Fields
  <2>2. mem' = setHasBit(put(mem, At(f), W(f), v), f)
    BY <1>2 DEF SetInt, setInt, UPB_SIZE, At, W, OffsetOf, Width
  <2> QED
    BY <1>2, <2>1, <2>2, WriteStep DEF SetInt
<1>3. ASSUME NEW f \in LongFields, NEW v \in Longs, SetLong(f, v)
      PROVE  FieldIInv'
  <2>1. f \in Fields /\ f \notin MessageFields /\ f \notin IntFields /\ v \in Word(8)
    BY FieldsAssumption, ValuesAssumption DEF Fields
  <2>2. mem' = setHasBit(put(mem, At(f), W(f), v), f)
    BY <1>3, <2>1 DEF SetLong, setLong, UPB_SIZE, At, W, OffsetOf, Width
  <2> QED
    BY <1>3, <2>1, <2>2, WriteStep DEF SetLong
<1>4. ASSUME NEW f \in MessageFields, NEW p \in Pointers, SetMessage(f, p)
      PROVE  FieldIInv'
  <2>1. f \in Fields /\ f \notin LongFields /\ f \notin IntFields /\ p \in Word(8)
    BY FieldsAssumption, ValuesAssumption DEF Fields
  <2>2. mem' = setHasBit(put(mem, At(f), W(f), p), f)
    <3>1. CASE is64bit
      BY <1>4, <2>1, <3>1 DEF SetMessage, setMessage, At, W, OffsetOf, Width
    <3>2. CASE ~is64bit
      <4>1. W(f) = 4 /\ At(f) = Offset32[f] /\ Offset32[f] \in Nat
        BY <2>1, <3>2, LayoutAssumption DEF At, W, OffsetOf, Width
      <4>2. \A a \in At(f)..At(f) + 4 - 1 : a - At(f) \in 0..3
        BY <4>1
      <4>3. \A k \in 0..3 : ToInt(p)[k] = p[k]
        BY DEF ToInt
      <4>4. put(mem, At(f), 4, ToInt(p)) = put(mem, At(f), 4, p)
        BY <4>2, <4>3 DEF put
      <4> QED
        BY <1>4, <3>2, <4>1, <4>4 DEF SetMessage, setMessage
    <3> QED
      BY <3>1, <3>2, <1>1
  <2> QED
    BY <1>4, <2>1, <2>2, WriteStep DEF SetMessage
<1>5. CASE UNCHANGED fieldVars
  BY <1>5 DEF fieldVars, FieldIInv, FieldTypeOK, FieldsKept, Stored, get, IsAddress
<1> QED
  BY <1>2, <1>3, <1>4, <1>5 DEF FieldNext

\* The inductive invariant holds.
THEOREM FieldInvariant == FieldSpec => []FieldIInv
BY FieldInitIInv, FieldNextIInv, PTL DEF FieldSpec

THEOREM FieldTypesCorrect == FieldSpec => []FieldTypeOK
<1>1. FieldIInv => FieldTypeOK
  BY DEF FieldIInv
<1> QED
  BY FieldInvariant, <1>1, PTL

\* On both layouts, every int and long field reads as what it was last set to, and
\* as its default before that.
THEOREM GettersCorrect == FieldSpec => []GettersReturnWhatWasSet
<1>1. FieldIInv => GettersReturnWhatWasSet
  <2> SUFFICES ASSUME FieldIInv, NEW f \in Fields
               PROVE  /\ getHasBit(f) <=> last[f] # Unset
                      /\ f \notin MessageFields =>
                           getPrimitive(f) = IF last[f] # Unset THEN last[f]
                                             ELSE IF f \in DOMAIN Default THEN Default[f]
                                             ELSE ZeroWord(Width(f, is64bit))
    BY DEF GettersReturnWhatWasSet
  <2>1. is64bit \in BOOLEAN /\ charIsSigned \in BOOLEAN /\ mem \in [0..Size - 1 -> Byte]
    BY DEF FieldIInv, FieldTypeOK
  <2>2. HasByte(f) \in 0..Size - 1
    BY <2>1, LayoutFacts
  <2>3. getHasBit(f) <=> HasNo(f) \in mem[HasByte(f)]
    BY <2>1, <2>2, HasBitFacts
  <2>4. getHasBit(f) <=> last[f] # Unset
    BY <2>3 DEF FieldIInv, FieldsKept, HasNo, HasByte
  <2>5. getPrimitive(f) = IF f \in DOMAIN Default /\ ~getHasBit(f) THEN Default[f] ELSE Stored(f)
    BY DEF getPrimitive, Stored, UPB_SIZE, OffsetOf
  <2>6. ASSUME f \notin MessageFields, last[f] # Unset
        PROVE  Stored(f) = last[f]
    <3>1. W(f) = IF f \in IntFields THEN 4 ELSE 8
      BY <2>6 DEF W, Width, Fields
    <3>2. last[f] \in Word(W(f)) /\ \A k \in 0..W(f) - 1 : Stored(f)[k] = last[f][k]
      BY <2>6, <3>1 DEF FieldIInv, FieldsKept, W
    <3>3. Stored(f) = [k \in 0..W(f) - 1 |-> Stored(f)[k]]
      BY DEF Stored, get, W
    <3>4. last[f] = [k \in 0..W(f) - 1 |-> last[f][k]]
      BY <3>2 DEF Word
    <3> QED
      BY <3>2, <3>3, <3>4
  <2>7. last[f] = Unset => Stored(f) = ZeroWord(Width(f, is64bit))
    BY DEF FieldIInv, FieldsKept
  <2> QED
    BY <2>4, <2>5, <2>6, <2>7
<1> QED
  BY FieldInvariant, <1>1, PTL

\* On both layouts, message pointers are null exactly if none was set, and reach
\* native code as they were set.
THEOREM PointersCorrect == FieldSpec => []PointersReadBack
<1>1. FieldIInv => PointersReadBack
  <2> SUFFICES ASSUME FieldIInv, NEW f \in MessageFields
               PROVE  /\ getMessagePointer(f) = ZeroWord(8) <=> last[f] = Unset
                      /\ last[f] # Unset =>
                           \A k \in 0..Width(f, is64bit) - 1 : getMessagePointer(f)[k] = last[f][k]
    BY DEF PointersReadBack
  <2>1. f \in Fields /\ f \notin IntFields /\ f \notin LongFields /\ is64bit \in BOOLEAN
    BY FieldsAssumption DEF Fields, FieldIInv, FieldTypeOK
  <2>2. /\ last[f] = Unset => Stored(f) = ZeroWord(Width(f, is64bit))
        /\ last[f] # Unset =>
             /\ IsAddress(last[f])
             /\ \A k \in 0..Width(f, is64bit) - 1 : Stored(f)[k] = last[f][k]
    BY <2>1 DEF FieldIInv, FieldsKept
  <2>3. CASE is64bit
    <3>1. getMessagePointer(f) = Stored(f) /\ Width(f, is64bit) = 8
      BY <2>1, <2>3 DEF getMessagePointer, Stored, OffsetOf, Width
    <3>2. last[f] # Unset => \E k \in 0..7 : Stored(f)[k] # {}
      <4>1. last[f] # Unset => \E k \in 0..7 : last[f][k] # {}
        BY <2>2, <2>3 DEF IsAddress
      <4>2. 0..Width(f, is64bit) - 1 = 0..7
        BY <3>1
      <4> QED
        BY <2>2, <4>1, <4>2
    <3>3. \A k \in 0..7 : ZeroWord(8)[k] = {}
      BY DEF ZeroWord
    <3> QED
      BY <2>2, <3>1, <3>2, <3>3
  <2>4. CASE ~is64bit
    <3>1. getMessagePointer(f) = IntToLong(Stored(f)) /\ Width(f, is64bit) = 4
      BY <2>1, <2>4 DEF getMessagePointer, Stored, OffsetOf, Width
    <3>2. \A k \in 0..3 : IntToLong(Stored(f))[k] = Stored(f)[k]
      BY DEF IntToLong
    <3>3. last[f] # Unset => \E k \in 0..3 : Stored(f)[k] # {}
      BY <2>2, <2>4, <3>1 DEF IsAddress
    <3>4. \A k \in 0..7 : ZeroWord(8)[k] = {}
      BY DEF ZeroWord
    <3>5. last[f] # Unset => IntToLong(Stored(f)) # ZeroWord(8)
      BY <3>2, <3>3, <3>4
    <3>6. last[f] = Unset => IntToLong(Stored(f)) = ZeroWord(8)
      BY <2>2, <3>1 DEF IntToLong, ZeroWord
    <3> QED
      BY <2>2, <3>1, <3>2, <3>5, <3>6
  <2> QED
    BY <2>1, <2>3, <2>4
<1> QED
  BY FieldInvariant, <1>1, PTL
=============================================================================
