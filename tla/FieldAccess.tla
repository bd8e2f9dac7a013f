---------------------------- MODULE FieldAccess ----------------------------
(***************************************************************************)
(* Messages.java, lines 65-178, and the setters of Builder that call it:   *)
(* reading and writing the fields and the hasbits of a native message by   *)
(* offset, on both of the layouts that the generated code carries.         *)
(*                                                                         *)
(* A byte is the set of its bits that are set; a Java int or long is a     *)
(* word, a function from byte positions (least significant first) to       *)
(* bytes.  Offsets, hasbit numbers and their widths come from upb's        *)
(* minitables through the generator (external); LayoutAssumption is what   *)
(* upb's layout promises.                                                  *)
(***************************************************************************)
EXTENDS Integers

CONSTANTS
  IntFields, LongFields, MessageFields,
  Offset32, Offset64,    \* offset32, offset64 of each field
  Hasbit32, Hasbit64,    \* the bit, counted from the start of the message, that
                         \* says whether the field is set
  Size,                  \* of the message, in bytes
  Default,               \* declared default of int and long fields that have one
  Ints, Longs, Pointers, \* the values that are set; bounds a run
  Unset                  \* no value was set

Fields == IntFields \cup LongFields \cup MessageFields
Byte == SUBSET (0..7)
Word(n) == [0..n - 1 -> Byte]
ZeroWord(n) == [k \in 0..n - 1 |-> {}]

Width(f, is64) == IF f \in IntFields THEN 4 ELSE IF f \in LongFields \/ is64 THEN 8 ELSE 4
OffsetOf(f, is64) == IF is64 THEN Offset64[f] ELSE Offset32[f]
HasbitOf(f, is64) == IF is64 THEN Hasbit64[f] ELSE Hasbit32[f]
Slot(f, is64) == OffsetOf(f, is64) .. OffsetOf(f, is64) + Width(f, is64) - 1

ASSUME FieldsAssumption ==
  /\ IntFields \cap LongFields = {} /\ IntFields \cap MessageFields = {}
  /\ LongFields \cap MessageFields = {}

ASSUME LayoutAssumption ==
  /\ Size \in Nat
  /\ Offset32 \in [Fields -> Nat] /\ Offset64 \in [Fields -> Nat]
  /\ Hasbit32 \in [Fields -> Nat] /\ Hasbit64 \in [Fields -> Nat]
  /\ \A f, g \in Fields, is64 \in BOOLEAN :
       /\ Slot(f, is64) \subseteq 0..Size - 1
       /\ HasbitOf(f, is64) \div 8 \in 0..Size - 1
       /\ HasbitOf(f, is64) \div 8 \notin Slot(g, is64)
       /\ f # g => /\ Slot(f, is64) \cap Slot(g, is64) = {}
                   /\ HasbitOf(f, is64) # HasbitOf(g, is64)

ASSUME ValuesAssumption ==
  /\ Ints \subseteq Word(4) /\ Longs \subseteq Word(8)
  /\ Pointers \subseteq Word(8)
  /\ DOMAIN Default \subseteq IntFields \cup LongFields
  /\ \A f \in DOMAIN Default : Default[f] \in Word(IF f \in IntFields THEN 4 ELSE 8)
  /\ Unset \notin Word(4) \cup Word(8)

VARIABLES
  is64bit,       \* Messages.is64bit
  charIsSigned,  \* of the compiler the generator was built with
  mem,           \* the bytes of a message
  last           \* last[f] : the value that field f was last set to

fieldVars == <<is64bit, charIsSigned, mem, last>>

----------------------------------------------------------------------------
(* sun.misc.Unsafe (external) and the conversions of the Java language.    *)

get(at, n) == [k \in 0..n - 1 |-> mem[at + k]]
put(m, at, n, v) == [a \in DOMAIN m |-> IF a \in at..at + n - 1 THEN v[a - at] ELSE m[a]]

ToInt(long) == [k \in 0..3 |-> long[k]]
IntToLong(int) == [k \in 0..7 |-> IF k <= 3 THEN int[k] ELSE IF 7 \in int[3] THEN 0..7 ELSE {}]

\* The bits of a long: of a byte that is widened, and the byte it is narrowed to.
ByteToLong(byte) == byte \cup (IF 7 \in byte THEN 8..63 ELSE {})
ToByte(bits) == bits \cap 0..7

----------------------------------------------------------------------------
(* Messages.java, with the generator's constants.                          *)

UPB_SIZE(size32, size64) == IF is64bit THEN size64 ELSE size32

\* The mask of hasbit number n: a C++ char, hence negative for bit 7 where char is
\* signed; the generated code has it as an int literal.
hasbit_mask(n) ==
  IF n % 8 = 7 /\ charIsSigned THEN 7..63 ELSE {n % 8}

HasbitOffset(f) == UPB_SIZE(Hasbit32[f] \div 8, Hasbit64[f] \div 8)
HasbitMask(f) == UPB_SIZE(hasbit_mask(Hasbit32[f]), hasbit_mask(Hasbit64[f]))

getHasBit(f) == ByteToLong(mem[HasbitOffset(f)]) \cap HasbitMask(f) # {}

\* Faulty variant: the byte is overwritten.
setHasBit_Overwrite(m, f) == [m EXCEPT ![HasbitOffset(f)] = ToByte(HasbitMask(f))]

setHasBit(m, f) == [m EXCEPT ![HasbitOffset(f)] = @ \cup ToByte(HasbitMask(f))]

setInt(m, f, v) == put(m, UPB_SIZE(Offset32[f], Offset64[f]), 4, v)
setLong(m, f, v) == put(m, UPB_SIZE(Offset32[f], Offset64[f]), 8, v)
\* Faulty variant: always eight bytes.
setMessage_Always64(m, f, p) ==
  put(m, UPB_SIZE(Offset32[f], Offset64[f]), 8, p)

setMessage(m, f, p) ==
  IF is64bit THEN put(m, Offset64[f], 8, p) ELSE put(m, Offset32[f], 4, ToInt(p))

\* A field with a declared default has its hasbit looked at; another has not.
getPrimitive(f) ==
  LET stored == get(UPB_SIZE(Offset32[f], Offset64[f]), Width(f, is64bit)) IN
    IF f \in DOMAIN Default /\ ~getHasBit(f) THEN Default[f] ELSE stored

getMessagePointer(f) ==
  IF is64bit THEN get(Offset64[f], 8) ELSE IntToLong(get(Offset32[f], 4))

----------------------------------------------------------------------------
(* The setters of Builder, for fields with presence.                       *)

FieldInit ==
  /\ is64bit \in BOOLEAN
  /\ charIsSigned \in BOOLEAN
  /\ mem = [a \in 0..Size - 1 |-> {}]
  /\ last = [f \in Fields |-> Unset]

SetInt(f, v) ==
  /\ mem' = setHasBit(setInt(mem, f, v), f)
  /\ last' = [last EXCEPT ![f] = v]
  /\ UNCHANGED <<is64bit, charIsSigned>>

SetLong(f, v) ==
  /\ mem' = setHasBit(setLong(mem, f, v), f)
  /\ last' = [last EXCEPT ![f] = v]
  /\ UNCHANGED <<is64bit, charIsSigned>>

\* upb never allocates a message at address 0.
IsAddress(p) == \E k \in 0..(IF is64bit THEN 7 ELSE 3) : p[k] # {}

SetMessage(f, p) ==
  /\ IsAddress(p)
  /\ mem' = setHasBit(setMessage(mem, f, p), f)
  /\ last' = [last EXCEPT ![f] = p]
  /\ UNCHANGED <<is64bit, charIsSigned>>

FieldNext ==
  \/ \E f \in IntFields, v \in Ints : SetInt(f, v)
  \/ \E f \in LongFields, v \in Longs : SetLong(f, v)
  \/ \E f \in MessageFields, p \in Pointers : SetMessage(f, p)

FieldSpec == FieldInit /\ [][FieldNext]_fieldVars

----------------------------------------------------------------------------
(* Properties.                                                             *)

FieldTypeOK ==
  /\ is64bit \in BOOLEAN /\ charIsSigned \in BOOLEAN
  /\ mem \in [0..Size - 1 -> Byte]
  /\ last \in [Fields -> Word(4) \cup Word(8) \cup {Unset}]

\* A field that has not been set has no hasbit and reads as its default; one that
\* has been set reads as what it was last set to, whatever was done to the others
\* since (TinyProtoTest.java:31-41).
GettersReturnWhatWasSet ==
  \A f \in Fields :
    /\ getHasBit(f) <=> last[f] # Unset
    /\ f \notin MessageFields =>
         getPrimitive(f) = IF last[f] # Unset THEN last[f]
                           ELSE IF f \in DOMAIN Default THEN Default[f]
                           ELSE ZeroWord(Width(f, is64bit))

\* The pointer that getMessage compares with 0 is 0 exactly if none was set, and
\* otherwise the native code gets the address that was set, at its own width.
PointersReadBack ==
  \A f \in MessageFields :
    /\ getMessagePointer(f) = ZeroWord(8) <=> last[f] = Unset
    /\ last[f] # Unset =>
         \A k \in 0..Width(f, is64bit) - 1 : getMessagePointer(f)[k] = last[f][k]

\* What else an induction over the steps of FieldSpec needs (GeneratedCodeProofs): the bit
\* and the bytes of each field in memory.
Stored(f) == get(OffsetOf(f, is64bit), Width(f, is64bit))

FieldsKept ==
  \A f \in Fields :
    /\ HasbitOf(f, is64bit) % 8 \in mem[HasbitOf(f, is64bit) \div 8] <=> last[f] # Unset
    /\ last[f] = Unset => Stored(f) = ZeroWord(Width(f, is64bit))
    /\ last[f] # Unset =>
         /\ last[f] \in Word(IF f \in IntFields THEN 4 ELSE 8)
         /\ f \in MessageFields => IsAddress(last[f])
         /\ \A k \in 0..Width(f, is64bit) - 1 : Stored(f)[k] = last[f][k]

FieldIInv == FieldTypeOK /\ FieldsKept
=============================================================================
