-------------------------- MODULE FieldSerializer --------------------------
(***************************************************************************)
(* Objects as bytes: the fields of a message or network component are      *)
(* written one after the other in the order they were registered, after    *)
(* the id of the type, and read back with an offset that each of them      *)
(* moves.                                                                  *)
(*                                                                         *)
(* A number is written byte by byte, the low byte first.  How many bytes   *)
(* its type has, and how many values a byte, are parameters.  An element   *)
(* is a number or a structure of numbers, and is given by the types of its *)
(* members.  Reading behind the last byte gives no value.                  *)
(***************************************************************************)
EXTENDS Naturals, Sequences, SequencesExt

CONSTANTS
  Sizeof,  \* bytes of the types of numbers
  Base,    \* values of a byte
  Outside  \* what memcpy takes from behind the end of the data

NumberTypes == {"uint8_t", "uint16_t", "uint32_t", "size_t"}

ASSUME SizeofAssumption ==
  /\ Sizeof \in [NumberTypes -> Nat \ {0}]
  /\ Sizeof["uint32_t"] <= Sizeof["size_t"]
  /\ Base \in Nat \ {0, 1}
  /\ Outside \notin Nat

\* Elements: a number, a Spawn, a Despawn.
Spawn == <<"uint32_t", "uint32_t", "uint16_t">>
Despawn == <<"uint32_t">>
Number(t) == <<t>>

\* Types of fields.
Element(members) == [kind |-> "element", members |-> members]
Vector(members) == [kind |-> "vector", members |-> members]
String == [kind |-> "string", members |-> Number("uint8_t")]

\* The bytes of the first k members, which is where the next one begins.
Width(members, k) ==
  LET width[i \in 0..Len(members)] == IF i = 0 THEN 0 ELSE width[i - 1] + Sizeof[members[i]]
  IN width[k]

-----------------------------------------------------------------------------
\* What is left of number n without its first k bytes.
Left(n, k) ==
  LET left[i \in Nat] == IF i = 0 THEN n ELSE left[i - 1] \div Base
  IN left[k]

\* The bytes of number n of type t.
NumberBytes(t, n) == [i \in 1..Sizeof[t] |-> Left(n, i - 1) % Base]

ElementBytes(members, e) ==
  FlattenSeq([i \in DOMAIN members |-> NumberBytes(members[i], e[i])])

\* serializeField: before the elements of a vector and the characters of a
\* string comes their number, as a size_t.
FieldBytes(field, value) ==
  IF field.kind = "element" THEN ElementBytes(field.members, value)
  ELSE NumberBytes("size_t", Len(value))
         \o FlattenSeq([i \in DOMAIN value |-> ElementBytes(field.members, value[i])])

-----------------------------------------------------------------------------
NumberAt(t, data, offset) ==
  LET value[i \in 0..Sizeof[t]] ==
        IF i = Sizeof[t] THEN 0 ELSE data[offset + i + 1] + Base * value[i + 1]
  IN IF offset + Sizeof[t] > Len(data) THEN Outside ELSE value[0]

ElementAt(members, data, offset) ==
  [i \in DOMAIN members |-> NumberAt(members[i], data, offset + Width(members, i - 1))]

\* Mutated form: a vector is read the way a string is.
SizeReadAs(field) == "uint32_t"

\* The number of elements of a vector is read as it is written, that of the
\* characters of a string as a uint32_t.
SizeType(field) == IF field.kind = "string" THEN "uint32_t" ELSE "size_t"

\* Mutated form: a Spawn is read with the padding of the structure.
PaddedSize(members) == Width(members, Len(members)) + IF Len(members) = 3 THEN 1 ELSE 0

ElementSize(members) == Width(members, Len(members))

ElementsAt(field, data, offset) ==
  LET size  == NumberAt(SizeType(field), data, offset)
      first == offset + Sizeof[SizeType(field)]
      width == ElementSize(field.members)
  IN IF size = Outside \/ first + size * width > Len(data)
     THEN [value |-> Outside, offset |-> Len(data) + 1]
     ELSE [value  |-> [i \in 1..size |->
                         ElementAt(field.members, data, first + (i - 1) * width)],
           offset |-> first + size * width]

\* deserializeField: the value that is read at the offset, and the offset of
\* the next field.
FieldAt(field, data, offset) ==
  IF field.kind = "element"
  THEN [value  |-> ElementAt(field.members, data, offset),
        offset |-> offset + ElementSize(field.members)]
  ELSE ElementsAt(field, data, offset)

-----------------------------------------------------------------------------
\* serialize() of a message or component: its type, then its fields.
ObjectBytes(typeId, fields, values) ==
  NumberBytes("uint32_t", typeId)
    \o FlattenSeq([i \in DOMAIN fields |-> FieldBytes(fields[i], values[i])])

\* Mutated form: the id of the type is not skipped.
FirstByte(data) == 0

FieldsOffset(data) == Sizeof["uint32_t"]

ReadField(read, field, data) ==
  LET next == FieldAt(field, data, read.offset)
  IN [values |-> Append(read.values, next.value), offset |-> next.offset]

\* createFromBytes(): the values of the fields, and where reading ended.
ObjectAt(fields, data) ==
  LET read[k \in 0..Len(fields)] ==
        IF k = 0 THEN [values |-> <<>>, offset |-> FieldsOffset(data)]
        ELSE ReadField(read[k - 1], fields[k], data)
  IN read[Len(fields)]

-----------------------------------------------------------------------------
\* The values the types have: a number fits its type, and so does how many
\* elements or characters there are.
Fits(t, n) == n \in Nat /\ Left(n, Sizeof[t]) = 0

IsElement(members, e) ==
  /\ e \in [1..Len(members) -> Nat]
  /\ \A i \in DOMAIN members : Fits(members[i], e[i])

IsValue(field, v) ==
  IF field.kind = "element" THEN IsElement(field.members, v)
  ELSE /\ v \in Seq([1..Len(field.members) -> Nat])
       /\ Fits("size_t", Len(v))
       /\ \A i \in DOMAIN v : IsElement(field.members, v[i])
=============================================================================
