------------------------------- MODULE Codec -------------------------------
(***************************************************************************)
(* encode(value, buffer, offset) and decode(buffer, offset) of the data    *)
(* type classes, as RECURSIVE operators over a byte sequence, and the      *)
(* path of one attribute value through Container.encode / decode: it is    *)
(* encoded either by this code or by a peer that writes the standard       *)
(* layout, then decoded by this code.  The schema is fixed; the            *)
(* __octetBoundary fields are those pass 2 leaves under some dict order.   *)
(*                                                                         *)
(* The leaf codecs of _fom are external: they are modelled as writing the  *)
(* value's bytes in the type's byte order at the aligned offset (padding   *)
(* the buffer with zeros up to it), and as raising when a read runs past   *)
(* the end of the buffer.  A result is [buf, off] or [val, off], or        *)
(* [err] for the exception that leaves the call.                           *)
(***************************************************************************)
EXTENDS DataTypes

SE == INSTANCE SequencesExt

CONSTANTS
  TypeMap,      \* the resolved schema: name -> data type record
  AttrTypes,    \* the data types attributes are bound to
  SmallValues,  \* SmallValues[size]: the integers a basic type carries
  MaxDynLen     \* longest dynamic array value

VARIABLES
  boundary,  \* __octetBoundary of the own-boundary types, after pass 2
  dataType,  \* the attribute's data type
  value,     \* the application value
  source,    \* "local": this code encoded it; "standard": a standard peer did
  wire,      \* the encoded bytes
  phase,     \* "init", "sent", "encodeError", "decoded"
  result     \* what decode returned

vars == <<boundary, dataType, value, source, wire, phase, result>>

Err(e) == [err |-> e]
IsErr(r) == "err" \in DOMAIN r

(* The bytes of v, size bytes wide, in byte order ord, and back.  A value  *)
(* read back that needs more than 3 bytes (only misread padding or counts  *)
(* produce one) is kept as its big-endian bytes: distinct from every      *)
(* integer, and beyond the width of TLC's integers.                        *)
RECURSIVE BEBytes(_, _)
BEBytes(v, size) == IF size = 0 THEN <<>> ELSE Append(BEBytes(v \div 256, size - 1), v % 256)

Reversed(s) == [i \in 1..Len(s) |-> s[Len(s) + 1 - i]]

Bytes(v, size, ord) == IF ord = "BE" THEN BEBytes(v, size) ELSE Reversed(BEBytes(v, size))

RECURSIVE BEValue(_)
BEValue(s) == IF s = <<>> THEN 0 ELSE BEValue(SubSeq(s, 1, Len(s) - 1)) * 256 + s[Len(s)]

FromBytes(s, ord) ==
  LET be == IF ord = "BE" THEN s ELSE Reversed(s)
  IN  IF \A i \in 1..Len(be) - 3 : be[i] = 0 THEN BEValue(be) ELSE be

(* Mutation of Put: the bytes appended at the end of the buffer, the      *)
(* offset's padding never written.                                         *)
PutNoPadding(buf, o, bytes) == buf \o bytes

(* A leaf encoder writing at offset o of buf, zero-padding up to it.       *)
Put(buf, o, bytes) == buf \o [i \in 1..(o - Len(buf)) |-> 0] \o bytes

(* The 4-byte count type HLAdynamicArraySize of DynamicArrayData.          *)
CountType == [kind |-> "basic", size |-> 4, order |-> "BE"]

(* BasicData.encode / decode: align to the size, then the leaf codec.      *)
EncBasic(e, v, buf, off) ==
  LET o == AlignTo(off, e.size)
  IN  [buf |-> Put(buf, o, Bytes(v, e.size, e.order)), off |-> o + e.size]

(* Mutation of DecBasic: the leaf decoder called at the unaligned offset. *)
DecBasicUnaligned(e, buf, off) ==
  IF off + e.size > Len(buf) THEN Err("struct.error")
  ELSE [val |-> FromBytes(SubSeq(buf, off + 1, off + e.size), e.order), off |-> off + e.size]

DecBasic(e, buf, off) ==
  LET o == AlignTo(off, e.size)
  IN  IF o + e.size > Len(buf) THEN Err("struct.error")
      ELSE [val |-> FromBytes(SubSeq(buf, o + 1, o + e.size), e.order), off |-> o + e.size]

Extend(f, k, x) == [y \in DOMAIN f \cup {k} |-> IF y = k THEN x ELSE f[y]]

NoFields == [y \in {} |-> 0]

(* The last enumerator / alternative the dict kept for a key.              *)
EnumeratorName(e, n) ==
  LET is == {i \in DOMAIN e.enumerators : e.enumerators[i].value = n}
  IN  e.enumerators[MaxOf(is)].name

AlternativeFor(e, d) ==
  LET is == {i \in DOMAIN e.alternatives : e.alternatives[i].enumerator = d}
  IN  e.alternatives[MaxOf(is)]

Wrap(e, s) == IF e.isString THEN [text |-> s] ELSE s
-----------------------------------------------------------------------------
(* EnumeratedData.encode: the map lookup, then self.__type.encode on the   *)
(* weakref object itself, which has no attribute encode.                   *)
EncEnumerated(e, v) ==
  IF \A x \in SeqSet(e.enumerators) : x.name # v THEN Err("KeyError") ELSE Err("AttributeError")

(* The code's encode, one operator per class.  Simple data, fields and    *)
(* alternatives forward to the type they refer to.                         *)
RECURSIVE Enc(_, _, _, _), EncRecord(_, _, _, _, _), EncFixedArray(_, _, _, _),
          EncDynamicArray(_, _, _, _, _), EncVariant(_, _, _, _, _),
          EncFields(_, _, _, _), EncElems(_, _, _, _, _)
Enc(t, v, buf, off) ==
  LET e == TypeMap[t] IN
  CASE e.kind = "basic"         -> EncBasic(e, v, buf, off)
    [] e.kind = "simple"        -> Enc(e.ref, v, buf, off)
    [] e.kind = "fixedRecord"   -> EncRecord(t, e, v, buf, off)
    [] e.kind = "fixedArray"    -> EncFixedArray(e, v, buf, off)
    [] e.kind = "dynamicArray"  -> EncDynamicArray(t, e, v, buf, off)
    [] e.kind = "enumerated"    -> EncEnumerated(e, v)
    [] e.kind = "variantRecord" -> EncVariant(t, e, v, buf, off)

(* FixedRecordData.encode: align, then value[f.getName()] of every field.  *)
EncRecord(t, e, v, buf, off) ==
  IF boundary[t] = 0 THEN Err("ZeroDivisionError")
  ELSE EncFields(e.fields, v, 1, [buf |-> buf, off |-> AlignTo(off, boundary[t])])

EncFields(fs, v, i, r) ==
  CASE IsErr(r) \/ i > Len(fs)     -> r
    [] fs[i].name \notin DOMAIN v  -> Err("KeyError")
    [] OTHER -> EncFields(fs, v, i + 1, Enc(fs[i].dataType, v[fs[i].name], r.buf, r.off))

(* The loops of FixedArrayData.encode and DynamicArrayData.encode run      *)
(* "i = i + 1" before "value[i]": Python index i is TLA+ index i + 1, and   *)
(* i = count is out of range.                                              *)
EncElems(et, v, i, count, r) ==
  CASE IsErr(r) \/ i > count -> r
    [] i >= Len(v)           -> Err("IndexError")
    [] OTHER -> EncElems(et, v, i + 1, count, Enc(et, v[i + 1], r.buf, r.off))

EncFixedArray(e, v, buf, off) ==
  EncElems(e.ref, v, 1, e.cardinality, [buf |-> buf, off |-> off])

(* DynamicArrayData.encode: align, the count, then the elements.           *)
EncDynamicArray(t, e, v, buf, off) ==
  EncElems(e.ref, v, 1, Len(v), EncBasic(CountType, Len(v), buf, AlignTo(off, boundary[t])))

(* VariantRecordData.encode: align; for the first key naming an            *)
(* alternative, the discriminant, then value[key] with key undefined; with *)
(* no such key, nothing written.                                           *)
EncVariant(t, e, v, buf, off) ==
  IF boundary[t] = 0 THEN Err("ZeroDivisionError")
  ELSE LET o   == AlignTo(off, boundary[t])
           alt == {a \in SeqSet(e.alternatives) : a.name \in DOMAIN v}
       IN  IF alt = {} THEN [buf |-> buf, off |-> o]
           ELSE LET d == Enc(e.ref, (CHOOSE a \in alt : TRUE).enumerator, buf, o)
                IN  IF IsErr(d) THEN d ELSE Err("NameError")

(* The code's decode, one operator per class.                              *)
RECURSIVE Dec(_, _, _), DecRecord(_, _, _, _), DecArray(_, _, _, _),
          DecEnumerated(_, _, _), DecVariant(_, _, _, _),
          DecFields(_, _, _, _), DecElems(_, _, _, _)
Dec(t, buf, off) ==
  LET e == TypeMap[t] IN
  CASE e.kind = "basic"         -> DecBasic(e, buf, off)
    [] e.kind = "simple"        -> Dec(e.ref, buf, off)
    [] e.kind = "fixedRecord"   -> DecRecord(t, e, buf, off)
    [] e.kind = "fixedArray"    -> DecArray(e, buf, e.cardinality, off)
    [] e.kind = "dynamicArray"  ->
         LET c == DecBasic(CountType, buf, AlignTo(off, boundary[t]))
         IN  IF IsErr(c) THEN c ELSE DecArray(e, buf, c.val, c.off)
    [] e.kind = "enumerated"    -> DecEnumerated(e, buf, off)
    [] e.kind = "variantRecord" -> DecVariant(t, e, buf, off)

(* FixedRecordData.decode: align, then each field into the record.         *)
DecRecord(t, e, buf, off) ==
  IF boundary[t] = 0 THEN Err("ZeroDivisionError")
  ELSE DecFields(e.fields, buf, 1, [val |-> NoFields, off |-> AlignTo(off, boundary[t])])

DecFields(fs, buf, i, r) ==
  IF IsErr(r) \/ i > Len(fs) THEN r
  ELSE LET x == Dec(fs[i].dataType, buf, r.off)
       IN  IF IsErr(x) THEN x
           ELSE DecFields(fs, buf, i + 1, [val |-> Extend(r.val, fs[i].name, x.val), off |-> x.off])

DecElems(et, buf, count, r) ==
  IF IsErr(r) \/ Len(r.val) >= count THEN r
  ELSE LET x == Dec(et, buf, r.off)
       IN  IF IsErr(x) THEN x
           ELSE DecElems(et, buf, count, [val |-> Append(r.val, x.val), off |-> x.off])

(* The element loop of FixedArrayData.decode and DynamicArrayData.decode   *)
(* (after the count): count elements, joined into text when isString.      *)
DecArray(e, buf, count, off) ==
  LET r == DecElems(e.ref, buf, count, [val |-> <<>>, off |-> off])
  IN  IF IsErr(r) THEN r ELSE [val |-> Wrap(e, r.val), off |-> r.off]

(* EnumeratedData.decode: the representation, then the name the value map  *)
(* holds for it.                                                           *)
DecEnumerated(e, buf, off) ==
  LET r == Dec(e.ref, buf, off)
  IN  CASE IsErr(r) -> r
        [] \A x \in SeqSet(e.enumerators) : x.value # r.val -> Err("KeyError")
        [] OTHER -> [val |-> EnumeratorName(e, r.val), off |-> r.off]

(* VariantRecordData.decode: align, the discriminant's enumerator name,    *)
(* the alternative the enumerator map holds for it, then its value.        *)
DecVariant(t, e, buf, off) ==
  IF boundary[t] = 0 THEN Err("ZeroDivisionError")
  ELSE LET d == Dec(e.ref, buf, AlignTo(off, boundary[t])) IN
       CASE IsErr(d) -> d
         [] \A a \in SeqSet(e.alternatives) : a.enumerator # d.val -> Err("KeyError")
         [] OTHER ->
              LET a == AlternativeFor(e, d.val)
                  p == Dec(a.dataType, buf, d.off)
              IN  IF IsErr(p) THEN p ELSE [val |-> [y \in {a.name} |-> p.val], off |-> p.off]
-----------------------------------------------------------------------------
(* The standard layout, written from the HLA encoding rules independently   *)
(* of the code: each value at the next multiple of its type's alignment    *)
(* A[t], records field by field, arrays element by element, a dynamic      *)
(* array as a 4-byte big-endian count then its elements, an enumerator as  *)
(* its value in the representation type, a variant record as its          *)
(* discriminant then the alternative.                                      *)
Elems(e, v) == IF e.isString THEN v.text ELSE v

Place(buf, o, bytes) == buf \o [i \in 1..(o - Len(buf)) |-> 0] \o bytes

RECURSIVE StdEnc(_, _, _, _, _), StdSeq(_, _, _, _)
StdEnc(t, v, A, buf, off) ==
  LET e == TypeMap[t]
      o == AlignTo(off, A[t])
  IN
  CASE e.kind = "basic"        -> [buf |-> Place(buf, o, Bytes(v, e.size, e.order)), off |-> o + e.size]
    [] e.kind = "simple"       -> StdEnc(e.ref, v, A, buf, off)
    [] e.kind = "fixedRecord"  ->
         StdSeq([i \in DOMAIN e.fields |-> <<e.fields[i].dataType, v[e.fields[i].name]>>],
                A, buf, o)
    [] e.kind = "fixedArray"   ->
         StdSeq([i \in DOMAIN Elems(e, v) |-> <<e.ref, Elems(e, v)[i]>>], A, buf, o)
    [] e.kind = "dynamicArray" ->
         StdSeq([i \in DOMAIN Elems(e, v) |-> <<e.ref, Elems(e, v)[i]>>], A,
                Place(buf, o, Bytes(Len(Elems(e, v)), 4, "BE")), o + 4)
    [] e.kind = "enumerated"   ->
         StdEnc(e.ref, (CHOOSE x \in SeqSet(e.enumerators) : x.name = v).value, A, buf, off)
    [] e.kind = "variantRecord" ->
         LET a == CHOOSE x \in SeqSet(e.alternatives) : x.name \in DOMAIN v
         IN  StdSeq(<<<<e.ref, a.enumerator>>, <<a.dataType, v[a.name]>>>>, A, buf, o)

(* The <<type, value>> pairs of s, one after the other.                    *)
StdSeq(s, A, buf, off) ==
  IF s = <<>> THEN [buf |-> buf, off |-> off]
  ELSE LET r == StdEnc(Head(s)[1], Head(s)[2], A, buf, off)
       IN  StdSeq(Tail(s), A, r.buf, r.off)

(* The legal values of type t: every field present, every element of the  *)
(* element type, enumerators by name, one alternative per variant value.   *)
RECURSIVE Vals(_), FieldVals(_)
Vals(t) ==
  LET e == TypeMap[t] IN
  CASE e.kind = "basic"        -> SmallValues[e.size]
    [] e.kind = "simple"       -> Vals(e.ref)
    [] e.kind = "fixedRecord"  -> FieldVals(e.fields)
    [] e.kind = "fixedArray"   -> {Wrap(e, s) : s \in [1..e.cardinality -> Vals(e.ref)]}
    [] e.kind = "dynamicArray" ->
         {Wrap(e, s) : s \in UNION {[1..k -> Vals(e.ref)] : k \in 0..MaxDynLen}}
    [] e.kind = "enumerated"   -> {x.name : x \in SeqSet(e.enumerators)}
    [] e.kind = "variantRecord" ->
         UNION {{[y \in {a.name} |-> x] : x \in Vals(a.dataType)} : a \in SeqSet(e.alternatives)}

FieldVals(fs) ==
  IF fs = <<>> THEN {NoFields}
  ELSE {Extend(r, Head(fs).name, x) : r \in FieldVals(Tail(fs)), x \in Vals(Head(fs).dataType)}

(* The __octetBoundary fields pass 2 can leave, one per dict order.        *)
Resolutions ==
  {Pass2(TypeMap, ord) : ord \in SE!SetToSeqs(OwnNames(TypeMap) \ {n \in DOMAIN TypeMap : TypeMap[n].kind = "basic"})}

(* What getOctetBoundary returns for every type under the fields b.        *)
Effective(b) == [n \in DOMAIN TypeMap |-> GetOctetBoundary(TypeMap, b, n)]

(* The alignments a peer writing the standard layout uses: "hla", the rule *)
(* this code implements; "spec", the table of spec section 3.              *)
PeerAlign == [hla |-> HLAAlignment(TypeMap), spec |-> SpecAlignment(TypeMap)]

IsText(t) == TypeMap[t].kind \in {"fixedArray", "dynamicArray"} /\ TypeMap[t].isString
-----------------------------------------------------------------------------
Init ==
  /\ boundary \in Resolutions
  /\ dataType \in AttrTypes
  /\ value = NoFields
  /\ source = "none"
  /\ wire = <<>>
  /\ phase = "init"
  /\ result = NoFields

(* Container.encode(value) on the sending side: encoder.encode(value,      *)
(* bytearray(), 0), or the exception it raises.                            *)
EncodeLocal(v) ==
  /\ phase = "init"
  /\ ~ IsText(dataType)
  /\ LET r == Enc(dataType, v, <<>>, 0)
     IN  /\ wire' = IF IsErr(r) THEN <<>> ELSE r.buf
         /\ phase' = IF IsErr(r) THEN "encodeError" ELSE "sent"
         /\ result' = IF IsErr(r) THEN r ELSE NoFields
  /\ value' = v
  /\ source' = "local"
  /\ UNCHANGED <<boundary, dataType>>

(* A peer federate that writes the standard layout sends the value.        *)
EncodeStandard(v, peer) ==
  /\ phase = "init"
  /\ wire' = StdEnc(dataType, v, PeerAlign[peer], <<>>, 0).buf
  /\ value' = v
  /\ source' = peer
  /\ phase' = "sent"
  /\ UNCHANGED <<boundary, dataType, result>>

(* Container.decode(encodedValue) on the receiving side: decode(bytes, 0). *)
Decode ==
  /\ phase = "sent"
  /\ result' = Dec(dataType, wire, 0)
  /\ phase' = "decoded"
  /\ UNCHANGED <<boundary, dataType, value, source, wire>>

Next ==
  \/ \E v \in Vals(dataType) :
       \/ EncodeLocal(v)
       \/ \E peer \in DOMAIN PeerAlign : EncodeStandard(v, peer)
  \/ Decode

Spec == Init /\ [][Next]_vars
-----------------------------------------------------------------------------
(* Pass 2 visited the types in an order that left every boundary at its    *)
(* HLA value.                                                              *)
ResolvedExactly == \A n \in DOMAIN boundary : boundary[n] = HLAAlignment(TypeMap)[n]

(* Decode inverts the HLA layout: once the schema's boundaries are exact,   *)
(* bytes a peer wrote by the HLA rule the code implements decode, from     *)
(* offset 0, to exactly the value sent, consuming the whole buffer.        *)
DecodeInvertsHLALayout ==
  phase = "decoded" /\ source = "hla" /\ ResolvedExactly =>
    result = [val |-> value, off |-> Len(wire)]

(* Whenever the code's encode returns, under whatever boundaries the dict  *)
(* order left, its bytes are the standard layout under those boundaries:   *)
(* the same padding, byte order and count prefixes a decoder expects.      *)
LocalEncodeIsLayout ==
  phase \in {"sent", "decoded"} /\ source = "local" =>
    wire = StdEnc(dataType, value, Effective(boundary), <<>>, 0).buf

(* A federate using this code interoperates with one that follows the      *)
(* spec's alignment table: whatever the dict order, the bytes such a peer  *)
(* sends decode to the value it sent.                                      *)
DecodesSpecPeer ==
  phase = "decoded" /\ source = "spec" => result = [val |-> value, off |-> Len(wire)]
=============================================================================
