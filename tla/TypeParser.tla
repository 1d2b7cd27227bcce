----------------------------- MODULE TypeParser -----------------------------
(***************************************************************************)
(* The data-type half of FOMContentHandler: startElement/endElement of     *)
(* basicData, simpleData, arrayData, enumeratedData, fixedRecordData and   *)
(* variantRecordData, and of the child elements enumerator, field and      *)
(* alternative, which the handler threads into the composite its           *)
(* __current<Kind> pointer holds.  The typeMap it fills is a function from *)
(* names to the records of module DataTypes.  A declaration replaces an    *)
(* earlier one of the same name (the dict assignment).                     *)
(*                                                                         *)
(* The document: type declarations at the top level, not nested in one     *)
(* another; child elements anywhere, including outside any composite of    *)
(* their kind (the stray elements spec section 7 says are ignored).  A     *)
(* current pointer is then set exactly while its composite's element is    *)
(* open, so the object it holds is the one the typeMap holds under its     *)
(* name, and the model keeps the name.  An element with no data-type       *)
(* branch (the class elements, the OMT's grouping elements) changes        *)
(* nothing here and is left out; leaf elements start and end in one step,  *)
(* since endElement has no branch for them.                                *)
(***************************************************************************)
EXTENDS DataTypes, TLC

CONSTANTS
  TypeNames,      \* name attributes of type declarations
  DocBasicNames,  \* name attributes of basicData elements, recognized or not
  RefNames,       \* dataType / representation attributes
  Cardinalities,  \* arrayData cardinality attributes: "dynamic" or a digit
  MemberNames,    \* name / enumerator attributes of the child elements
  EnumValues,     \* values attributes of enumerator elements
  MaxElements     \* elements in a document

None == "None"

VARIABLES
  typeMap,                \* __typeMap
  currentEnumeratedData,  \* __currentEnumeratedData (the name of its type, or None)
  currentFixedRecord,     \* __currentFixedRecord
  currentVariant,         \* __currentVariant
  open,                   \* history: <<the composite element the document has open>>, or <<>>
  elements                \* history: elements read so far

parserVars == <<typeMap, currentEnumeratedData, currentFixedRecord, currentVariant, open, elements>>

pointers == <<currentEnumeratedData, currentFixedRecord, currentVariant>>

(* The basicData branch's table: size and byte order of every recognized   *)
(* name (the _fom codec pair it binds).                                    *)
BasicTable ==
  LET B(s, o) == [kind |-> "basic", size |-> s, order |-> o] IN
  ("HLAoctet" :> B(1, "BE")) @@
  ("HLAoctetPairBE" :> B(2, "BE")) @@ ("HLAoctetPairLE" :> B(2, "LE")) @@
  ("HLAinteger16BE" :> B(2, "BE")) @@ ("HLAinteger16LE" :> B(2, "LE")) @@
  ("HLAinteger32BE" :> B(4, "BE")) @@ ("HLAinteger32LE" :> B(4, "LE")) @@
  ("HLAinteger64BE" :> B(8, "BE")) @@ ("HLAinteger64LE" :> B(8, "LE")) @@
  ("HLAfloat32BE" :> B(4, "BE")) @@ ("HLAfloat32LE" :> B(4, "LE")) @@
  ("HLAfloat64BE" :> B(8, "BE")) @@ ("HLAfloat64LE" :> B(8, "LE")) @@
  ("UnsignedShort" :> B(2, "BE")) @@
  ("Unsignedinteger16BE" :> B(2, "BE")) @@ ("Unsignedinteger16LE" :> B(2, "LE")) @@
  ("UnsignedLong" :> B(4, "BE")) @@
  ("Unsignedinteger32BE" :> B(4, "BE")) @@ ("Unsignedinteger32LE" :> B(4, "LE")) @@
  ("Unsignedinteger64BE" :> B(8, "BE")) @@ ("Unsignedinteger64LE" :> B(8, "LE"))

IsString(n) == n \in {"HLAASCIIstring", "HLAunicodeString"}

(* self.__typeMap[name] = ...                                              *)
Declare(n, e) == typeMap' = (n :> e) @@ typeMap

Element ==
  /\ elements < MaxElements
  /\ elements' = elements + 1

(* A leaf declaration, read with no composite open.                        *)
Leaf ==
  /\ open = <<>>
  /\ Element
  /\ UNCHANGED <<pointers, open>>

(* cardinality.lower() == "dynamic", over the spellings the documents use, *)
(* and int(cardinality) of a one-digit attribute.                          *)
IsDynamic(c) == c \in {"dynamic", "Dynamic", "DYNAMIC"}
IntOf(c) == CHOOSE i \in 0..9 : c = ToString(i)

(* startElement("arrayData"): a dynamic or a fixed array by cardinality.   *)
ArrayData(n, t, c) ==
  /\ Leaf
  /\ Declare(n, IF IsDynamic(c)
                  THEN [kind |-> "dynamicArray", ref |-> t, isString |-> IsString(n)]
                  ELSE [kind |-> "fixedArray", ref |-> t, cardinality |-> IntOf(c), isString |-> IsString(n)])

(* startElement("basicData"): an unrecognized name falls through the       *)
(* if/elif chain and declares nothing.                                     *)
BasicData(n) ==
  /\ Leaf
  /\ IF n \in DOMAIN BasicTable THEN Declare(n, BasicTable[n]) ELSE UNCHANGED typeMap

(* startElement("simpleData"): an alias of its representation.             *)
SimpleData(n, t) ==
  /\ Leaf
  /\ Declare(n, [kind |-> "simple", ref |-> t])

(* startElement of a composite: declare it and point __current<Kind> at it. *)
StartComposite(tag, n, e) ==
  /\ open = <<>>
  /\ Element
  /\ Declare(n, e)
  /\ open' = <<[tag |-> tag, name |-> n]>>

EnumeratedData(n, t) ==
  /\ StartComposite("enumeratedData", n, [kind |-> "enumerated", ref |-> t, enumerators |-> <<>>])
  /\ currentEnumeratedData' = n
  /\ UNCHANGED <<currentFixedRecord, currentVariant>>

FixedRecordData(n) ==
  /\ StartComposite("fixedRecordData", n, [kind |-> "fixedRecord", fields |-> <<>>])
  /\ currentFixedRecord' = n
  /\ UNCHANGED <<currentEnumeratedData, currentVariant>>

VariantRecordData(n, t) ==
  /\ StartComposite("variantRecordData", n, [kind |-> "variantRecord", ref |-> t, alternatives |-> <<>>])
  /\ currentVariant' = n
  /\ UNCHANGED <<currentEnumeratedData, currentFixedRecord>>

(* A child element: "if not self.__current<Kind>: return", else the add    *)
(* method appends to the list the composite keeps.                         *)
Child(cur, list, x) ==
  /\ Element
  /\ IF cur = None THEN UNCHANGED typeMap
     ELSE typeMap' = [typeMap EXCEPT ![cur][list] = Append(@, x)]
  /\ UNCHANGED <<pointers, open>>

(* addEnumerator: int(values) keyed by the name.                           *)
Enumerator(m, v) == Child(currentEnumeratedData, "enumerators", [name |-> m, value |-> v])

Field(m, t) == Child(currentFixedRecord, "fields", [name |-> m, dataType |-> t])

Alternative(m, d, t) == Child(currentVariant, "alternatives", [name |-> m, enumerator |-> d, dataType |-> t])

(* Mutation of EndFixedRecordData: the pointer left set.                   *)
EndFixedRecordDataKeepsCurrent ==
  /\ open # <<>> /\ open[1].tag = "fixedRecordData"
  /\ open' = <<>>
  /\ UNCHANGED <<typeMap, pointers, elements>>

(* endElement of a composite resets its pointer to None.                   *)
EndEnumeratedData ==
  /\ open # <<>> /\ open[1].tag = "enumeratedData"
  /\ currentEnumeratedData' = None
  /\ open' = <<>>
  /\ UNCHANGED <<typeMap, currentFixedRecord, currentVariant, elements>>

EndFixedRecordData ==
  /\ open # <<>> /\ open[1].tag = "fixedRecordData"
  /\ currentFixedRecord' = None
  /\ open' = <<>>
  /\ UNCHANGED <<typeMap, currentEnumeratedData, currentVariant, elements>>

EndVariantRecordData ==
  /\ open # <<>> /\ open[1].tag = "variantRecordData"
  /\ currentVariant' = None
  /\ open' = <<>>
  /\ UNCHANGED <<typeMap, currentEnumeratedData, currentFixedRecord, elements>>

ParserInit ==
  /\ typeMap = [n \in {} |-> [kind |-> "basic"]]
  /\ currentEnumeratedData = None
  /\ currentFixedRecord = None
  /\ currentVariant = None
  /\ open = <<>>
  /\ elements = 0

ParserNext ==
  \/ \E n \in TypeNames, t \in RefNames :
       \/ \E c \in Cardinalities : ArrayData(n, t, c)
       \/ SimpleData(n, t)
       \/ EnumeratedData(n, t)
       \/ VariantRecordData(n, t)
  \/ \E n \in TypeNames : FixedRecordData(n)
  \/ \E n \in DocBasicNames : BasicData(n)
  \/ \E m \in MemberNames :
       \/ \E v \in EnumValues : Enumerator(m, v)
       \/ \E t \in RefNames : Field(m, t) \/ \E d \in MemberNames : Alternative(m, d, t)
  \/ EndEnumeratedData
  \/ EndFixedRecordData
  \/ EndVariantRecordData

(* The document has ended: no composite element is open.                   *)
Parsed == open = <<>>
-----------------------------------------------------------------------------
ParserTypeOK ==
  /\ DOMAIN typeMap \subseteq TypeNames \cup DOMAIN BasicTable
  /\ {currentEnumeratedData, currentFixedRecord, currentVariant} \subseteq TypeNames \cup {None}
  /\ elements \in 0..MaxElements

(* The composite element a child element belongs in, by the list its add  *)
(* method extends.                                                         *)
Holder == [enumerators |-> "enumeratedData", fields |-> "fixedRecordData",
           alternatives |-> "variantRecordData"]

(* What the document says a child element x does to the catalog: spec 4.3  *)
(* threads it into the open composite of its kind, spec 7 ignores it when  *)
(* none is open.                                                           *)
Threaded(list, x) ==
  IF open # <<>> /\ open[1].tag = Holder[list]
    THEN typeMap' = [typeMap EXCEPT ![open[1].name][list] = Append(@, x)]
    ELSE typeMap' = typeMap

(* Every enumerator, field and alternative element lands in the composite *)
(* the document has open around it, and one read outside any composite of  *)
(* its kind (before it, after its end, or inside a composite of another    *)
(* kind) leaves the catalog as it was: the __current<Kind> pointers set by *)
(* startElement and reset by endElement never lag the document.            *)
ChildrenThreadedIntoOpenComposite ==
  [][\A m \in MemberNames :
       /\ \A v \in EnumValues :
            Enumerator(m, v) => Threaded("enumerators", [name |-> m, value |-> v])
       /\ \A t \in RefNames :
            /\ Field(m, t) => Threaded("fields", [name |-> m, dataType |-> t])
            /\ \A d \in MemberNames :
                 Alternative(m, d, t) => Threaded("alternatives", [name |-> m, enumerator |-> d, dataType |-> t])
    ]_parserVars
=============================================================================
