----------------------------- MODULE DataTypes -----------------------------
(***************************************************************************)
(* The data-type objects of src/python/rti1516/__init__.py (BasicData,     *)
(* SimpleData, FixedRecordData, FixedArrayData, DynamicArrayData,          *)
(* EnumeratedData, VariantRecordData) as records, and the operators the    *)
(* resolution passes and the codec share.  A typeMap (the dict the FOM     *)
(* content handler fills) is a function from declared type names to such   *)
(* records; every cross-type reference is a name looked up in it.          *)
(*                                                                         *)
(*   [kind |-> "basic", size]                        BasicData             *)
(*   [kind |-> "simple", ref]                        SimpleData            *)
(*   [kind |-> "fixedArray", ref, cardinality, isString]  FixedArrayData   *)
(*   [kind |-> "dynamicArray", ref, isString]        DynamicArrayData      *)
(*   [kind |-> "enumerated", ref, ...]               EnumeratedData        *)
(*   [kind |-> "fixedRecord", fields]   fields: <<[name, dataType]>>       *)
(*   [kind |-> "variantRecord", ref, alternatives]                         *)
(*                  alternatives: <<[name, enumerator, dataType]>>,        *)
(*                  every addAlternative in order                          *)
(***************************************************************************)
EXTENDS Integers, Sequences, FiniteSets

(* Kinds whose getOctetBoundary returns a field of their own, and kinds    *)
(* whose getOctetBoundary follows the weakref to the referenced type.      *)
OwnBoundaryKinds == {"basic", "fixedRecord", "dynamicArray", "variantRecord"}
DelegatingKinds  == {"simple", "fixedArray", "enumerated"}

(* Stands for "the call raises" (RuntimeError: maximum recursion depth).   *)
Raises == -1

MaxOf(S) == IF S = {} THEN 0 ELSE CHOOSE x \in S : \A y \in S : x >= y

SeqSet(s) == {s[i] : i \in DOMAIN s}

(* The values of __nameAlternativeMap: addAlternative stores each         *)
(* alternative under its name, so a later one of the same name replaces it. *)
AltsByName(e) ==
  {e.alternatives[i] : i \in {i \in DOMAIN e.alternatives :
                                \A j \in DOMAIN e.alternatives :
                                  j > i => e.alternatives[j].name # e.alternatives[i].name}}

(* The names resolveTypes looks up in the typeMap.                         *)
Refs(e) ==
  CASE e.kind = "basic"         -> {}
    [] e.kind = "fixedRecord"   -> {f.dataType : f \in SeqSet(e.fields)}
    [] e.kind = "variantRecord" -> {e.ref} \cup {a.dataType : a \in AltsByName(e)}
    [] OTHER                    -> {e.ref}

(* The names whose getOctetBoundary resolveOctetBoundary reads: the fields *)
(* of a record, the element of a dynamic array, the alternatives of a      *)
(* variant record (its discriminant type is not read).                     *)
BoundaryChildren(e) ==
  CASE e.kind = "fixedRecord"   -> {f.dataType : f \in SeqSet(e.fields)}
    [] e.kind = "dynamicArray"  -> {e.ref}
    [] e.kind = "variantRecord" -> {a.dataType : a \in AltsByName(e)}
    [] OTHER                    -> {}

(* Mutation of InitialBoundary: a variant record starting, like a dynamic *)
(* array, at the 4-byte boundary of a count.                              *)
InitialBoundaryVariantFour(e) ==
  CASE e.kind = "basic"                          -> e.size
    [] e.kind \in {"dynamicArray", "variantRecord"} -> 4
    [] OTHER                                     -> 0

(* __octetBoundary as each constructor sets it.                            *)
InitialBoundary(e) ==
  CASE e.kind = "basic"        -> e.size
    [] e.kind = "dynamicArray" -> 4
    [] OTHER                   -> 0

OwnNames(tm) == {n \in DOMAIN tm : tm[n].kind \in OwnBoundaryKinds}

(* getOctetBoundary of type n, given the current __octetBoundary fields b: *)
(* delegating kinds call getOctetBoundary on their referenced type, so a   *)
(* cycle of delegating types recurses until Python raises.                 *)
RECURSIVE BoundaryFrom(_, _, _, _)
BoundaryFrom(tm, b, n, seen) ==
  CASE tm[n].kind \in OwnBoundaryKinds -> b[n]
    [] n \in seen                      -> Raises
    [] OTHER -> BoundaryFrom(tm, b, tm[n].ref, seen \cup {n})

GetOctetBoundary(tm, b, n) == BoundaryFrom(tm, b, n, {})

(* The own-boundary types whose boundary getOctetBoundary(n) returns.      *)
RECURSIVE OwnTargetFrom(_, _, _)
OwnTargetFrom(tm, n, seen) ==
  CASE tm[n].kind \in OwnBoundaryKinds -> {n}
    [] n \in seen                      -> {}
    [] OTHER -> OwnTargetFrom(tm, tm[n].ref, seen \cup {n})

(* alignTo(offset, octetBoundary), with Python 2 integer division.         *)
(* A zero boundary raises ZeroDivisionError.                               *)
AlignTo(offset, octetBoundary) ==
  ((offset + octetBoundary - 1) \div octetBoundary) * octetBoundary

(* The value resolveOctetBoundary leaves in __octetBoundary of the         *)
(* own-boundary type n, given the current fields b; Raises if a            *)
(* getOctetBoundary it calls raises.                                       *)
StepBoundary(tm, b, n) ==
  LET kids == {GetOctetBoundary(tm, b, c) : c \in BoundaryChildren(tm[n])}
  IN  IF Raises \in kids THEN Raises ELSE MaxOf({b[n]} \cup kids)

(* The __octetBoundary fields after pass 2 visits the own-boundary types   *)
(* in the order ord (the delegating kinds' steps are no-ops).              *)
RECURSIVE Pass2From(_, _, _)
Pass2From(tm, b, ord) ==
  IF ord = <<>> THEN b
  ELSE Pass2From(tm, [b EXCEPT ![Head(ord)] = StepBoundary(tm, b, Head(ord))], Tail(ord))

Pass2(tm, ord) ==
  Pass2From(tm, [n \in OwnNames(tm) |-> InitialBoundary(tm[n])], ord)

(* referenceTypes(typeList) of type n, as a record: ok is FALSE when the   *)
(* call raises, list is the typeList.  Records, arrays and variant records *)
(* return at once when already in the list; a basic type ends the walk;    *)
(* simple and enumerated types append themselves and recurse with no such  *)
(* check, so a cycle of them alone recurses until Python raises.  chain:   *)
(* the simple and enumerated types passed since the last checked type.     *)
(* The fields and alternatives are walked in any order: neither the types  *)
(* reached nor whether the walk raises depends on it.                      *)
RECURSIVE RefWalk(_, _, _, _), RefEach(_, _, _), RefWalkSkipsDiscriminant(_, _, _, _)

(* Mutation of RefWalk: a variant record that does not walk its           *)
(* discriminant type.                                                      *)
RefWalkSkipsDiscriminant(tm, n, r, chain) ==
  LET e == tm[n]
      r1 == [r EXCEPT !.list = Append(@, n)]
  IN  CASE ~ r.ok                                 -> r
        [] e.kind = "basic"                       -> r1
        [] e.kind \in {"simple", "enumerated"}    ->
             IF n \in chain THEN [r EXCEPT !.ok = FALSE]
             ELSE RefWalk(tm, e.ref, r1, chain \cup {n})
        [] n \in SeqSet(r.list)                   -> r
        [] e.kind = "fixedRecord"                 -> RefEach(tm, {f.dataType : f \in SeqSet(e.fields)}, r1)
        [] e.kind = "variantRecord"               -> RefEach(tm, {a.dataType : a \in AltsByName(e)}, r1)
        [] OTHER                                  -> RefWalk(tm, e.ref, r1, {})

RefWalk(tm, n, r, chain) ==
  LET e == tm[n]
      r1 == [r EXCEPT !.list = Append(@, n)]
  IN  CASE ~ r.ok                                 -> r
        [] e.kind = "basic"                       -> r1
        [] e.kind \in {"simple", "enumerated"}    ->
             IF n \in chain THEN [r EXCEPT !.ok = FALSE]
             ELSE RefWalk(tm, e.ref, r1, chain \cup {n})
        [] n \in SeqSet(r.list)                   -> r
        [] e.kind = "fixedRecord"                 -> RefEach(tm, {f.dataType : f \in SeqSet(e.fields)}, r1)
        [] e.kind = "variantRecord"               ->
             RefEach(tm, {a.dataType : a \in AltsByName(e)}, RefWalk(tm, e.ref, r1, {}))
        [] OTHER                                  -> RefWalk(tm, e.ref, r1, {})
RefEach(tm, S, r) ==
  IF S = {} THEN r
  ELSE LET c == CHOOSE c \in S : TRUE IN RefEach(tm, S \ {c}, RefWalk(tm, c, r, {}))

ReferenceTypes(tm, n) == RefWalk(tm, n, [ok |-> TRUE, list |-> <<>>], {})

-----------------------------------------------------------------------------
(* Reference alignments, written independently of the passes as least     *)
(* fixpoints from all-zero.  HLAAlignment is the HLA octet-boundary rule   *)
(* the code implements: a record or variant record takes the largest       *)
(* boundary of its fields or alternatives, a dynamic array max(4,          *)
(* element), an alias its target's.  SpecAlignment is the table of spec    *)
(* section 3: a dynamic array is fixed at 4 and a variant record also      *)
(* covers its discriminant.                                                *)
HLARule(tm, a, n) ==
  LET e == tm[n] IN
  CASE e.kind = "basic"         -> e.size
    [] e.kind = "fixedRecord"   -> MaxOf({a[f.dataType] : f \in SeqSet(e.fields)})
    [] e.kind = "dynamicArray"  -> MaxOf({4, a[e.ref]})
    [] e.kind = "variantRecord" -> MaxOf({a[x.dataType] : x \in AltsByName(e)})
    [] OTHER                    -> a[e.ref]

SpecRule(tm, a, n) ==
  LET e == tm[n] IN
  CASE e.kind = "dynamicArray"  -> 4
    [] e.kind = "variantRecord" ->
         MaxOf({a[e.ref]} \cup {a[x.dataType] : x \in AltsByName(e)})
    [] OTHER                    -> HLARule(tm, a, n)

RECURSIVE HLAFix(_, _), SpecFix(_, _)
HLAFix(tm, a) ==
  LET next == [n \in DOMAIN a |-> HLARule(tm, a, n)]
  IN  IF next = a THEN a ELSE HLAFix(tm, next)
SpecFix(tm, a) ==
  LET next == [n \in DOMAIN a |-> SpecRule(tm, a, n)]
  IN  IF next = a THEN a ELSE SpecFix(tm, next)

HLAAlignment(tm)  == HLAFix(tm, [n \in DOMAIN tm |-> 0])
SpecAlignment(tm) == SpecFix(tm, [n \in DOMAIN tm |-> 0])
=============================================================================
