------------------------- MODULE MC_TypeResolution -------------------------
(***************************************************************************)
(* Instantiates TypeResolution over every schema with two composite types  *)
(* "A" and "B" and the basic types HLAoctet (1 byte) and HLAfloat64BE      *)
(* (8 bytes): each composite is of any kind the parser creates, referring   *)
(* to names of RefNames ("Missing" is a name no element declares).         *)
(***************************************************************************)
EXTENDS TypeResolution, TLC

CONSTANTS
  RefNames,        \* names a composite may reference
  FieldCounts,     \* numbers of fields / alternatives a record may have
  CompositeKinds   \* kinds "A" and "B" may take

BasicTypes ==
  ("HLAoctet" :> [kind |-> "basic", size |-> 1]) @@
  ("HLAfloat64BE" :> [kind |-> "basic", size |-> 8])

Members(R, k) == {[i \in 1..k |-> [name |-> i, dataType |-> t[i]]] : t \in [1..k -> R]}

Lists(R) == UNION {Members(R, k) : k \in FieldCounts}

Entries ==
  {e \in
     {[kind |-> k, ref |-> r] : k \in {"simple", "enumerated"}, r \in RefNames}
     \cup {[kind |-> "fixedArray", ref |-> r, cardinality |-> 1, isString |-> FALSE] : r \in RefNames}
     \cup {[kind |-> "dynamicArray", ref |-> r, isString |-> FALSE] : r \in RefNames}
     \cup {[kind |-> "fixedRecord", fields |-> s] : s \in Lists(RefNames)}
     \cup {[kind |-> "variantRecord", ref |-> d, alternatives |-> s]
             : d \in RefNames, s \in Lists(RefNames) \ {<<>>}}
   : e.kind \in CompositeKinds}

MCCatalogs == {("A" :> a @@ "B" :> b) @@ BasicTypes : a, b \in Entries}
=============================================================================
