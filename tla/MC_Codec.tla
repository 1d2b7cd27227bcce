------------------------------ MODULE MC_Codec ------------------------------
(***************************************************************************)
(* One schema holding every data type class, with big- and little-endian   *)
(* basic types of widths 1, 2, 4 and 8, records nesting records and arrays, *)
(* an enumerated type and a variant record discriminated by it, a text     *)
(* array, and a dynamic array of 8-byte records behind a 1-byte field      *)
(* (where a 4- and an 8-byte count alignment differ).                      *)
(***************************************************************************)
EXTENDS Codec, TLC

Basic(size, order) == [kind |-> "basic", size |-> size, order |-> order]
Field(name, t) == [name |-> name, dataType |-> t]

MCTypeMap ==
  ("HLAoctet" :> Basic(1, "BE")) @@
  ("HLAinteger16LE" :> Basic(2, "LE")) @@
  ("HLAinteger32BE" :> Basic(4, "BE")) @@
  ("HLAfloat64BE" :> Basic(8, "BE")) @@
  ("Position" :> [kind |-> "fixedRecord",
                  fields |-> <<Field("x", "HLAfloat64BE"), Field("y", "HLAfloat64BE")>>]) @@
  ("OnOff" :> [kind |-> "enumerated", ref |-> "HLAinteger32BE",
               enumerators |-> <<[name |-> "On", value |-> 1], [name |-> "Off", value |-> 0]>>]) @@
  ("Bytes" :> [kind |-> "dynamicArray", ref |-> "HLAoctet", isString |-> FALSE]) @@
  ("HLAASCIIstring" :> [kind |-> "dynamicArray", ref |-> "HLAoctet", isString |-> TRUE]) @@
  ("Pair" :> [kind |-> "fixedArray", ref |-> "HLAinteger16LE", cardinality |-> 2,
              isString |-> FALSE]) @@
  ("Tagged" :> [kind |-> "fixedRecord",
                fields |-> <<Field("flag", "HLAoctet"), Field("pair", "Pair"),
                             Field("pos", "Position")>>]) @@
  ("Choice" :> [kind |-> "variantRecord", ref |-> "OnOff",
                alternatives |-> <<[name |-> "level", enumerator |-> "On", dataType |-> "HLAoctet"],
                                   [name |-> "pair", enumerator |-> "Off", dataType |-> "Pair"]>>]) @@
  ("Path" :> [kind |-> "dynamicArray", ref |-> "Position", isString |-> FALSE]) @@
  ("Track" :> [kind |-> "fixedRecord",
               fields |-> <<Field("flag", "HLAoctet"), Field("path", "Path")>>])

MCSmallValues == [s \in {1, 2, 4, 8} |-> CASE s = 1 -> {0, 200}
                                          [] s = 2 -> {258}
                                          [] s = 4 -> {1}
                                          [] s = 8 -> {3}]
=============================================================================
