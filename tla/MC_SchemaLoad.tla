---------------------------- MODULE MC_SchemaLoad ----------------------------
(***************************************************************************)
(* Documents of up to MaxElements data-type elements declaring "A" and "B"  *)
(* of any kind, the basic types HLAoctet and HLAfloat64BE and the          *)
(* unrecognized basicData name "HLAbyte", over references that include     *)
(* "Missing", a name no element declares.                                  *)
(***************************************************************************)
EXTENDS SchemaLoad
=============================================================================
