--------------------------- MODULE MC_InstanceTable ---------------------------
(***************************************************************************)
(* Instantiates InstanceTable with handles, names and values as model      *)
(* values; the owner may reuse a name after a delete.                       *)
(***************************************************************************)
EXTENDS InstanceTable

CONSTANTS h1, h2, h3, n1, n2, v1

MCHandles == {h1, h2, h3}
MCNames == {n1, n2}
MCValues == {v1}
=============================================================================
