--------------------------- MODULE TypeResolution ---------------------------
(***************************************************************************)
(* FOMContentHandler.getTypeMap: after the FOM has been parsed, pass 1     *)
(* calls resolveTypes on every type of the typeMap (binding each referenced *)
(* name through typemap[name]) and pass 2 calls resolveOctetBoundary on     *)
(* every type (records, dynamic arrays and variant records fold the        *)
(* getOctetBoundary of their children into their own __octetBoundary).     *)
(* Both loops iterate typeMap.values(), whose order is the dict's hash     *)
(* order: over all schemas, any order of the type names.  BasicData's two   *)
(* methods are no-ops, so the loops are modelled over the composite types. *)
(***************************************************************************)
EXTENDS DataTypes

CONSTANT Catalogs    \* the typeMaps a parsed FOM can produce

VARIABLES
  typeMap,    \* the dict name -> data type object
  phase,      \* "resolveTypes", "resolveOctetBoundary", "done", or the exception raised
  resolved,   \* types whose resolveTypes has run
  boundary,   \* __octetBoundary of every type that has one
  order       \* the types pass 2 has visited, in the dict's order

vars == <<typeMap, phase, resolved, boundary, order>>

Composites == {n \in DOMAIN typeMap : typeMap[n].kind # "basic"}

Visited == {order[i] : i \in DOMAIN order}

(* Mutations of NewBoundary: "+=" for the max update, and the update made *)
(* without the "<" comparison, so the last child's boundary wins.         *)
NewBoundaryAccumulates(n) ==
  LET kids == [c \in BoundaryChildren(typeMap[n]) |-> GetOctetBoundary(typeMap, boundary, c)]
      RECURSIVE SumOver(_)
      SumOver(S) == IF S = {} THEN 0 ELSE LET c == CHOOSE c \in S : TRUE IN kids[c] + SumOver(S \ {c})
  IN  IF Raises \in {kids[c] : c \in DOMAIN kids} THEN Raises
      ELSE boundary[n] + SumOver(DOMAIN kids)

NewBoundaryLastChild(n) ==
  LET e == typeMap[n]
      last == CASE e.kind = "fixedRecord"   -> e.fields[Len(e.fields)].dataType
                [] e.kind = "variantRecord" -> e.alternatives[Len(e.alternatives)].dataType
                [] OTHER                    -> e.ref
  IN  IF BoundaryChildren(e) = {} THEN boundary[n]
      ELSE GetOctetBoundary(typeMap, boundary, last)

(* The value resolveOctetBoundary leaves in __octetBoundary of type n,     *)
(* Raises if a getOctetBoundary it calls raises.                           *)
NewBoundary(n) == StepBoundary(typeMap, boundary, n)

Init ==
  /\ typeMap \in Catalogs
  /\ phase = "resolveTypes"
  /\ resolved = {}
  /\ boundary = [n \in OwnNames(typeMap) |-> InitialBoundary(typeMap[n])]
  /\ order = <<>>

(* resolveTypes(typemap) of one type: every referenced name is present.    *)
ResolveTypes(n) ==
  /\ phase = "resolveTypes"
  /\ n \in Composites \ resolved
  /\ Refs(typeMap[n]) \subseteq DOMAIN typeMap
  /\ resolved' = resolved \cup {n}
  /\ phase' = IF resolved' = Composites THEN "resolveOctetBoundary" ELSE phase
  /\ UNCHANGED <<typeMap, boundary, order>>

(* typemap[self.__dataType] of an undeclared name raises KeyError, which   *)
(* leaves getTypeMap (and readFOM) with the exception.                     *)
ResolveTypesKeyError(n) ==
  /\ phase = "resolveTypes"
  /\ n \in Composites \ resolved
  /\ ~ Refs(typeMap[n]) \subseteq DOMAIN typeMap
  /\ phase' = "KeyError"
  /\ UNCHANGED <<typeMap, resolved, boundary, order>>

(* resolveOctetBoundary() of one type; a no-op for the delegating kinds.   *)
ResolveOctetBoundary(n) ==
  /\ phase = "resolveOctetBoundary"
  /\ n \in Composites \ Visited
  /\ n \in OwnNames(typeMap) => NewBoundary(n) # Raises
  /\ boundary' = IF n \in OwnNames(typeMap)
                   THEN [boundary EXCEPT ![n] = NewBoundary(n)]
                   ELSE boundary
  /\ order' = Append(order, n)
  /\ phase' = IF Len(order') = Cardinality(Composites) THEN "done" ELSE phase
  /\ UNCHANGED <<typeMap, resolved>>

(* A child's getOctetBoundary recursing through a cycle of aliases.        *)
ResolveOctetBoundaryRecursionError(n) ==
  /\ phase = "resolveOctetBoundary"
  /\ n \in Composites \ Visited
  /\ n \in OwnNames(typeMap)
  /\ NewBoundary(n) = Raises
  /\ phase' = "RecursionError"
  /\ UNCHANGED <<typeMap, resolved, boundary, order>>

Next ==
  \E n \in Composites :
    \/ ResolveTypes(n)
    \/ ResolveTypesKeyError(n)
    \/ ResolveOctetBoundary(n)
    \/ ResolveOctetBoundaryRecursionError(n)

Spec == Init /\ [][Next]_vars

-----------------------------------------------------------------------------
(* The HLA alignment of every type of the loaded schema. *)
Reference == HLAAlignment(typeMap)

(* The own-boundary composites whose current boundary n's pass-2 step reads. *)
Deps(n) == UNION {OwnTargetFrom(typeMap, c, {}) : c \in BoundaryChildren(typeMap[n])}
             \cap Composites

Position(n) == CHOOSE i \in DOMAIN order : order[i] = n

(* Pass 2 happened to visit every type after the types it reads.           *)
VisitedBottomUp ==
  \A n \in Visited : \A m \in Deps(n) \ {n} : m \in Visited /\ Position(m) < Position(n)

TypeOK ==
  /\ phase \in {"resolveTypes", "resolveOctetBoundary", "done", "KeyError", "RecursionError"}
  /\ resolved \subseteq Composites
  /\ boundary \in [OwnNames(typeMap) -> 0..8]
  /\ order \in Seq(Composites)

(* Pass 2 only ever under-aligns: at every point of getTypeMap, after the  *)
(* references are bound, no type's __octetBoundary exceeds the boundary the *)
(* HLA rule gives it, whatever order the dict yields the types in.         *)
NeverOverAligned ==
  phase \in {"resolveOctetBoundary", "done"} =>
    \A n \in DOMAIN boundary : boundary[n] =< Reference[n]

(* The single bottom-up sweep of resolveOctetBoundary is exact whenever the *)
(* dict happens to yield every record, dynamic array and variant record    *)
(* after the composite types it reads.                                     *)
BottomUpSweepExact ==
  (phase = "done" /\ VisitedBottomUp) =>
    \A n \in DOMAIN boundary : boundary[n] = Reference[n]

(* What the spec says of getTypeMap: once both passes have completed, every *)
(* composite's alignment is the maximum of its children's.                 *)
AlignmentIsChildMax ==
  phase = "done" => \A n \in DOMAIN boundary : boundary[n] = Reference[n]

(* Spec section 7: an unresolved type reference degrades to an unbound     *)
(* container; loading the schema never aborts.                             *)
SchemaLoadNeverAborts == phase \notin {"KeyError", "RecursionError"}
=============================================================================
